------------------------- MODULE MeasureStreamProofs -------------------------
(***************************************************************************)
(* Proofs about what MeasureQueue hands the worker, for every capacity,      *)
(* buffer limit and set of stamps, and for any interleaving of the callers:  *)
(* frames in the order they were taken, each with every sample since the     *)
(* frame before it; and that the queue therefore implements FrameStream.     *)
(*                                                                          *)
(* First what the synchroniser's operators do to a rising buffer, told by    *)
(* the set of its stamps; then how a group is complete, and stays so when    *)
(* its predecessor is spliced into it; then the two invariants, the order of *)
(* the backlog and the chain of intervals; last the refinement.              *)
(***************************************************************************)
EXTENDS MeasureQueueProofs, FiniteSetTheorems

\* A buffer is rising, and what is known of it besides is the set of its stamps.
Rising(m)   == \A i, j \in DOMAIN m : i < j => m[i].t <= m[j].t
StampSet(m) == {m[i].t : i \in DOMAIN m}

\* What the synchroniser retains of the samples R once a frame of stamp a is released.
KeptFrom(a, R) == {s \in R : \A r \in R : s < r => a < r}

\* The samples that preintegration over [a, b] needs, of the samples R.
SpanOf(a, b, R) == {s \in R : \A r \in R : (s < r => a < r) /\ (r < s => r < b)}

-------------------------------------------------------------------------------
LEMMA StampsAreNatural ==
  ASSUME NEW m \in Seq(Message)
  PROVE  /\ \A i \in DOMAIN m : m[i] \in Message /\ m[i].t \in Nat
         /\ DOMAIN m = 1 .. Len(m) /\ Len(m) \in Nat
         /\ StampSet(m) \subseteq Nat
<1>1. \A i \in DOMAIN m : m[i] \in Message
  OBVIOUS
<1>2. \A x \in Message : x.t \in Nat
  BY SyncAssumption DEF Message
<1>3. \A i \in DOMAIN m : m[i].t \in Nat
  BY <1>1, <1>2
<1> QED
  BY <1>1, <1>3 DEF StampSet

LEMMA Slice ==
  ASSUME NEW S, NEW s \in Seq(S), NEW a \in 1 .. Len(s), NEW b \in a .. Len(s)
  PROVE  /\ SubSeq(s, a, b) \in Seq(S) /\ Len(SubSeq(s, a, b)) = b - a + 1
         /\ \A i \in 1 .. b - a + 1 : SubSeq(s, a, b)[i] = s[a + i - 1]
<1>1. Len(s) \in Nat /\ a \in Nat \ {0} /\ b \in 0 .. Len(s)
  OBVIOUS
<1>2. SubSeq(s, a, b) \in Seq(S)
  BY <1>1, SliceType
<1>3. Len(SubSeq(s, a, b)) = b - a + 1
  BY <1>1
<1>4. \A i \in 1 .. b - a + 1 : SubSeq(s, a, b)[i] = s[a + i - 1]
  BY <1>1
<1> QED
  BY <1>2, <1>3, <1>4

\* A slice of a rising sequence is rising, and its stamps are those at its indices.
LEMMA SliceRises ==
  ASSUME NEW m \in Seq(Message), Rising(m), NEW a \in 1 .. Len(m), NEW b \in a .. Len(m),
         NEW s, s = SubSeq(m, a, b)
  PROVE  /\ s \in Seq(Message) /\ s # <<>> /\ Rising(s)
         /\ StampSet(s) = {m[i].t : i \in a .. b}
         /\ Last(s) = m[b]
<1>1. /\ s \in Seq(Message) /\ Len(s) = b - a + 1 /\ DOMAIN s = 1 .. b - a + 1
      /\ \A i \in 1 .. b - a + 1 : s[i] = m[a + i - 1]
  BY Slice
<1>2. a \in Nat /\ b \in Nat /\ Len(m) \in Nat /\ DOMAIN m = 1 .. Len(m) /\ 1 <= a /\ a <= b
      /\ b <= Len(m)
  OBVIOUS
<1>3. Rising(s)
  <2> SUFFICES ASSUME NEW i \in DOMAIN s, NEW j \in DOMAIN s, i < j PROVE s[i].t <= s[j].t
    BY DEF Rising
  <2>1. /\ a + i - 1 \in DOMAIN m /\ a + j - 1 \in DOMAIN m /\ a + i - 1 < a + j - 1
        /\ s[i] = m[a + i - 1] /\ s[j] = m[a + j - 1]
    BY <1>1, <1>2
  <2> QED
    BY <2>1 DEF Rising
<1>4. StampSet(s) = {m[i].t : i \in a .. b}
  <2>1. ASSUME NEW i \in DOMAIN s PROVE \E j \in a .. b : s[i].t = m[j].t
    <3>1. a + i - 1 \in a .. b /\ s[i].t = m[a + i - 1].t
      BY <1>1, <1>2
    <3> QED
      BY <3>1
  <2>2. ASSUME NEW j \in a .. b PROVE \E i \in DOMAIN s : s[i].t = m[j].t
    <3>1. /\ j - a + 1 \in DOMAIN s /\ a + (j - a + 1) - 1 = j
          /\ s[j - a + 1] = m[a + (j - a + 1) - 1]
      BY <1>1, <1>2
    <3> QED
      BY <3>1
  <2>3. ASSUME NEW x \in StampSet(s) PROVE x \in {m[i].t : i \in a .. b}
    BY <2>1 DEF StampSet
  <2>4. ASSUME NEW x \in {m[i].t : i \in a .. b} PROVE x \in StampSet(s)
    <3>1. PICK j \in a .. b : x = m[j].t
      OBVIOUS
    <3> QED
      BY <2>2, <3>1 DEF StampSet
  <2> QED
    BY <2>3, <2>4
<1>5. Last(s) = m[b]
  <2>1. b - a + 1 \in 1 .. b - a + 1 /\ a + (b - a + 1) - 1 = b
    BY <1>2
  <2> QED
    BY <1>1, <2>1 DEF Last
<1>6. s # <<>>
  BY <1>1, <1>2
<1> QED
  BY <1>1, <1>3, <1>4, <1>5, <1>6

\* next(): the prefix up to and including the first sample at or past the frame.
LEMMA IntervalStamps ==
  ASSUME NEW m \in Seq(Message), Rising(m), m # <<>>, NEW t \in Nat, Last(m).t >= t,
         NEW s, s = Interval(m, t)
  PROVE  /\ s \in Seq(Message) /\ s # <<>> /\ Rising(s) /\ Last(s).t >= t
         /\ StampSet(s) = {x \in StampSet(m) : \A y \in StampSet(m) : y < x => y < t}
<1> DEFINE I == {i \in 1 .. Len(m) : m[i].t >= t}
<1>1. /\ \A i \in DOMAIN m : m[i].t \in Nat
      /\ DOMAIN m = 1 .. Len(m) /\ Len(m) \in Nat /\ Len(m) >= 1
  BY StampsAreNatural
<1>2. I # {} /\ I \in SUBSET Nat
  BY <1>1 DEF Last
<1> DEFINE k == Min(I)
<1>3. s = SubSeq(m, 1, k)
  BY <1>2 DEF Interval, SelectInSeq
<1>4. k \in I /\ \A i \in I : k <= i
  <2> HIDE DEF I
  <2> QED
    BY <1>2, MinOfNaturals
<1> HIDE DEF k
<1>5. k \in 1 .. Len(m) /\ m[k].t >= t /\ \A i \in 1 .. Len(m) : i < k => m[i].t < t
  BY <1>1, <1>4
<1> HIDE DEF I
<1>6. /\ s \in Seq(Message) /\ s # <<>> /\ Rising(s) /\ Last(s) = m[k]
      /\ StampSet(s) = {m[i].t : i \in 1 .. k}
  <2>1. 1 \in 1 .. Len(m) /\ k \in 1 .. Len(m)
    BY <1>1, <1>5
  <2> QED
    BY <1>3, <2>1, SliceRises
<1>7. ASSUME NEW i \in 1 .. k, NEW j \in DOMAIN m, m[j].t < m[i].t PROVE m[j].t < t
  <2>1. i \in DOMAIN m /\ j \in Nat /\ i \in Nat /\ k \in Nat
    BY <1>1, <1>5
  <2>2. j < i
    BY <1>1, <1>7, <2>1 DEF Rising
  <2> QED
    BY <1>1, <1>5, <2>1, <2>2
<1>8. ASSUME NEW i \in DOMAIN m, \A j \in DOMAIN m : m[j].t < m[i].t => m[j].t < t
      PROVE  \E j \in 1 .. k : m[i].t = m[j].t
  <2>1. CASE i <= k
    BY <1>1, <1>5, <2>1
  <2>2. CASE i > k
    <3>1. k \in DOMAIN m /\ m[k].t <= m[i].t /\ ~(m[k].t < t)
      BY <1>1, <1>5, <2>2 DEF Rising
    <3>2. m[k].t = m[i].t
      BY <1>1, <1>8, <3>1
    <3> QED
      BY <1>5, <3>2
  <2> QED
    BY <1>1, <1>5, <2>1, <2>2
<1>9. StampSet(s) = {x \in StampSet(m) : \A y \in StampSet(m) : y < x => y < t}
  <2>1. \A i \in 1 .. k : i \in DOMAIN m
    BY <1>1, <1>5
  <2>2. ASSUME NEW x \in StampSet(s)
        PROVE  x \in StampSet(m) /\ \A y \in StampSet(m) : y < x => y < t
    <3>1. PICK i \in 1 .. k : x = m[i].t
      BY <1>6
    <3> QED
      BY <1>7, <2>1, <3>1 DEF StampSet
  <2>3. ASSUME NEW x \in StampSet(m), \A y \in StampSet(m) : y < x => y < t PROVE x \in StampSet(s)
    <3>1. PICK i \in DOMAIN m : x = m[i].t
      BY DEF StampSet
    <3>2. \E j \in 1 .. k : m[i].t = m[j].t
      BY <1>8, <2>3, <3>1 DEF StampSet
    <3> QED
      BY <1>6, <3>1, <3>2
  <2> QED
    BY <2>2, <2>3
<1> QED
  BY <1>5, <1>6, <1>9

\* trim(): the last sample at or before the frame stays, and all after it.
LEMMA TrimStamps ==
  ASSUME NEW m \in Seq(Message), Rising(m), m # <<>>, NEW t \in Nat, NEW s, s = Trim(m, t)
  PROVE  /\ s \in Seq(Message) /\ s # <<>> /\ Rising(s)
         /\ StampSet(s) = KeptFrom(t, StampSet(m))
<1> DEFINE I == {i \in 2 .. Len(m) : m[i].t > t}
<1>1. /\ \A i \in DOMAIN m : m[i].t \in Nat
      /\ DOMAIN m = 1 .. Len(m) /\ Len(m) \in Nat /\ Len(m) >= 1
  BY StampsAreNatural
<1>2. \E k \in 1 .. Len(m) : /\ s = SubSeq(m, k, Len(m))
                             /\ k >= 2 => m[k].t <= t
                             /\ k < Len(m) => m[k + 1].t > t
  <2>1. CASE I = {}
    <3>1. s = <<m[Len(m)]>>
      BY <2>1 DEF Trim, SelectInSubSeq, Last
    <3>2. <<m[Len(m)]>> = SubSeq(m, Len(m), Len(m))
      BY <1>1
    <3>3. Len(m) \in 1 .. Len(m) /\ (Len(m) >= 2 => m[Len(m)].t <= t)
      BY <1>1, <2>1
    <3> QED
      BY <1>1, <3>1, <3>2, <3>3
  <2>2. CASE I # {}
    <3>1. I \in SUBSET Nat
      BY <1>1
    <3> DEFINE j == Min(I)
    <3>2. s = IF j = 0 THEN <<Last(m)>> ELSE SubSeq(m, j - 1, Len(m))
      BY <2>2 DEF Trim, SelectInSubSeq
    <3>3. j \in I /\ \A i \in I : j <= i
      <4> HIDE DEF I
      <4> QED
        BY <2>2, <3>1, MinOfNaturals
    <3> HIDE DEF j
    <3>4. j \in 2 .. Len(m) /\ m[j].t > t /\ \A i \in 2 .. Len(m) : i < j => m[i].t <= t
      BY <1>1, <3>3
    <3> HIDE DEF I
    <3>5. /\ j - 1 \in 1 .. Len(m) /\ s = SubSeq(m, j - 1, Len(m))
          /\ (j - 1) + 1 = j
          /\ j - 1 >= 2 => m[j - 1].t <= t
      BY <1>1, <3>2, <3>4
    <3> QED
      BY <3>4, <3>5
  <2> QED
    BY <2>1, <2>2
<1> HIDE DEF I
<1>3. PICK k \in 1 .. Len(m) : /\ s = SubSeq(m, k, Len(m))
                               /\ k >= 2 => m[k].t <= t
                               /\ k < Len(m) => m[k + 1].t > t
  BY <1>2
<1>4. /\ s \in Seq(Message) /\ s # <<>> /\ Rising(s)
      /\ StampSet(s) = {m[i].t : i \in k .. Len(m)}
  <2>1. Len(m) \in k .. Len(m)
    BY <1>1
  <2> QED
    BY <1>3, <2>1, SliceRises
<1>5. ASSUME NEW i \in k .. Len(m), NEW j \in DOMAIN m, m[i].t < m[j].t PROVE t < m[j].t
  <2>1. i \in DOMAIN m /\ i \in Nat /\ j \in Nat
    BY <1>1
  <2>2. i < j
    BY <1>1, <1>5, <2>1 DEF Rising
  <2>3. k < Len(m) /\ k + 1 \in DOMAIN m /\ (k + 1 = j \/ k + 1 < j)
    BY <1>1, <2>1, <2>2
  <2>4. m[k + 1].t <= m[j].t
    BY <1>1, <2>3 DEF Rising
  <2> QED
    BY <1>1, <1>3, <2>3, <2>4
<1>6. ASSUME NEW i \in DOMAIN m, \A j \in DOMAIN m : m[i].t < m[j].t => t < m[j].t
      PROVE  \E j \in k .. Len(m) : m[i].t = m[j].t
  <2>1. CASE i >= k
    BY <1>1, <2>1
  <2>2. CASE i < k
    <3>1. k \in DOMAIN m /\ m[i].t <= m[k].t /\ m[k].t <= t
      BY <1>1, <1>3, <2>2 DEF Rising
    <3>2. m[k].t = m[i].t
      BY <1>1, <1>6, <3>1
    <3> QED
      BY <1>1, <3>2
  <2> QED
    BY <1>1, <2>1, <2>2
<1>7. StampSet(s) = KeptFrom(t, StampSet(m))
  <2>1. \A i \in k .. Len(m) : i \in DOMAIN m
    BY <1>1
  <2>2. ASSUME NEW x \in StampSet(s)
        PROVE  x \in StampSet(m) /\ \A y \in StampSet(m) : x < y => t < y
    <3>1. PICK i \in k .. Len(m) : x = m[i].t
      BY <1>4
    <3> QED
      BY <1>5, <2>1, <3>1 DEF StampSet
  <2>3. ASSUME NEW x \in StampSet(m), \A y \in StampSet(m) : x < y => t < y PROVE x \in StampSet(s)
    <3>1. PICK i \in DOMAIN m : x = m[i].t
      BY DEF StampSet
    <3>2. \E j \in k .. Len(m) : m[i].t = m[j].t
      BY <1>6, <2>3, <3>1 DEF StampSet
    <3> QED
      BY <1>4, <3>1, <3>2
  <2> QED
    BY <2>2, <2>3 DEF KeptFrom
<1> QED
  BY <1>4, <1>7

\* What the overflow branch appends: the samples strictly later than t.
LEMMA AfterStamps ==
  ASSUME NEW m \in Seq(Message), Rising(m), NEW t \in Nat, NEW s, s = After(m, t)
  PROVE  /\ s \in Seq(Message) /\ Rising(s)
         /\ StampSet(s) = {x \in StampSet(m) : x > t}
         /\ s # <<>> => m # <<>> /\ Last(s) = Last(m)
         /\ s = <<>> => \A x \in StampSet(m) : x <= t
<1> DEFINE I == {i \in 1 .. Len(m) : m[i].t > t}
<1>1. /\ \A i \in DOMAIN m : m[i].t \in Nat
      /\ DOMAIN m = 1 .. Len(m) /\ Len(m) \in Nat
  BY StampsAreNatural
<1>2. CASE I = {}
  <2>1. s = <<>>
    BY <1>2 DEF After, SelectInSeq
  <2>2. \A i \in DOMAIN m : m[i].t <= t
    BY <1>1, <1>2
  <2>3. s \in Seq(Message) /\ Rising(s) /\ StampSet(s) = {}
    BY <2>1 DEF Rising, StampSet
  <2> HIDE DEF I
  <2>4. \A x \in StampSet(m) : x <= t /\ ~(x > t)
    BY <1>1, <2>2 DEF StampSet
  <2> QED
    BY <2>1, <2>3, <2>4
<1>3. CASE I # {}
  <2>1. I \in SUBSET Nat
    BY <1>1
  <2> DEFINE k == Min(I)
  <2>2. s = IF k = 0 THEN <<>> ELSE SubSeq(m, k, Len(m))
    BY <1>3 DEF After, SelectInSeq
  <2>3. k \in I /\ \A i \in I : k <= i
    <3> HIDE DEF I
    <3> QED
      BY <1>3, <2>1, MinOfNaturals
  <2> HIDE DEF k
  <2>4. k \in 1 .. Len(m) /\ m[k].t > t /\ \A i \in 1 .. Len(m) : i < k => m[i].t <= t
    BY <1>1, <2>3
  <2> HIDE DEF I
  <2>5. s = SubSeq(m, k, Len(m)) /\ Len(m) \in k .. Len(m) /\ m # <<>>
    BY <1>1, <2>2, <2>4
  <2>6. /\ s \in Seq(Message) /\ s # <<>> /\ Rising(s) /\ Last(s) = m[Len(m)]
        /\ StampSet(s) = {m[i].t : i \in k .. Len(m)}
    BY <2>4, <2>5, SliceRises
  <2>7. ASSUME NEW i \in DOMAIN m PROVE i \in k .. Len(m) <=> m[i].t > t
    <3>1. CASE i < k
      BY <1>1, <2>4, <3>1
    <3>2. CASE i >= k
      <4>1. k \in DOMAIN m /\ m[k].t <= m[i].t
        BY <1>1, <2>4, <3>2 DEF Rising
      <4> QED
        BY <1>1, <2>4, <3>2, <4>1
    <3> QED
      BY <1>1, <2>4, <3>1, <3>2
  <2>8. StampSet(s) = {x \in StampSet(m) : x > t}
    <3>1. \A i \in k .. Len(m) : i \in DOMAIN m
      BY <1>1, <2>4
    <3> QED
      BY <2>6, <2>7, <3>1 DEF StampSet
  <2> QED
    BY <2>5, <2>6, <2>8 DEF Last
<1> QED
  BY <1>2, <1>3

-------------------------------------------------------------------------------
LEMMA KeptTwice ==
  ASSUME NEW R \in SUBSET Nat, NEW a \in Nat, NEW b \in Nat, a <= b
  PROVE  KeptFrom(b, KeptFrom(a, R)) = KeptFrom(b, R)
<1>1. ASSUME NEW s \in KeptFrom(b, KeptFrom(a, R)), NEW r \in R, s < r PROVE b < r
  <2>1. s \in Nat /\ r \in Nat /\ s \in R /\ a < r
    BY <1>1 DEF KeptFrom
  <2>2. r \in KeptFrom(a, R)
    <3> SUFFICES ASSUME NEW q \in R, r < q PROVE a < q
      BY DEF KeptFrom
    <3> QED
      BY <2>1
  <2> QED
    BY <1>1, <2>2 DEF KeptFrom
<1>2. ASSUME NEW s \in KeptFrom(b, R) PROVE s \in KeptFrom(a, R)
  BY DEF KeptFrom
<1> QED
  BY <1>1, <1>2 DEF KeptFrom

\* The interval up to b of what is kept from a on is the span of all the samples.
LEMMA SpanOfKept ==
  ASSUME NEW R \in SUBSET Nat, NEW a \in Nat, NEW b \in Nat, a <= b,
         NEW K, K = KeptFrom(a, R)
  PROVE  {x \in K : \A y \in K : y < x => y < b} = SpanOf(a, b, R)
<1>1. ASSUME NEW x \in K, \A y \in K : y < x => y < b, NEW r \in R, r < x PROVE r < b
  <2>1. CASE r \in K
    BY <1>1, <2>1
  <2>2. CASE r \notin K
    <3>1. PICK q \in R : r < q /\ ~(a < q)
      BY <2>2 DEF KeptFrom
    <3> QED
      BY <3>1
  <2> QED
    BY <2>1, <2>2
<1>2. ASSUME NEW x \in SpanOf(a, b, R) PROVE x \in K /\ \A y \in K : y < x => y < b
  BY DEF SpanOf, KeptFrom
<1>3. \A x \in K : x \in R /\ \A r \in R : x < r => a < r
  BY DEF KeptFrom
<1> QED
  BY <1>1, <1>2, <1>3 DEF SpanOf

\* A sample that arrives once the frame is covered is kept, and changes nothing else.
LEMMA KeptGrows ==
  ASSUME NEW R \in SUBSET Nat, NEW a \in Nat, NEW t \in Nat,
         \E s \in R : s >= a, \A s \in R : s <= t
  PROVE  KeptFrom(a, R \cup {t}) = KeptFrom(a, R) \cup {t}
<1>1. PICK q \in R : q >= a
  OBVIOUS
<1>2. ASSUME NEW s \in KeptFrom(a, R), s < t PROVE a < t
  <2>1. CASE s < q
    BY <1>1, <2>1 DEF KeptFrom
  <2>2. CASE ~(s < q)
    BY <1>1, <1>2, <2>2 DEF KeptFrom
  <2> QED
    BY <2>1, <2>2
<1>3. \A r \in R \cup {t} : ~(t < r)
  OBVIOUS
<1> QED
  BY <1>2, <1>3 DEF KeptFrom

LEMMA SpanStays ==
  ASSUME NEW R \in SUBSET Nat, NEW a \in Nat, NEW b \in Nat, a <= b, NEW t \in Nat,
         \E s \in R : s >= b, \A s \in R : s <= t
  PROVE  SpanOf(a, b, R \cup {t}) = SpanOf(a, b, R)
<1>1. PICK q \in R : q >= b
  OBVIOUS
<1>2. ASSUME NEW s \in SpanOf(a, b, R), s < t PROVE a < t
  <2>1. CASE s < q
    BY <1>1, <2>1 DEF SpanOf
  <2>2. CASE ~(s < q)
    BY <1>1, <1>2, <2>2 DEF SpanOf
  <2> QED
    BY <2>1, <2>2
<1>3. ASSUME t \in SpanOf(a, b, R \cup {t}) PROVE t \in R
  <2>1. ~(q < t)
    BY <1>1, <1>3 DEF SpanOf
  <2> QED
    BY <1>1, <2>1
<1>4. ASSUME NEW s \in SpanOf(a, b, R) PROVE s \in SpanOf(a, b, R \cup {t})
  <2>1. s \in R /\ \A r \in R : (s < r => a < r) /\ (r < s => r < b)
    BY DEF SpanOf
  <2>2. ~(t < s)
    BY <2>1
  <2> QED
    BY <1>2, <2>1, <2>2 DEF SpanOf
<1>5. ASSUME NEW s \in SpanOf(a, b, R \cup {t}) PROVE s \in SpanOf(a, b, R)
  <2>1. s \in R
    BY <1>3 DEF SpanOf
  <2> QED
    BY <2>1 DEF SpanOf
<1> QED
  BY <1>4, <1>5

\* Two spans that meet at b share what brackets it: the second one adds what is later
\* than l, a sample of the first one at or past b.
LEMMA SpansJoin ==
  ASSUME NEW R \in SUBSET Nat, NEW a \in Nat, NEW b \in Nat, NEW c \in Nat, a <= b, b <= c,
         NEW l \in SpanOf(a, b, R), l >= b
  PROVE  SpanOf(a, b, R) \cup {s \in SpanOf(b, c, R) : s > l} = SpanOf(a, c, R)
<1>1. l \in Nat /\ \A r \in R : r < l => r < b
  BY DEF SpanOf
<1>2. ASSUME NEW s \in SpanOf(a, b, R) PROVE s \in SpanOf(a, c, R)
  <2>1. s \in R /\ \A r \in R : (s < r => a < r) /\ (r < s => r < b)
    BY DEF SpanOf
  <2>2. \A r \in R : r < b => r < c
    OBVIOUS
  <2> QED
    BY <2>1, <2>2 DEF SpanOf
<1>3. ASSUME NEW s \in SpanOf(b, c, R) PROVE s \in SpanOf(a, c, R)
  <2>1. s \in R /\ \A r \in R : (s < r => b < r) /\ (r < s => r < c)
    BY DEF SpanOf
  <2>2. \A r \in R : b < r => a < r
    OBVIOUS
  <2> QED
    BY <2>1, <2>2 DEF SpanOf
<1>4. ASSUME NEW s \in SpanOf(a, c, R)
      PROVE  s \in SpanOf(a, b, R) \/ (s \in SpanOf(b, c, R) /\ s > l)
  <2>1. s \in R /\ s \in Nat /\ \A r \in R : (s < r => a < r) /\ (r < s => r < c)
    BY DEF SpanOf
  <2>2. CASE s <= l
    <3>1. \A r \in R : r < s => r < b
      BY <1>1, <2>1, <2>2
    <3> QED
      BY <2>1, <3>1 DEF SpanOf
  <2>3. CASE s > l
    <3>1. \A r \in R : s < r => b < r
      BY <1>1, <2>1, <2>3
    <3> QED
      BY <2>1, <2>3, <3>1 DEF SpanOf
  <2> QED
    BY <1>1, <2>1, <2>2, <2>3
<1> QED
  BY <1>2, <1>3, <1>4

-------------------------------------------------------------------------------
\* What a group promises the estimator, given the stamp `from` of the frame before.
Complete(g, from, R) ==
  /\ \E s \in R : s >= g.frame.t
  /\ from = <<>> => g.imu = <<>>
  /\ from # <<>> => /\ from[1] <= g.frame.t
                    /\ g.imu # <<>> /\ Rising(g.imu) /\ Last(g.imu).t >= g.frame.t
                    /\ StampSet(g.imu) = SpanOf(from[1], g.frame.t, R)

LEMMA GroupType ==
  ASSUME NEW g \in Group
  PROVE  g.frame \in Message /\ g.imu \in Seq(Message) /\ g.frame.t \in Nat /\ g.frame.t \in Stamps
  BY SyncAssumption DEF Group, Message

LEMMA Joined ==
  ASSUME NEW S, NEW a \in Seq(S), NEW b \in Seq(S), NEW c, c = a \o b
  PROVE  /\ c \in Seq(S) /\ Len(c) = Len(a) + Len(b) /\ DOMAIN c = 1 .. Len(a) + Len(b)
         /\ Len(a) \in Nat /\ Len(b) \in Nat
         /\ \A i \in DOMAIN c : \/ i \in DOMAIN a /\ c[i] = a[i]
                                \/ /\ i - Len(a) \in DOMAIN b
                                   /\ c[i] = b[i - Len(a)]
                                   /\ i > Len(a)
         /\ \A i \in DOMAIN a : i \in DOMAIN c /\ c[i] = a[i]
         /\ \A i \in DOMAIN b : i + Len(a) \in DOMAIN c /\ c[i + Len(a)] = b[i]
<1>1. /\ c \in Seq(S) /\ Len(c) = Len(a) + Len(b)
      /\ \A i \in 1 .. Len(a) + Len(b) : c[i] = IF i <= Len(a) THEN a[i] ELSE b[i - Len(a)]
  BY ConcatProperties
<1>2. /\ DOMAIN a = 1 .. Len(a) /\ DOMAIN b = 1 .. Len(b) /\ DOMAIN c = 1 .. Len(c)
      /\ Len(a) \in Nat /\ Len(b) \in Nat
  OBVIOUS
<1>3. \A i \in DOMAIN c : \/ i \in DOMAIN a /\ c[i] = a[i]
                          \/ /\ i - Len(a) \in DOMAIN b
                             /\ c[i] = b[i - Len(a)]
                             /\ i > Len(a)
  BY <1>1, <1>2
<1>4. \A i \in DOMAIN a : i \in DOMAIN c /\ c[i] = a[i]
  BY <1>1, <1>2
<1>5. \A i \in DOMAIN b : i + Len(a) \in DOMAIN c /\ c[i + Len(a)] = b[i]
  BY <1>1, <1>2
<1> QED
  BY <1>1, <1>2, <1>3, <1>4, <1>5

LEMMA LastStamp ==
  ASSUME NEW m \in Seq(Message), m # <<>>
  PROVE  Last(m).t \in StampSet(m) /\ Last(m).t \in Nat /\ Last(m) = m[Len(m)]
  /\ Len(m) \in DOMAIN m
<1>1. Len(m) \in DOMAIN m
  OBVIOUS
<1> QED
  BY <1>1, StampsAreNatural DEF Last, StampSet

LEMMA CompleteGrows ==
  ASSUME NEW R \in SUBSET Nat, NEW t \in Nat, \A s \in R : s <= t,
         NEW g \in Group, NEW from \in AtMostOne(Nat), Complete(g, from, R)
  PROVE  Complete(g, from, R \cup {t})
<1>1. \E s \in R \cup {t} : s >= g.frame.t
  BY DEF Complete
<1>2. ASSUME from # <<>>
      PROVE  SpanOf(from[1], g.frame.t, R \cup {t}) = SpanOf(from[1], g.frame.t, R)
  <2>1. from[1] \in Nat /\ g.frame.t \in Nat
    BY <1>2, GroupType DEF AtMostOne
  <2> QED
    BY <1>2, <2>1, SpanStays DEF Complete
<1> QED
  BY <1>1, <1>2 DEF Complete

\* The group next() hands out, when the buffer is what is kept from the last frame on.
LEMMA NextIsComplete ==
  ASSUME NEW R \in SUBSET Nat, NEW m \in Seq(Message), Rising(m), NEW frames \in Seq(Message),
         Releasable(m, frames), NEW from \in AtMostOne(Nat), NEW prev \in BOOLEAN,
         prev <=> from # <<>>,
         StampSet(m) = IF prev THEN KeptFrom(from[1], R) ELSE R,
         from # <<>> => from[1] <= frames[1].t
  PROVE  /\ Complete(NextGroup(m, frames, prev), from, R)
         /\ StampSet(Trim(m, frames[1].t)) = KeptFrom(frames[1].t, R)
         /\ Rising(Trim(m, frames[1].t))
<1> DEFINE t == frames[1].t
           g == NextGroup(m, frames, prev)
<1>1. /\ m # <<>> /\ frames # <<>> /\ Last(m).t >= t /\ Head(frames) = frames[1]
      /\ 1 \in DOMAIN frames
  BY DEF Releasable
<1>2. t \in Nat
  BY <1>1, StampsAreNatural
<1>3. g.frame = frames[1] /\ g.imu = IF prev THEN Interval(m, t) ELSE <<>>
  BY <1>1 DEF NextGroup
<1> HIDE DEF t, g
<1>4. Last(m).t \in R
  BY <1>1, LastStamp DEF KeptFrom
<1>5. g.frame.t = t /\ \E s \in R : s >= g.frame.t
  BY <1>1, <1>3, <1>4 DEF t
<1>6. CASE ~prev
  <2>1. StampSet(Trim(m, t)) = KeptFrom(t, R) /\ Rising(Trim(m, t))
    BY <1>1, <1>2, <1>6, TrimStamps
  <2>2. Complete(g, from, R)
    BY <1>3, <1>5, <1>6 DEF Complete
  <2> QED
    BY <2>1, <2>2 DEF t, g
<1>7. CASE prev
  <2>1. from[1] \in Nat /\ from # <<>> /\ from[1] <= t /\ StampSet(m) = KeptFrom(from[1], R)
    BY <1>7 DEF AtMostOne, t
  <2>2. StampSet(Trim(m, t)) = KeptFrom(t, StampSet(m)) /\ Rising(Trim(m, t))
    BY <1>1, <1>2, TrimStamps
  <2>3. KeptFrom(t, StampSet(m)) = KeptFrom(t, R)
    BY <1>2, <2>1, KeptTwice
  <2>4. /\ g.imu # <<>> /\ Rising(g.imu) /\ Last(g.imu).t >= t
        /\ StampSet(g.imu) = {x \in StampSet(m) : \A y \in StampSet(m) : y < x => y < t}
    BY <1>1, <1>2, <1>3, <1>7, IntervalStamps
  <2>5. StampSet(g.imu) = SpanOf(from[1], t, R)
    BY <1>2, <2>1, <2>4, SpanOfKept
  <2>6. Complete(g, from, R)
    BY <1>5, <2>1, <2>4, <2>5 DEF Complete
  <2> QED
    BY <2>2, <2>3, <2>6 DEF t, g
<1> QED
  BY <1>6, <1>7

\* The samples of a dropped group and of the one after it make one interval.
LEMMA SpliceIsComplete ==
  ASSUME NEW R \in SUBSET Nat, NEW d \in Group, NEW n \in Group, NEW from \in AtMostOne(Nat),
         Complete(d, from, R), Complete(n, <<d.frame.t>>, R)
  PROVE  /\ Splice(d, n).frame = n.frame
         /\ Complete(Splice(d, n), IF from = <<>> THEN <<d.frame.t>> ELSE from, R)
<1>1. /\ d.imu \in Seq(Message) /\ n.imu \in Seq(Message)
      /\ d.frame.t \in Nat /\ n.frame.t \in Nat
  BY GroupType
<1>2. /\ d.frame.t <= n.frame.t /\ n.imu # <<>> /\ Rising(n.imu) /\ Last(n.imu).t >= n.frame.t
      /\ StampSet(n.imu) = SpanOf(d.frame.t, n.frame.t, R)
      /\ \E s \in R : s >= n.frame.t
  BY DEF Complete
<1>3. CASE from = <<>>
  BY <1>3 DEF Complete, Splice
<1>4. CASE from # <<>>
  <2> DEFINE l == Last(d.imu).t
             more == After(n.imu, l)
             all == d.imu \o more
  <2>1. /\ from[1] \in Nat /\ from[1] <= d.frame.t /\ d.imu # <<>> /\ Rising(d.imu)
        /\ l >= d.frame.t /\ StampSet(d.imu) = SpanOf(from[1], d.frame.t, R)
    BY <1>4 DEF Complete, AtMostOne
  <2>2. Splice(d, n).frame = n.frame /\ Splice(d, n).imu = all
    BY <2>1 DEF Splice, Group
  <2>3. l \in StampSet(d.imu) /\ l \in Nat /\ Last(d.imu) = d.imu[Len(d.imu)]
    BY <1>1, <2>1, LastStamp
  <2>4. /\ more \in Seq(Message) /\ Rising(more)
        /\ StampSet(more) = {x \in StampSet(n.imu) : x > l}
        /\ more # <<>> => Last(more) = Last(n.imu)
        /\ more = <<>> => \A x \in StampSet(n.imu) : x <= l
    BY <1>1, <1>2, <2>3, AfterStamps
  <2>5. Last(n.imu).t \in StampSet(n.imu) /\ Last(n.imu).t \in Nat
    BY <1>1, <1>2, LastStamp
  <2>6. StampSet(d.imu) \cup StampSet(more) = SpanOf(from[1], n.frame.t, R)
    <3> HIDE DEF l, more
    <3>1. l \in SpanOf(from[1], d.frame.t, R)
      BY <2>1, <2>3
    <3>2. StampSet(more) = {x \in SpanOf(d.frame.t, n.frame.t, R) : x > l}
      BY <1>2, <2>4
    <3>3. SpanOf(from[1], d.frame.t, R) \cup {x \in SpanOf(d.frame.t, n.frame.t, R) : x > l}
            = SpanOf(from[1], n.frame.t, R)
      <4>1. \A a, b, c \in Nat : a <= b /\ b <= c =>
              \A q \in SpanOf(a, b, R) : q >= b =>
                SpanOf(a, b, R) \cup {x \in SpanOf(b, c, R) : x > q} = SpanOf(a, c, R)
        BY SpansJoin
      <4> QED
        BY <1>1, <1>2, <2>1, <3>1, <4>1
    <3> QED
      BY <2>1, <3>2, <3>3
  <2>l. /\ \A i \in DOMAIN d.imu : d.imu[i].t \in Nat /\ d.imu[i].t <= l
        /\ DOMAIN d.imu = 1 .. Len(d.imu) /\ Len(d.imu) \in Nat /\ Len(d.imu) >= 1
        /\ \A i \in DOMAIN more : more[i].t \in Nat /\ more[i].t > l
        /\ DOMAIN more = 1 .. Len(more) /\ Len(more) \in Nat
    <3>1. /\ \A i \in DOMAIN d.imu : d.imu[i].t \in Nat
          /\ DOMAIN d.imu = 1 .. Len(d.imu) /\ Len(d.imu) \in Nat /\ Len(d.imu) >= 1
      BY <1>1, <2>1, StampsAreNatural
    <3>2. \A i \in DOMAIN d.imu : d.imu[i].t <= l
      BY <2>1, <2>3, <3>1 DEF Rising
    <3>3. /\ \A i \in DOMAIN more : more[i].t \in Nat
          /\ DOMAIN more = 1 .. Len(more) /\ Len(more) \in Nat
      BY <2>4, StampsAreNatural
    <3>4. \A i \in DOMAIN more : more[i].t > l
      BY <2>4 DEF StampSet
    <3> QED
      BY <3>1, <3>2, <3>3, <3>4
  <2> HIDE DEF l, more
  <2>7. /\ all \in Seq(Message) /\ Len(all) = Len(d.imu) + Len(more)
        /\ DOMAIN all = 1 .. Len(d.imu) + Len(more)
        /\ \A i \in DOMAIN all : \/ i \in DOMAIN d.imu /\ all[i] = d.imu[i]
                                 \/ /\ i - Len(d.imu) \in DOMAIN more
                                    /\ all[i] = more[i - Len(d.imu)]
                                    /\ i > Len(d.imu)
        /\ \A i \in DOMAIN d.imu : i \in DOMAIN all /\ all[i] = d.imu[i]
        /\ \A i \in DOMAIN more : i + Len(d.imu) \in DOMAIN all /\ all[i + Len(d.imu)] = more[i]
    BY <1>1, <2>4, Joined
  <2>8. all # <<>>
    BY <2>7, <2>l
  <2> HIDE DEF all
  <2>9. Rising(all)
    <3> SUFFICES ASSUME NEW i \in DOMAIN all, NEW j \in DOMAIN all, i < j PROVE all[i].t <= all[j].t
      BY DEF Rising
    <3>1. i \in Nat /\ j \in Nat
      BY <2>7, <2>l
    <3>2. CASE j \in DOMAIN d.imu
      <4>1. i \in DOMAIN d.imu
        BY <2>l, <3>1, <3>2
      <4> QED
        BY <2>1, <2>7, <3>2, <4>1 DEF Rising
    <3>3. CASE j \notin DOMAIN d.imu
      <4>1. j - Len(d.imu) \in DOMAIN more /\ all[j] = more[j - Len(d.imu)]
        BY <2>7, <3>3
      <4>2. CASE i \in DOMAIN d.imu
        <5>1. all[i].t \in Nat /\ all[i].t <= l /\ all[j].t \in Nat /\ all[j].t > l
          BY <2>7, <2>l, <4>1, <4>2
        <5> QED
          BY <2>3, <5>1
      <4>3. CASE i \notin DOMAIN d.imu
        <5>1. i - Len(d.imu) \in DOMAIN more /\ all[i] = more[i - Len(d.imu)]
          BY <2>7, <4>3
        <5>2. i - Len(d.imu) < j - Len(d.imu)
          BY <2>l, <3>1
        <5> QED
          BY <2>4, <4>1, <5>1, <5>2 DEF Rising
      <4> QED
        BY <4>2, <4>3
    <3> QED
      BY <3>2, <3>3
  <2>10. StampSet(all) = StampSet(d.imu) \cup StampSet(more)
    <3>1. ASSUME NEW x \in StampSet(all) PROVE x \in StampSet(d.imu) \cup StampSet(more)
      <4>1. PICK i \in DOMAIN all : x = all[i].t
        BY DEF StampSet
      <4> QED
        BY <2>7, <4>1 DEF StampSet
    <3>2. ASSUME NEW x \in StampSet(d.imu) PROVE x \in StampSet(all)
      <4>1. PICK i \in DOMAIN d.imu : x = d.imu[i].t
        BY DEF StampSet
      <4> QED
        BY <2>7, <4>1 DEF StampSet
    <3>3. ASSUME NEW x \in StampSet(more) PROVE x \in StampSet(all)
      <4>1. PICK i \in DOMAIN more : x = more[i].t
        BY DEF StampSet
      <4> QED
        BY <2>7, <4>1 DEF StampSet
    <3> QED
      BY <3>1, <3>2, <3>3
  <2>11. Last(all).t >= n.frame.t
    <3>1. CASE more = <<>>
      <4>1. Last(all) = Last(d.imu)
        BY <2>7, <2>l, <3>1, <2>3 DEF Last
      <4>2. l >= Last(n.imu).t
        BY <2>3, <2>4, <2>5, <3>1
      <4> QED
        BY <1>1, <1>2, <2>3, <2>5, <4>1, <4>2 DEF l
    <3>2. CASE more # <<>>
      <4>1. Len(more) \in DOMAIN more
        BY <2>4, <3>2
      <4>2. Last(all) = Last(more)
        BY <2>7, <2>l, <4>1 DEF Last
      <4> QED
        BY <1>2, <2>4, <3>2, <4>2
    <3> QED
      BY <3>1, <3>2
  <2>12. StampSet(Splice(d, n).imu) = SpanOf(from[1], n.frame.t, R) /\ from[1] <= n.frame.t
    BY <1>1, <1>2, <2>1, <2>2, <2>6, <2>10
  <2> QED
    BY <1>2, <1>4, <2>2, <2>8, <2>9, <2>11, <2>12 DEF Complete
<1> QED
  BY <1>3, <1>4

-------------------------------------------------------------------------------
\* The groups between the synchroniser and the worker, oldest first.
InRelease(queue, held) == queue \o held["imu"] \o held["image"]

\* The frames the worker has yet to see, given those groups and the frames not released.
Line(groups, frames) == FramesOf(groups) \o frames

LEMMA SameSequence ==
  ASSUME NEW S, NEW a \in Seq(S), NEW b \in Seq(S), Len(a) = Len(b),
         \A i \in 1 .. Len(a) : a[i] = b[i]
  PROVE  a = b
  BY SeqEqual

LEMMA FramesOfGroups ==
  ASSUME NEW s \in Seq(Group)
  PROVE  /\ FramesOf(s) \in Seq(Message) /\ Len(FramesOf(s)) = Len(s) /\ Len(s) \in Nat
         /\ DOMAIN s = 1 .. Len(s)
         /\ \A i \in 1 .. Len(s) : FramesOf(s)[i] = s[i].frame /\ s[i] \in Group
<1>1. Len(s) \in Nat /\ DOMAIN s = 1 .. Len(s) /\ \A i \in 1 .. Len(s) : s[i] \in Group
  OBVIOUS
<1>2. \A i \in 1 .. Len(s) : s[i].frame \in Message
  BY <1>1, GroupType
<1>3. FramesOf(s) = [i \in 1 .. Len(s) |-> s[i].frame]
  BY <1>1 DEF FramesOf, FrameOf
<1>4. FramesOf(s) \in Seq(Message) /\ Len(FramesOf(s)) = Len(s)
  BY <1>1, <1>2, <1>3, IsASeq
<1> QED
  BY <1>1, <1>3, <1>4

LEMMA JoinedAt ==
  ASSUME NEW S, NEW a \in Seq(S), NEW b \in Seq(S), NEW c, c = a \o b
  PROVE  /\ c \in Seq(S) /\ Len(c) = Len(a) + Len(b) /\ Len(a) \in Nat /\ Len(b) \in Nat
         /\ \A i \in 1 .. Len(a) : c[i] = a[i]
         /\ \A i \in 1 .. Len(b) : c[Len(a) + i] = b[i]
<1>1. /\ c \in Seq(S) /\ Len(c) = Len(a) + Len(b) /\ Len(a) \in Nat /\ Len(b) \in Nat
      /\ \A i \in DOMAIN a : c[i] = a[i]
      /\ \A i \in DOMAIN b : c[i + Len(a)] = b[i]
  BY Joined
<1>2. DOMAIN a = 1 .. Len(a) /\ DOMAIN b = 1 .. Len(b)
  OBVIOUS
<1>3. \A i \in 1 .. Len(b) : i + Len(a) = Len(a) + i
  BY <1>1
<1> QED
  BY <1>1, <1>2, <1>3

LEMMA AppendedAt ==
  ASSUME NEW S, NEW a \in Seq(S), NEW e \in S, NEW c, c = Append(a, e)
  PROVE  /\ c \in Seq(S) /\ Len(c) = Len(a) + 1 /\ Len(a) \in Nat
         /\ \A i \in 1 .. Len(a) : c[i] = a[i]
         /\ c[Len(a) + 1] = e
  BY AppendProperties

LEMMA FramesOfConcat ==
  ASSUME NEW a \in Seq(Group), NEW b \in Seq(Group)
  PROVE  FramesOf(a \o b) = FramesOf(a) \o FramesOf(b)
<1> DEFINE c  == a \o b
           fa == FramesOf(a)
           fb == FramesOf(b)
           fc == FramesOf(c)
           f  == fa \o fb
<1>1. /\ c \in Seq(Group) /\ Len(c) = Len(a) + Len(b) /\ Len(a) \in Nat /\ Len(b) \in Nat
      /\ \A i \in 1 .. Len(a) : c[i] = a[i]
      /\ \A i \in 1 .. Len(b) : c[Len(a) + i] = b[i]
  BY JoinedAt
<1>2. /\ fa \in Seq(Message) /\ Len(fa) = Len(a)
      /\ \A i \in 1 .. Len(a) : fa[i] = a[i].frame
  BY FramesOfGroups
<1>3. /\ fb \in Seq(Message) /\ Len(fb) = Len(b)
      /\ \A i \in 1 .. Len(b) : fb[i] = b[i].frame
  BY FramesOfGroups
<1>3a. fa \in Seq(Message) /\ fb \in Seq(Message)
  BY <1>2, <1>3
<1> HIDE DEF c, fa, fb
<1>4. /\ f \in Seq(Message) /\ Len(f) = Len(fa) + Len(fb)
      /\ \A i \in 1 .. Len(fa) : f[i] = fa[i]
      /\ \A i \in 1 .. Len(fb) : f[Len(fa) + i] = fb[i]
  BY <1>3a, JoinedAt
<1>5. /\ fc \in Seq(Message) /\ Len(fc) = Len(c)
      /\ \A i \in 1 .. Len(c) : fc[i] = c[i].frame
  BY <1>1, FramesOfGroups
<1> HIDE DEF f, fc
<1>6. ASSUME NEW i \in 1 .. Len(fc) PROVE fc[i] = f[i]
  <2>1. CASE i <= Len(a)
    BY <1>1, <1>2, <1>4, <1>5, <2>1
  <2>2. CASE i > Len(a)
    <3>1. i - Len(a) \in 1 .. Len(b) /\ Len(a) + (i - Len(a)) = i
      BY <1>1, <1>5, <2>2
    <3>2. fc[i] = c[i].frame /\ c[i] = b[i - Len(a)]
      BY <1>1, <1>5, <3>1
    <3>3. f[i] = fb[i - Len(a)]
      BY <1>2, <1>3, <1>4, <3>1
    <3> QED
      BY <1>3, <3>1, <3>2, <3>3
  <2> QED
    BY <1>1, <1>5, <2>1, <2>2
<1>7. fc = f
  BY <1>1, <1>2, <1>3, <1>4, <1>5, <1>6, SameSequence
<1> QED
  BY <1>7 DEF c, f, fa, fb, fc

LEMMA InReleaseIs ==
  ASSUME NEW q \in Seq(Group), NEW h \in [Producers -> AtMostOne(Group)]
  PROVE  /\ InRelease(q, h) \in Seq(Group)
         /\ h["image"] = <<>> => InRelease(q, h) = q \o h["imu"]
         /\ h["imu"] = <<>> => InRelease(q, h) = q \o h["image"]
         /\ h["imu"] = <<>> /\ h["image"] = <<>> => InRelease(q, h) = q
<1>1. h["imu"] \in Seq(Group) /\ h["image"] \in Seq(Group)
  BY DEF Producers, AtMostOne
<1>2. q \o h["imu"] \in Seq(Group)
  BY <1>1, ConcatProperties
<1>3. (q \o h["imu"]) \o h["image"] \in Seq(Group)
  BY <1>1, <1>2, ConcatProperties
<1>4. \A s \in Seq(Group) : s \o <<>> = s
  BY ConcatEmptySeq
<1> QED
  BY <1>1, <1>2, <1>3, <1>4 DEF InRelease

\* The backlog is the frames of what is released and then those that are not.
LEMMA LineIs ==
  ASSUME NEW q \in Seq(Group), NEW h \in [Producers -> AtMostOne(Group)], NEW fr \in Seq(Message)
  PROVE  FramesOf(q) \o FramesOf(h["imu"]) \o FramesOf(h["image"]) \o fr = Line(InRelease(q, h), fr)
<1>1. h["imu"] \in Seq(Group) /\ h["image"] \in Seq(Group)
  BY DEF Producers, AtMostOne
<1>2. q \o h["imu"] \in Seq(Group)
  BY <1>1, ConcatProperties
<1>3. FramesOf(q \o h["imu"]) = FramesOf(q) \o FramesOf(h["imu"])
  BY <1>1, FramesOfConcat
<1>4. FramesOf((q \o h["imu"]) \o h["image"]) = FramesOf(q \o h["imu"]) \o FramesOf(h["image"])
  BY <1>1, <1>2, FramesOfConcat
<1> QED
  BY <1>3, <1>4, Zenon DEF Line, InRelease

LEMMA LineElements ==
  ASSUME NEW rel \in Seq(Group), NEW fr \in Seq(Message)
  PROVE  /\ Line(rel, fr) \in Seq(Message) /\ Len(Line(rel, fr)) = Len(rel) + Len(fr)
         /\ Len(rel) \in Nat /\ Len(fr) \in Nat
         /\ \A i \in 1 .. Len(rel) : Line(rel, fr)[i] = rel[i].frame
         /\ \A i \in 1 .. Len(fr) : Line(rel, fr)[Len(rel) + i] = fr[i]
<1> DEFINE f == FramesOf(rel)
           l == Line(rel, fr)
<1>1. /\ f \in Seq(Message) /\ Len(f) = Len(rel) /\ Len(rel) \in Nat
      /\ \A i \in 1 .. Len(rel) : f[i] = rel[i].frame
  BY FramesOfGroups
<1>2. l = f \o fr
  BY DEF Line
<1>2a. f \in Seq(Message)
  BY <1>1
<1> HIDE DEF f, l
<1>3. /\ l \in Seq(Message) /\ Len(l) = Len(f) + Len(fr) /\ Len(fr) \in Nat
      /\ \A i \in 1 .. Len(f) : l[i] = f[i]
      /\ \A i \in 1 .. Len(fr) : l[Len(f) + i] = fr[i]
  BY <1>2, <1>2a, JoinedAt
<1>4. \A i \in 1 .. Len(rel) : l[i] = rel[i].frame
  BY <1>1, <1>3
<1>5. /\ l \in Seq(Message) /\ Len(l) = Len(rel) + Len(fr)
      /\ \A i \in 1 .. Len(fr) : l[Len(rel) + i] = fr[i]
  BY <1>1, <1>3
<1> QED
  BY <1>1, <1>3, <1>4, <1>5 DEF l

LEMMA EmptyLine == Line(<<>>, <<>>) = <<>>
<1>1. <<>> \in Seq(Group) /\ <<>> \in Seq(Message) /\ Len(<<>>) = 0
  OBVIOUS
<1>2. Line(<<>>, <<>>) \in Seq(Message) /\ Len(Line(<<>>, <<>>)) = Len(<<>>) + Len(<<>>)
  BY <1>1, LineElements
<1> QED
  BY <1>1, <1>2

\* Two lines with the same frames at the same places are the same.
LEMMA SameLine ==
  ASSUME NEW rel \in Seq(Group), NEW fr \in Seq(Message), NEW b \in Seq(Message),
         Len(b) = Len(rel) + Len(fr),
         \A i \in 1 .. Len(rel) : b[i] = rel[i].frame,
         \A i \in 1 .. Len(fr) : b[Len(rel) + i] = fr[i]
  PROVE  Line(rel, fr) = b
<1> DEFINE l == Line(rel, fr)
<1>1. /\ l \in Seq(Message) /\ Len(l) = Len(rel) + Len(fr)
      /\ Len(rel) \in Nat /\ Len(fr) \in Nat
      /\ \A i \in 1 .. Len(rel) : l[i] = rel[i].frame
      /\ \A i \in 1 .. Len(fr) : l[Len(rel) + i] = fr[i]
  BY LineElements
<1> HIDE DEF l
<1>2. ASSUME NEW i \in 1 .. Len(l) PROVE l[i] = b[i]
  <2>1. CASE i <= Len(rel)
    BY <1>1, <2>1
  <2>2. CASE i > Len(rel)
    <3>1. i - Len(rel) \in 1 .. Len(fr) /\ Len(rel) + (i - Len(rel)) = i
      BY <1>1, <2>2
    <3> QED
      BY <1>1, <3>1
  <2> QED
    BY <1>1, <2>1, <2>2
<1>3. l = b
  BY <1>1, <1>2, SameSequence
<1> QED
  BY <1>3 DEF l

LEMMA LineAppended ==
  ASSUME NEW rel \in Seq(Group), NEW fr \in Seq(Message), NEW m \in Message
  PROVE  Line(rel, Append(fr, m)) = Append(Line(rel, fr), m)
<1> DEFINE l == Line(rel, fr)
           b == Append(l, m)
           more == Append(fr, m)
<1>1. /\ l \in Seq(Message) /\ Len(l) = Len(rel) + Len(fr)
      /\ Len(rel) \in Nat /\ Len(fr) \in Nat
      /\ \A i \in 1 .. Len(rel) : l[i] = rel[i].frame
      /\ \A i \in 1 .. Len(fr) : l[Len(rel) + i] = fr[i]
  BY LineElements
<1>1a. l \in Seq(Message)
  BY <1>1
<1> HIDE DEF l
<1>2. /\ b \in Seq(Message) /\ Len(b) = Len(l) + 1
      /\ \A i \in 1 .. Len(l) : b[i] = l[i]
      /\ b[Len(l) + 1] = m
  BY <1>1a, AppendedAt
<1>2a. /\ more \in Seq(Message) /\ Len(more) = Len(fr) + 1
       /\ \A i \in 1 .. Len(fr) : more[i] = fr[i]
       /\ more[Len(fr) + 1] = m
  BY AppendedAt
<1> HIDE DEF b, more
<1>3. \A i \in 1 .. Len(rel) : b[i] = rel[i].frame
  BY <1>1, <1>2
<1>4. ASSUME NEW i \in 1 .. Len(more) PROVE b[Len(rel) + i] = more[i]
  <2>1. CASE i <= Len(fr)
    BY <1>1, <1>2, <1>2a, <2>1
  <2>2. CASE i = Len(fr) + 1
    BY <1>1, <1>2, <1>2a, <2>2
  <2> QED
    BY <1>1, <1>2a, <2>1, <2>2
<1>5. Len(b) = Len(rel) + Len(more)
  BY <1>1, <1>2, <1>2a
<1>6. Line(rel, more) = b
  BY <1>2, <1>2a, <1>3, <1>4, <1>5, SameLine
<1> QED
  BY <1>6 DEF b, l, more

LEMMA LineMoved ==
  ASSUME NEW rel \in Seq(Group), NEW fr \in Seq(Message), fr # <<>>,
         NEW g \in Group, g.frame = Head(fr)
  PROVE  Line(Append(rel, g), Tail(fr)) = Line(rel, fr)
<1> DEFINE l == Line(rel, fr)
           more == Append(rel, g)
           less == Tail(fr)
<1>1. /\ l \in Seq(Message) /\ Len(l) = Len(rel) + Len(fr)
      /\ Len(rel) \in Nat /\ Len(fr) \in Nat
      /\ \A i \in 1 .. Len(rel) : l[i] = rel[i].frame
      /\ \A i \in 1 .. Len(fr) : l[Len(rel) + i] = fr[i]
  BY LineElements
<1>2. /\ more \in Seq(Group) /\ Len(more) = Len(rel) + 1
      /\ \A i \in 1 .. Len(rel) : more[i] = rel[i]
      /\ more[Len(rel) + 1] = g
  BY AppendProperties
<1>3. /\ less \in Seq(Message) /\ Len(less) = Len(fr) - 1 /\ Len(fr) >= 1
      /\ \A i \in 1 .. Len(less) : less[i] = fr[i + 1]
      /\ Head(fr) = fr[1]
  BY <1>1
<1> HIDE DEF l, more, less
<1>4. ASSUME NEW i \in 1 .. Len(more) PROVE l[i] = more[i].frame
  <2>1. CASE i <= Len(rel)
    BY <1>1, <1>2, <2>1
  <2>2. CASE i = Len(rel) + 1
    <3>1. 1 \in 1 .. Len(fr)
      BY <1>1, <1>3
    <3> QED
      BY <1>1, <1>2, <1>3, <2>2, <3>1
  <2> QED
    BY <1>1, <1>2, <2>1, <2>2
<1>5. ASSUME NEW i \in 1 .. Len(less) PROVE l[Len(more) + i] = less[i]
  <2>1. i + 1 \in 1 .. Len(fr) /\ Len(more) + i = Len(rel) + (i + 1)
    BY <1>1, <1>2, <1>3
  <2> QED
    BY <1>1, <1>3, <2>1
<1>6. Len(l) = Len(more) + Len(less)
  BY <1>1, <1>2, <1>3
<1>7. Line(more, less) = l
  BY <1>1, <1>2, <1>3, <1>4, <1>5, <1>6, SameLine
<1> QED
  BY <1>7 DEF l, more, less

\* The first group leaves; only the frames of the others matter.
LEMMA LineShortened ==
  ASSUME NEW rel \in Seq(Group), rel # <<>>, NEW fr \in Seq(Message), NEW less \in Seq(Group),
         Len(less) = Len(rel) - 1, \A i \in 1 .. Len(less) : less[i].frame = rel[i + 1].frame
  PROVE  /\ Line(rel, fr) # <<>> /\ Head(Line(rel, fr)) = rel[1].frame
         /\ Line(less, fr) = Tail(Line(rel, fr))
<1> DEFINE l == Line(rel, fr)
           b == Tail(l)
<1>1. /\ l \in Seq(Message) /\ Len(l) = Len(rel) + Len(fr)
      /\ Len(rel) \in Nat /\ Len(fr) \in Nat
      /\ \A i \in 1 .. Len(rel) : l[i] = rel[i].frame
      /\ \A i \in 1 .. Len(fr) : l[Len(rel) + i] = fr[i]
  BY LineElements
<1>2. Len(rel) >= 1 /\ Len(less) \in Nat
  BY <1>1
<1> HIDE DEF l
<1>3. l # <<>> /\ Head(l) = l[1]
  BY <1>1, <1>2
<1>4. /\ b \in Seq(Message) /\ Len(b) = Len(l) - 1
      /\ \A i \in 1 .. Len(l) - 1 : b[i] = l[i + 1]
  BY <1>1, <1>3
<1> HIDE DEF b
<1>5. ASSUME NEW i \in 1 .. Len(less) PROVE b[i] = less[i].frame
  BY <1>1, <1>2, <1>4
<1>6. ASSUME NEW i \in 1 .. Len(fr) PROVE b[Len(less) + i] = fr[i]
  <2>1. /\ Len(less) + i \in 1 .. Len(l) - 1 /\ (Len(less) + i) + 1 = Len(rel) + i
    BY <1>1, <1>2
  <2> QED
    BY <1>1, <1>4, <2>1
<1>7. Len(b) = Len(less) + Len(fr)
  BY <1>1, <1>2, <1>4
<1>8. Line(less, fr) = b
  BY <1>4, <1>5, <1>6, <1>7, SameLine
<1> QED
  BY <1>1, <1>2, <1>3, <1>8 DEF b, l

LEMMA DropOldestElements ==
  ASSUME NEW q \in Seq(Group), Len(q) >= 2, NEW d, d = DropOldest(q)
  PROVE  /\ d \in Seq(Group) /\ Len(d) = Len(q) - 1 /\ Len(q) \in Nat
         /\ d[1] = Splice(q[1], q[2])
         /\ \A i \in 2 .. Len(d) : d[i] = q[i + 1]
         /\ \A i \in 1 .. Len(d) : d[i].frame = q[i + 1].frame
<1>1. d \in Seq(Group) /\ Len(d) = Len(q) - 1 /\ Len(q) \in Nat
  BY DropOldestType
<1> DEFINE s == SubSeq(q, 3, Len(q))
           o == <<Splice(q[1], q[2])>>
<1>2. /\ q[1] \in Group /\ q[2] \in Group /\ Splice(q[1], q[2]) \in Group
  <2>1. q[1] \in Group /\ q[2] \in Group
    BY <1>1
  <2>2. Group = GroupsOver(Message)
    BY DEF Group, GroupsOver
  <2> QED
    BY <2>1, <2>2, SpliceOver
<1>3. /\ s \in Seq(Group) /\ Len(s) = Len(q) - 2
      /\ \A i \in 1 .. Len(q) - 2 : s[i] = q[i + 2]
  <2>1. CASE Len(q) = 2
    <3>1. s = <<>>
      BY <2>1, SubSeqEmpty
    <3> QED
      BY <2>1, <3>1
  <2>2. CASE Len(q) >= 3
    <3>1. 3 \in 1 .. Len(q) /\ Len(q) \in 3 .. Len(q)
      BY <1>1, <2>2
    <3>2. /\ s \in Seq(Group) /\ Len(s) = Len(q) - 3 + 1
          /\ \A i \in 1 .. Len(q) - 3 + 1 : s[i] = q[3 + i - 1]
      BY <3>1, Slice
    <3> HIDE DEF s
    <3>3. Len(q) - 3 + 1 = Len(q) - 2 /\ \A i \in 1 .. Len(q) - 2 : 3 + i - 1 = i + 2
      BY <1>1
    <3> QED
      BY <3>2, <3>3
  <2> QED
    BY <1>1, <2>1, <2>2
<1>4. o \in Seq(Group) /\ Len(o) = 1 /\ o[1] = Splice(q[1], q[2])
  BY <1>2
<1>5. d = o \o s
  BY DEF DropOldest
<1>5a. o \in Seq(Group) /\ s \in Seq(Group)
  BY <1>3, <1>4
<1> HIDE DEF o, s
<1>6. /\ \A i \in 1 .. Len(o) : d[i] = o[i]
      /\ \A i \in 1 .. Len(s) : d[Len(o) + i] = s[i]
  BY <1>5, <1>5a, JoinedAt
<1>7. d[1] = Splice(q[1], q[2])
  BY <1>4, <1>6
<1>8. \A i \in 2 .. Len(d) : d[i] = q[i + 1]
  <2> SUFFICES ASSUME NEW i \in 2 .. Len(d) PROVE d[i] = q[i + 1]
    OBVIOUS
  <2>1. i - 1 \in 1 .. Len(q) - 2 /\ (i - 1) + 2 = i + 1 /\ 1 + (i - 1) = i
    BY <1>1
  <2>2. d[1 + (i - 1)] = s[i - 1]
    BY <1>3, <1>4, <1>6, <2>1
  <2> QED
    BY <1>3, <2>1, <2>2
<1>9. Splice(q[1], q[2]).frame = q[2].frame
  BY <1>2 DEF Splice, Group
<1> QED
  BY <1>1, <1>7, <1>8, <1>9

-------------------------------------------------------------------------------
(***************************************************************************)
(* The backlog rises from the last frame handed out to the last one pushed.  *)
(***************************************************************************)
Risen(line, anc, top) ==
  /\ Rising(line)
  /\ \A i \in DOMAIN line : line[i].t <= top
  /\ anc # <<>> => anc[1] <= top /\ \A i \in DOMAIN line : anc[1] <= line[i].t

LEMMA RisenAppend ==
  ASSUME NEW l \in Seq(Message), NEW anc \in AtMostOne(Nat), NEW top \in Nat,
         Risen(l, anc, top), NEW m \in Message, top <= m.t, NEW b, b = Append(l, m)
  PROVE  Risen(b, anc, m.t)
<1>1. /\ b \in Seq(Message) /\ Len(b) = Len(l) + 1 /\ Len(l) \in Nat
      /\ DOMAIN b = 1 .. Len(b) /\ DOMAIN l = 1 .. Len(l)
      /\ \A i \in 1 .. Len(l) : b[i] = l[i]
      /\ b[Len(l) + 1] = m
  BY AppendedAt
<1>2. /\ \A i \in DOMAIN l : l[i].t \in Nat
      /\ \A i \in DOMAIN b : b[i].t \in Nat
  BY <1>1, StampsAreNatural
<1>3. m.t \in Nat
  BY SyncAssumption DEF Message
<1>4. \A i \in DOMAIN b : b[i].t <= m.t
  <2> SUFFICES ASSUME NEW i \in DOMAIN b PROVE b[i].t <= m.t
    OBVIOUS
  <2>1. CASE i \in DOMAIN l
    BY <1>1, <1>2, <1>3, <2>1 DEF Risen
  <2>2. CASE i = Len(l) + 1
    BY <1>1, <1>3, <2>2
  <2> QED
    BY <1>1, <2>1, <2>2
<1>5. Rising(b)
  <2> SUFFICES ASSUME NEW i \in DOMAIN b, NEW j \in DOMAIN b, i < j PROVE b[i].t <= b[j].t
    BY DEF Rising
  <2>1. CASE j = Len(l) + 1
    BY <1>1, <1>4, <2>1
  <2>2. CASE j \in DOMAIN l
    <3>1. i \in DOMAIN l
      BY <1>1, <2>2
    <3> QED
      BY <1>1, <2>2, <3>1 DEF Risen, Rising
  <2> QED
    BY <1>1, <2>1, <2>2
<1>6. ASSUME anc # <<>>
      PROVE  anc[1] <= m.t /\ \A i \in DOMAIN b : anc[1] <= b[i].t
  <2>1. anc[1] \in Nat
    BY <1>6 DEF AtMostOne
  <2>2. anc[1] <= top /\ \A i \in DOMAIN l : anc[1] <= l[i].t
    BY <1>6 DEF Risen
  <2>3. anc[1] <= m.t
    BY <1>3, <2>1, <2>2
  <2>4. ASSUME NEW i \in DOMAIN b PROVE anc[1] <= b[i].t
    <3>1. CASE i \in DOMAIN l
      BY <1>1, <2>2, <3>1
    <3>2. CASE i = Len(l) + 1
      BY <1>1, <2>3, <3>2
    <3> QED
      BY <1>1, <3>1, <3>2
  <2> QED
    BY <2>3, <2>4
<1> QED
  BY <1>4, <1>5, <1>6 DEF Risen

LEMMA RisenTail ==
  ASSUME NEW l \in Seq(Message), l # <<>>, NEW anc, NEW top, Risen(l, anc, top),
         NEW b, b = Tail(l)
  PROVE  Risen(b, <<Head(l).t>>, top) /\ Risen(b, anc, top)
<1>1. /\ b \in Seq(Message) /\ Len(b) = Len(l) - 1 /\ Len(l) \in Nat /\ Len(l) >= 1
      /\ DOMAIN b = 1 .. Len(b) /\ DOMAIN l = 1 .. Len(l) /\ Head(l) = l[1]
      /\ \A i \in 1 .. Len(b) : b[i] = l[i + 1]
  OBVIOUS
<1>2. \A i \in DOMAIN b : i + 1 \in DOMAIN l /\ b[i] = l[i + 1] /\ 1 < i + 1 /\ 1 \in DOMAIN l
  BY <1>1
<1>3. Rising(b)
  <2> SUFFICES ASSUME NEW i \in DOMAIN b, NEW j \in DOMAIN b, i < j PROVE b[i].t <= b[j].t
    BY DEF Rising
  <2>1. i + 1 < j + 1
    BY <1>1
  <2> QED
    BY <1>2, <2>1 DEF Risen, Rising
<1>4. \A i \in DOMAIN b : b[i].t <= top
  BY <1>2 DEF Risen
<1>5. Head(l).t <= top /\ \A i \in DOMAIN b : Head(l).t <= b[i].t
  BY <1>1, <1>2 DEF Risen, Rising
<1>6. anc # <<>> => anc[1] <= top /\ \A i \in DOMAIN b : anc[1] <= b[i].t
  BY <1>2 DEF Risen
<1>7. <<Head(l).t>>[1] = Head(l).t
  OBVIOUS
<1> QED
  BY <1>3, <1>4, <1>5, <1>6, <1>7 DEF Risen

\* The groups on their way to the worker, with the mutex free or held by p.
LEMMA HeldByNobody ==
  ASSUME MutexInv, \A p \in Producers : pc[p] # "enqueue"
  PROVE  group["imu"] = <<>> /\ group["image"] = <<>> /\ InRelease(queue_, group) = queue_
<1>1. group["imu"] = <<>> /\ group["image"] = <<>>
  BY DEF MutexInv, TypeOK, Producers
<1>2. queue_ \in Seq(Group) /\ group \in [Producers -> AtMostOne(Group)]
  BY DEF MutexInv, TypeOK
<1> QED
  BY <1>1, <1>2, InReleaseIs

LEMMA FreeMutex ==
  ASSUME MutexInv, mutex_ = Free
  PROVE  \A p \in Producers : pc[p] = "idle"
  BY DEF MutexInv, MutualExclusion, Free, Producers

LEMMA OwnerAlone ==
  ASSUME MutexInv, NEW p \in Producers, pc[p] # "idle"
  PROVE  \A q \in Producers : q # p => pc[q] = "idle" /\ group[q] = <<>>
<1> SUFFICES ASSUME NEW q \in Producers, q # p PROVE pc[q] = "idle" /\ group[q] = <<>>
  OBVIOUS
<1>1. pc[q] = "idle"
  BY DEF MutexInv, MutualExclusion
<1> QED
  BY <1>1 DEF MutexInv, TypeOK

LEMMA BacklogIs ==
  ASSUME TypeOK
  PROVE  /\ Backlog = Line(InRelease(queue_, group), frames_) /\ Backlog \in Seq(Message)
         /\ InRelease(queue_, group) \in Seq(Group)
<1>1. /\ queue_ \in Seq(Group) /\ group \in [Producers -> AtMostOne(Group)]
      /\ frames_ \in Seq(Message)
  BY DEF TypeOK
<1>2. Backlog = Line(InRelease(queue_, group), frames_)
  BY <1>1, LineIs DEF Backlog
<1>3. InRelease(queue_, group) \in Seq(Group)
  BY <1>1, InReleaseIs
<1> QED
  BY <1>1, <1>2, <1>3, LineElements

LEMMA BacklogWillBe ==
  ASSUME TypeOK'
  PROVE  Backlog' = Line(InRelease(queue_', group'), frames_')
<1>1. /\ queue_' \in Seq(Group) /\ group' \in [Producers -> AtMostOne(Group)]
      /\ frames_' \in Seq(Message)
  BY DEF TypeOK
<1> QED
  BY <1>1, LineIs DEF Backlog

\* What each action does to the groups in release and to the backlog.
LEMMA PushFrameMoves ==
  ASSUME MutexInv, TypeOK', NEW t \in Stamps, PushFrame(t)
  PROVE  /\ [t |-> t, tl |-> epoch_] \in Message
         /\ InRelease(queue_, group)' = InRelease(queue_, group)
         /\ Backlog' = Append(Backlog, [t |-> t, tl |-> epoch_])
<1>1. [t |-> t, tl |-> epoch_] \in Message
  BY DEF MutexInv, TypeOK, Message
<1>2. /\ queue_' = queue_ /\ group' = group
      /\ frames_' = Append(frames_, [t |-> t, tl |-> epoch_])
  BY DEF PushFrame
<1>3. /\ Backlog = Line(InRelease(queue_, group), frames_)
      /\ InRelease(queue_, group) \in Seq(Group) /\ frames_ \in Seq(Message)
  BY BacklogIs DEF MutexInv, TypeOK
<1>4. Backlog' = Line(InRelease(queue_, group), Append(frames_, [t |-> t, tl |-> epoch_]))
  BY <1>2, BacklogWillBe
<1> QED
  BY <1>1, <1>2, <1>3, <1>4, LineAppended

LEMMA SyncNextMoves ==
  ASSUME MutexInv, TypeOK', NEW p \in Producers, SyncNext(p),
         NEW g, g = NextGroup(imu_, frames_, havePrev_)
  PROVE  /\ g \in Group /\ InRelease(queue_, group) = queue_
         /\ InRelease(queue_, group)' = Append(queue_, g)
         /\ Backlog' = Backlog
         /\ frames_ # <<>> /\ Head(frames_) = frames_[1] /\ g.frame = frames_[1]
<1>a. TypeOK
  BY DEF MutexInv
<1>b. imu_ \in Seq(Message) /\ frames_ \in Seq(Message) /\ havePrev_ \in BOOLEAN
      /\ queue_ \in Seq(Group)
  BY <1>a DEF TypeOK
<1>1. frames_ # <<>> /\ Head(frames_) = frames_[1]
  BY <1>b DEF SyncNext, Releasable
<1>2. g \in Group /\ g.frame = Head(frames_)
  BY <1>b, <1>1, NextGroupType DEF NextGroup
<1>3. \A q \in Producers : pc[q] # "enqueue"
  BY OwnerAlone DEF SyncNext
<1>4. /\ group["imu"] = <<>> /\ group["image"] = <<>> /\ InRelease(queue_, group) = queue_
  BY <1>3, HeldByNobody
<1>5. queue_' = queue_ /\ frames_' = Tail(frames_) /\ group' = [group EXCEPT ![p] = <<g>>]
  BY DEF SyncNext
<1>5a. queue_' = queue_
  BY <1>5
<1>6. queue_' \in Seq(Group) /\ group' \in [Producers -> AtMostOne(Group)]
  BY DEF TypeOK
<1>7. InRelease(queue_', group') = queue_ \o <<g>>
  <2>1. CASE p = "imu"
    <3>1. group'["imu"] = <<g>> /\ group'["image"] = <<>>
      BY <1>a, <1>4, <1>5, <2>1 DEF TypeOK, Producers
    <3>2. InRelease(queue_', group') = queue_' \o group'["imu"]
      BY <1>6, <3>1, InReleaseIs
    <3> QED
      BY <1>5a, <3>1, <3>2
  <2>2. CASE p = "image"
    <3>1. group'["image"] = <<g>> /\ group'["imu"] = <<>>
      BY <1>a, <1>4, <1>5, <2>2 DEF TypeOK, Producers
    <3>2. InRelease(queue_', group') = queue_' \o group'["image"]
      BY <1>6, <3>1, InReleaseIs
    <3> QED
      BY <1>5a, <3>1, <3>2
  <2> QED
    BY <2>1, <2>2 DEF Producers
<1>8. queue_ \o <<g>> = Append(queue_, g)
  BY <1>b, <1>2
<1>9. Backlog' = Line(Append(queue_, g), Tail(frames_))
  BY <1>5, <1>7, <1>8, BacklogWillBe
<1>10. Line(Append(queue_, g), Tail(frames_)) = Line(queue_, frames_)
  BY <1>b, <1>1, <1>2, LineMoved
<1>11. Backlog = Line(queue_, frames_)
  BY <1>a, <1>4, BacklogIs
<1> QED
  BY <1>1, <1>2, <1>4, <1>7, <1>8, <1>9, <1>10, <1>11

LEMMA EnqueueMoves ==
  ASSUME MutexInv, TypeOK', NEW p \in Producers, Enqueue(p), NEW r, r = queue_ \o group[p]
  PROVE  /\ r \in Seq(Group) /\ InRelease(queue_, group) = r
         /\ InRelease(queue_, group)' = queue_'
         /\ Full(r) => /\ Len(r) >= 2 /\ queue_' = DropOldest(r)
                       /\ Backlog # <<>> /\ Backlog' = Tail(Backlog) /\ Head(Backlog) = r[1].frame
         /\ ~Full(r) => queue_' = r /\ Backlog' = Backlog
<1>a. TypeOK
  BY DEF MutexInv
<1>b. frames_ \in Seq(Message) /\ queue_ \in Seq(Group) /\ group \in [Producers -> AtMostOne(Group)]
  BY <1>a DEF TypeOK
<1>1. \A q \in Producers : q # p => group[q] = <<>>
  BY OwnerAlone DEF Enqueue
<1>2. InRelease(queue_, group) = r
  BY <1>b, <1>1, InReleaseIs DEF Producers
<1>3. r \in Seq(Group)
  BY <1>b, <1>2, InReleaseIs
<1>4. group' = [group EXCEPT ![p] = <<>>] /\ frames_' = frames_
      /\ queue_' = IF Full(r) THEN DropOldest(r) ELSE r
  BY DEF Enqueue, MovedFrom, syncVars
<1>5. queue_' \in Seq(Group) /\ group' \in [Producers -> AtMostOne(Group)]
  BY DEF TypeOK
<1>6. group'["imu"] = <<>> /\ group'["image"] = <<>>
  BY <1>b, <1>1, <1>4 DEF Producers
<1>7. InRelease(queue_', group') = queue_'
  BY <1>5, <1>6, InReleaseIs
<1>8. Backlog = Line(r, frames_) /\ Backlog' = Line(queue_', frames_)
  BY <1>a, <1>2, <1>4, <1>7, BacklogIs, BacklogWillBe
<1>9. ASSUME Full(r)
      PROVE  /\ Len(r) >= 2
             /\ Backlog # <<>> /\ Backlog' = Tail(Backlog) /\ Head(Backlog) = r[1].frame
  <2>1. Len(r) >= 2 /\ r # <<>>
    BY <1>3, <1>9, QueueAssumption, LenProperties DEF Full
  <2> DEFINE d == DropOldest(r)
  <2>2. /\ d \in Seq(Group) /\ Len(d) = Len(r) - 1
        /\ \A i \in 1 .. Len(d) : d[i].frame = r[i + 1].frame
    BY <1>3, <2>1, DropOldestElements
  <2> HIDE DEF d
  <2>3. /\ Line(r, frames_) # <<>> /\ Head(Line(r, frames_)) = r[1].frame
        /\ Line(d, frames_) = Tail(Line(r, frames_))
    BY <1>b, <1>3, <2>1, <2>2, LineShortened
  <2>4. queue_' = d
    BY <1>4, <1>9 DEF d
  <2> QED
    BY <1>8, <2>1, <2>3, <2>4
<1> QED
  BY <1>2, <1>3, <1>4, <1>7, <1>8, <1>9

LEMMA PopMoves ==
  ASSUME MutexInv, TypeOK', Pop
  PROVE  /\ queue_ \in Seq(Group) /\ queue_ # <<>> /\ Head(queue_) = queue_[1]
         /\ InRelease(queue_, group) = queue_ /\ InRelease(queue_, group)' = Tail(queue_)
         /\ Backlog # <<>> /\ Backlog' = Tail(Backlog) /\ Head(Backlog) = queue_[1].frame
<1>a. TypeOK
  BY DEF MutexInv
<1>b. /\ frames_ \in Seq(Message) /\ queue_ \in Seq(Group) /\ queue_ # <<>>
      /\ group \in [Producers -> AtMostOne(Group)]
  BY <1>a DEF TypeOK, Pop
<1>1. \A p \in Producers : pc[p] # "enqueue"
  BY FreeMutex DEF Pop, Calling
<1>2. group["imu"] = <<>> /\ group["image"] = <<>> /\ InRelease(queue_, group) = queue_
  BY <1>1, HeldByNobody
<1> DEFINE q == Tail(queue_)
<1>3. queue_' = q /\ group' = group /\ frames_' = frames_
  BY DEF Pop, syncVars
<1>4. /\ q \in Seq(Group) /\ Len(q) = Len(queue_) - 1 /\ Head(queue_) = queue_[1]
      /\ \A i \in 1 .. Len(q) : q[i] = queue_[i + 1]
  BY <1>b
<1> HIDE DEF q
<1>5. InRelease(queue_', group') = q
  BY <1>b, <1>2, <1>3, <1>4, InReleaseIs
<1>6. Backlog = Line(queue_, frames_) /\ Backlog' = Line(q, frames_)
  BY <1>a, <1>2, <1>3, <1>5, BacklogIs, BacklogWillBe
<1>7. /\ Line(queue_, frames_) # <<>> /\ Head(Line(queue_, frames_)) = queue_[1].frame
      /\ Line(q, frames_) = Tail(Line(queue_, frames_))
  BY <1>b, <1>4, LineShortened
<1> QED
  BY <1>b, <1>2, <1>4, <1>5, <1>6, <1>7 DEF q

LEMMA ResetMoves ==
  ASSUME MutexInv, TypeOK', NEW p \in Producers, Reset(p)
  PROVE  /\ InRelease(queue_, group) = queue_
         /\ InRelease(queue_, group)' = <<>> /\ Backlog' = <<>>
<1>1. \A q \in Producers : pc[q] # "enqueue"
  BY FreeMutex DEF Reset
<1>2. group["imu"] = <<>> /\ group["image"] = <<>> /\ InRelease(queue_, group) = queue_
  BY <1>1, HeldByNobody
<1>3. queue_' = <<>> /\ group' = group /\ frames_' = <<>>
  BY DEF Reset, Clear
<1>4. queue_' \in Seq(Group) /\ group' \in [Producers -> AtMostOne(Group)]
  BY DEF TypeOK
<1>5. InRelease(queue_', group') = <<>>
  BY <1>2, <1>3, <1>4, InReleaseIs
<1>6. Backlog' = Line(<<>>, <<>>)
  BY <1>3, <1>5, BacklogWillBe
<1>7. Line(<<>>, <<>>) = <<>>
  BY EmptyLine
<1> QED
  BY <1>2, <1>5, <1>6, <1>7

-------------------------------------------------------------------------------
OrderInv == MutexInv /\ Risen(Backlog, anchor, newest)

LEMMA AnchorIsNatural ==
  ASSUME TypeOK
  PROVE  anchor \in AtMostOne(Nat) /\ newest \in Nat /\ outFrom \in AtMostOne(Nat)
<1>1. ASSUME NEW s \in AtMostOne(Stamps) PROVE s \in AtMostOne(Nat)
  <2>1. s \in Seq(Stamps) /\ Len(s) <= 1
    BY DEF AtMostOne
  <2>2. Len(s) \in Nat /\ DOMAIN s = 1 .. Len(s) /\ \A i \in 1 .. Len(s) : s[i] \in Stamps
    BY <2>1, LenProperties, ElementOfSeq
  <2>3. \A i \in 1 .. Len(s) : s[i] \in Nat
    BY <2>2, SyncAssumption
  <2>4. s = [i \in 1 .. Len(s) |-> s[i]]
    BY <2>1
  <2>5. s \in Seq(Nat)
    BY <2>2, <2>3, <2>4, IsASeq
  <2> QED
    BY <2>1, <2>5 DEF AtMostOne
<1> QED
  BY <1>1 DEF TypeOK

LEMMA NothingRisen == ASSUME NEW top PROVE Risen(<<>>, <<>>, top)
  BY DEF Risen, Rising

LEMMA OrderInit == Init => OrderInv
<1> SUFFICES ASSUME Init PROVE Risen(Backlog, anchor, newest)
  BY MutexInit DEF OrderInv
<1>1. \A p \in Producers : pc[p] # "enqueue"
  BY DEF Init, Producers, Threads
<1>2. InRelease(queue_, group) = <<>>
  BY <1>1, MutexInit, HeldByNobody DEF Init
<1>3. TypeOK /\ frames_ = <<>> /\ anchor = <<>>
  BY TypeInit DEF Init
<1>4. Backlog = Line(<<>>, <<>>)
  BY <1>2, <1>3, BacklogIs
<1>5. Line(<<>>, <<>>) = <<>>
  BY EmptyLine
<1> QED
  BY <1>3, <1>4, <1>5, NothingRisen

LEMMA OrderStep == OrderInv /\ [Next]_vars => OrderInv'
<1> SUFFICES ASSUME OrderInv, [Next]_vars PROVE Risen(Backlog, anchor, newest)'
  BY MutexStep DEF OrderInv
<1>a. /\ MutexInv /\ MutexInv' /\ TypeOK /\ TypeOK'
      /\ Risen(Backlog, anchor, newest)
  BY MutexStep DEF OrderInv, MutexInv
<1>b. Backlog \in Seq(Message) /\ anchor \in AtMostOne(Nat) /\ newest \in Nat
  BY <1>a, BacklogIs, AnchorIsNatural
<1> DEFINE l == Backlog
           new == Backlog'
<1>1. ASSUME NEW t \in Stamps, PushFrame(t) PROVE Risen(new, anchor', newest')
  <2> DEFINE m == [t |-> t, tl |-> epoch_]
  <2>1. m \in Message /\ new = Append(l, m)
    BY <1>a, <1>1, PushFrameMoves
  <2>2. anchor' = anchor /\ newest' = m.t /\ newest <= m.t
    BY <1>1 DEF PushFrame
  <2> HIDE DEF l, new, m
  <2>3. l \in Seq(Message) /\ Risen(l, anchor, newest)
    BY <1>a, <1>b DEF l
  <2>4. Risen(new, anchor, m.t)
    BY <1>b, <2>1, <2>2, <2>3, RisenAppend
  <2> QED
    BY <2>2, <2>4
<1>2. ASSUME NEW p \in Producers, SyncNext(p) PROVE Risen(new, anchor', newest')
  <2>1. Backlog' = Backlog
    BY <1>a, <1>2, SyncNextMoves
  <2> QED
    BY <1>a, <1>2, <2>1 DEF SyncNext, history
<1>3. ASSUME NEW p \in Producers, Enqueue(p) PROVE Risen(new, anchor', newest')
  <2> DEFINE r == queue_ \o group[p]
  <2>1. newest' = newest
        /\ anchor' = IF Full(r) /\ anchor = <<>> THEN <<r[1].frame.t>> ELSE anchor
    BY <1>3 DEF Enqueue
  <2> HIDE DEF r
  <2>2. CASE Full(r)
    <3>1. l # <<>> /\ new = Tail(l) /\ Head(l) = r[1].frame
      BY <1>a, <1>3, <2>2, EnqueueMoves DEF r
    <3>2. Risen(new, <<Head(l).t>>, newest) /\ Risen(new, anchor, newest)
      BY <1>a, <1>b, <3>1, RisenTail
    <3> QED
      BY <2>1, <2>2, <3>1, <3>2
  <2>3. CASE ~Full(r)
    <3>1. new = l
      BY <1>a, <1>3, <2>3, EnqueueMoves DEF r
    <3> QED
      BY <1>a, <2>1, <2>3, <3>1
  <2> QED
    BY <2>2, <2>3
<1>4. CASE Pop
  <2>1. l # <<>> /\ new = Tail(l) /\ Head(l) = Head(queue_).frame
    BY <1>a, <1>4, PopMoves
  <2>2. newest' = newest /\ anchor' = <<Head(l).t>>
    BY <1>4, <2>1 DEF Pop
  <2> QED
    BY <1>a, <1>b, <2>1, <2>2, RisenTail
<1>5. ASSUME NEW p \in Producers, Reset(p) PROVE Risen(new, anchor', newest')
  <2>1. new = <<>> /\ anchor' = <<>>
    BY <1>a, <1>5, ResetMoves DEF Reset
  <2> QED
    BY <2>1, NothingRisen
<1>6. CASE UNCHANGED <<frames_, queue_, group, anchor, newest>>
  BY <1>a, <1>6 DEF Backlog
<1> HIDE DEF new
<1> QED
  BY <1>1, <1>2, <1>3, <1>4, <1>5, <1>6
     DEF new, Next, Produce, Work, Terminated, PushImu, ReleaseReturns, Stop, Sleep, ReturnFalse,
         SpuriousWake, Processed, vars, syncVars, outVars, history

\* A line that rises from its anchor is sorted, read as the property reads it.
LEMMA RisenIsSorted ==
  ASSUME NEW l \in Seq(Message), NEW anc \in AtMostOne(Nat), NEW top, Risen(l, anc, top)
  PROVE  IsSorted(anc \o StampsOf(l), <=)
<1> DEFINE s == StampsOf(l)
           c == anc \o s
<1>1. /\ \A i \in DOMAIN l : l[i].t \in Nat
      /\ DOMAIN l = 1 .. Len(l) /\ Len(l) \in Nat
  BY StampsAreNatural
<1>2. s = [i \in 1 .. Len(l) |-> l[i].t]
  BY <1>1 DEF StampsOf, Stamp
<1>3. s \in Seq(Nat)
  BY <1>1, <1>2, IsASeq
<1>4. Len(s) = Len(l) /\ \A i \in 1 .. Len(l) : s[i] = l[i].t
  BY <1>1, <1>2
<1>5. anc \in Seq(Nat) /\ Len(anc) \in {0, 1}
  <2>1. anc \in Seq(Nat) /\ Len(anc) <= 1
    BY DEF AtMostOne
  <2>2. Len(anc) \in Nat
    BY <2>1, LenProperties
  <2>3. \A n \in Nat : n <= 1 => n = 0 \/ n = 1
    OBVIOUS
  <2> QED
    BY <2>1, <2>2, <2>3
<1> HIDE DEF s
<1>6. /\ Len(c) = Len(anc) + Len(s) /\ Len(anc) \in Nat /\ Len(s) \in Nat
      /\ \A i \in 1 .. Len(anc) : c[i] = anc[i]
      /\ \A i \in 1 .. Len(s) : c[Len(anc) + i] = s[i]
  BY <1>3, <1>5, JoinedAt
<1> HIDE DEF c
<1> SUFFICES ASSUME NEW i \in 1 .. Len(c), NEW j \in 1 .. Len(c), i < j PROVE c[i] <= c[j]
  BY DEF IsSorted, c, s
<1>7. CASE i <= Len(anc)
  <2>1. i = 1 /\ Len(anc) = 1 /\ anc # <<>> /\ j - 1 \in 1 .. Len(s) /\ 1 + (j - 1) = j
    BY <1>5, <1>6, <1>7
  <2>2. c[i] = anc[1] /\ c[j] = s[j - 1] /\ s[j - 1] = l[j - 1].t /\ j - 1 \in DOMAIN l
    BY <1>1, <1>4, <1>6, <2>1
  <2> QED
    BY <2>1, <2>2 DEF Risen
<1>8. CASE i > Len(anc)
  <2> DEFINE a == i - Len(anc)
             b == j - Len(anc)
  <2>1. a \in 1 .. Len(s) /\ b \in 1 .. Len(s) /\ a < b /\ Len(anc) + a = i /\ Len(anc) + b = j
    BY <1>6, <1>8
  <2> HIDE DEF a, b
  <2>2. c[i] = s[a] /\ c[j] = s[b]
    BY <1>6, <2>1
  <2>3. s[a] = l[a].t /\ s[b] = l[b].t /\ a \in DOMAIN l /\ b \in DOMAIN l
    BY <1>1, <1>4, <2>1
  <2> QED
    BY <2>1, <2>2, <2>3 DEF Risen, Rising
<1> QED
  BY <1>6, <1>7, <1>8

\* However the two callbacks and the worker interleave, the frames still to come rise
\* from the last one handed out: no frame overtakes another.
THEOREM InOrder == Safety => []FramesInOrder
<1>1. OrderInv => FramesInOrder
  <2> SUFFICES ASSUME OrderInv PROVE FramesInOrder
    OBVIOUS
  <2>1. Backlog \in Seq(Message) /\ anchor \in AtMostOne(Nat) /\ Risen(Backlog, anchor, newest)
    BY BacklogIs, AnchorIsNatural DEF OrderInv, MutexInv
  <2> QED
    BY <2>1, RisenIsSorted DEF FramesInOrder
<1> QED
  BY <1>1, OrderInit, OrderStep, PTL DEF Safety

-------------------------------------------------------------------------------
(***************************************************************************)
(* The chain of intervals: each group in release starts where the one before *)
(* it ended, the first one at the anchor, and what the synchroniser retains  *)
(* starts where the last one ended.                                          *)
(***************************************************************************)
Before(rel, anc, i) == IF i = 1 THEN anc ELSE <<rel[i - 1].frame.t>>

Newest(rel, anc) == Before(rel, anc, Len(rel) + 1)

Linked(rel, anc, R) == \A i \in DOMAIN rel : Complete(rel[i], Before(rel, anc, i), R)

Reached(anc, R) == anc # <<>> => \E s \in R : s >= anc[1]

Retained(imu, prev, last, R) ==
  /\ Rising(imu)
  /\ prev <=> last # <<>>
  /\ StampSet(imu) = IF prev THEN KeptFrom(last[1], R) ELSE R

LEMMA OneStamp ==
  ASSUME NEW t \in Nat
  PROVE  <<t>> \in AtMostOne(Nat) /\ <<t>> # <<>> /\ <<t>>[1] = t
<1>1. <<t>> \in Seq(Nat) /\ Len(<<t>>) = 1 /\ <<t>>[1] = t /\ <<t>> # <<>>
  OBVIOUS
<1> QED
  BY <1>1 DEF AtMostOne

LEMMA BeforeType ==
  ASSUME NEW rel \in Seq(Group), NEW anc \in AtMostOne(Nat), NEW i \in 1 .. Len(rel) + 1
  PROVE  Before(rel, anc, i) \in AtMostOne(Nat)
<1>1. CASE i = 1
  BY <1>1 DEF Before
<1>2. CASE i # 1
  <2>1. i - 1 \in 1 .. Len(rel)
    BY <1>2
  <2>2. rel[i - 1] \in Group
    BY <2>1
  <2>3. rel[i - 1].frame.t \in Nat
    BY <2>2, GroupType
  <2> QED
    BY <1>2, <2>3, OneStamp DEF Before
<1> QED
  BY <1>1, <1>2

LEMMA NewestIs ==
  ASSUME NEW rel \in Seq(Group), NEW anc \in AtMostOne(Nat)
  PROVE  /\ Newest(rel, anc) \in AtMostOne(Nat)
         /\ rel = <<>> => Newest(rel, anc) = anc
         /\ rel # <<>> => /\ Newest(rel, anc) = <<rel[Len(rel)].frame.t>>
                          /\ Newest(rel, anc) # <<>>
                          /\ Newest(rel, anc)[1] = rel[Len(rel)].frame.t
                          /\ Len(rel) \in DOMAIN rel /\ rel[Len(rel)] \in Group
<1>1. Len(rel) \in Nat /\ DOMAIN rel = 1 .. Len(rel) /\ (rel = <<>> <=> Len(rel) = 0)
  OBVIOUS
<1>2. Newest(rel, anc) \in AtMostOne(Nat)
  BY <1>1, BeforeType DEF Newest
<1>3. rel = <<>> => Newest(rel, anc) = anc
  BY <1>1 DEF Newest, Before
<1>4. ASSUME rel # <<>>
      PROVE  /\ Newest(rel, anc) = <<rel[Len(rel)].frame.t>>
             /\ Newest(rel, anc) # <<>>
             /\ Newest(rel, anc)[1] = rel[Len(rel)].frame.t
             /\ Len(rel) \in DOMAIN rel /\ rel[Len(rel)] \in Group
  <2>1. Len(rel) + 1 # 1 /\ (Len(rel) + 1) - 1 = Len(rel) /\ Len(rel) \in DOMAIN rel
    BY <1>1, <1>4
  <2>2. rel[Len(rel)] \in Group
    BY <2>1
  <2>3. Newest(rel, anc) = <<rel[Len(rel)].frame.t>>
    BY <2>1 DEF Newest, Before
  <2> QED
    BY <2>1, <2>2, <2>3
<1> QED
  BY <1>2, <1>3, <1>4

LEMMA NewestReached ==
  ASSUME NEW R \in SUBSET Nat, NEW rel \in Seq(Group), NEW anc \in AtMostOne(Nat),
         Linked(rel, anc, R), Reached(anc, R)
  PROVE  Reached(Newest(rel, anc), R)
<1>1. CASE rel = <<>>
  BY <1>1, NewestIs
<1>2. CASE rel # <<>>
  <2>1. Newest(rel, anc)[1] = rel[Len(rel)].frame.t /\ Len(rel) \in DOMAIN rel
    BY <1>2, NewestIs
  <2> QED
    BY <2>1 DEF Linked, Complete, Reached
<1> QED
  BY <1>1, <1>2

\* The next frame is no earlier than the last one released.
LEMMA NewestBelow ==
  ASSUME NEW rel \in Seq(Group), NEW fr \in Seq(Message), fr # <<>>, NEW anc \in AtMostOne(Nat),
         NEW top, Risen(Line(rel, fr), anc, top)
  PROVE  Newest(rel, anc) # <<>> => Newest(rel, anc)[1] <= fr[1].t
<1> DEFINE l == Line(rel, fr)
<1>1. /\ l \in Seq(Message) /\ Len(l) = Len(rel) + Len(fr) /\ Len(rel) \in Nat /\ Len(fr) \in Nat
      /\ \A i \in 1 .. Len(rel) : l[i] = rel[i].frame
      /\ \A i \in 1 .. Len(fr) : l[Len(rel) + i] = fr[i]
  BY LineElements
<1>2. Len(fr) >= 1
  BY <1>1
<1>3. Risen(l, anc, top)
  OBVIOUS
<1> HIDE DEF l
<1>4. DOMAIN l = 1 .. Len(l)
  BY <1>1
<1>5. l[Len(rel) + 1] = fr[1] /\ Len(rel) + 1 \in DOMAIN l
  BY <1>1, <1>2, <1>4
<1>6. CASE rel = <<>>
  <2>1. Newest(rel, anc) = anc
    BY <1>6, NewestIs
  <2> QED
    BY <1>3, <1>5, <2>1 DEF Risen
<1>7. CASE rel # <<>>
  <2>1. Newest(rel, anc)[1] = rel[Len(rel)].frame.t /\ Len(rel) >= 1
    BY <1>1, <1>7, NewestIs
  <2>2. Len(rel) \in DOMAIN l /\ l[Len(rel)] = rel[Len(rel)].frame /\ Len(rel) < Len(rel) + 1
    BY <1>1, <1>4, <2>1
  <2>3. l[Len(rel)].t <= l[Len(rel) + 1].t
    BY <1>3, <1>5, <2>2 DEF Risen, Rising
  <2> QED
    BY <1>5, <2>1, <2>2, <2>3
<1> QED
  BY <1>6, <1>7

LEMMA LinkedGrows ==
  ASSUME NEW R \in SUBSET Nat, NEW t \in Nat, \A s \in R : s <= t,
         NEW rel \in Seq(Group), NEW anc \in AtMostOne(Nat), Linked(rel, anc, R)
  PROVE  Linked(rel, anc, R \cup {t})
<1> SUFFICES ASSUME NEW i \in DOMAIN rel PROVE Complete(rel[i], Before(rel, anc, i), R \cup {t})
  BY DEF Linked
<1> DEFINE g == rel[i]
           b == Before(rel, anc, i)
<1>1. i \in 1 .. Len(rel) + 1 /\ g \in Group
  OBVIOUS
<1>2. b \in AtMostOne(Nat)
  BY <1>1, BeforeType
<1>3. Complete(g, b, R)
  BY DEF Linked
<1> HIDE DEF g, b
<1>4. Complete(g, b, R \cup {t})
  BY <1>1, <1>2, <1>3, CompleteGrows
<1> QED
  BY <1>4 DEF g, b

LEMMA LinkedAppend ==
  ASSUME NEW R, NEW rel \in Seq(Group), NEW anc \in AtMostOne(Nat), Linked(rel, anc, R),
         NEW g \in Group, Complete(g, Newest(rel, anc), R), NEW more, more = Append(rel, g)
  PROVE  Linked(more, anc, R) /\ Newest(more, anc) = <<g.frame.t>>
<1>1. /\ more \in Seq(Group) /\ Len(more) = Len(rel) + 1 /\ Len(rel) \in Nat
      /\ \A i \in 1 .. Len(rel) : more[i] = rel[i]
      /\ more[Len(rel) + 1] = g
  BY AppendedAt
<1>2. DOMAIN more = 1 .. Len(rel) + 1 /\ DOMAIN rel = 1 .. Len(rel)
  BY <1>1
<1>3. ASSUME NEW i \in 1 .. Len(rel) + 1 PROVE Before(more, anc, i) = Before(rel, anc, i)
  <2>1. CASE i = 1
    BY <2>1 DEF Before
  <2>2. CASE i # 1
    <3>1. i - 1 \in 1 .. Len(rel)
      BY <1>1, <2>2
    <3> QED
      BY <1>1, <2>2, <3>1 DEF Before
  <2> QED
    BY <2>1, <2>2
<1>4. ASSUME NEW i \in DOMAIN more PROVE Complete(more[i], Before(more, anc, i), R)
  <2>1. CASE i \in 1 .. Len(rel)
    <3>1. more[i] = rel[i] /\ Before(more, anc, i) = Before(rel, anc, i) /\ i \in DOMAIN rel
      BY <1>1, <1>2, <1>3, <2>1
    <3> QED
      BY <3>1 DEF Linked
  <2>2. CASE i = Len(rel) + 1
    <3>1. more[i] = g /\ Before(more, anc, i) = Newest(rel, anc)
      BY <1>1, <1>2, <1>3, <2>2 DEF Newest
    <3> QED
      BY <3>1
  <2> QED
    BY <1>1, <1>2, <2>1, <2>2
<1>5. more # <<>>
  BY <1>1
<1>6. Newest(more, anc) = <<more[Len(more)].frame.t>>
  BY <1>1, <1>5, NewestIs
<1> QED
  BY <1>1, <1>4, <1>6 DEF Linked

LEMMA LinkedTail ==
  ASSUME NEW R, NEW rel \in Seq(Group), rel # <<>>, NEW anc \in AtMostOne(Nat), Linked(rel, anc, R)
  PROVE  /\ Complete(rel[1], anc, R)
         /\ Linked(Tail(rel), <<rel[1].frame.t>>, R)
         /\ Newest(Tail(rel), <<rel[1].frame.t>>) = Newest(rel, anc)
<1> DEFINE less == Tail(rel)
           from == <<rel[1].frame.t>>
<1>1. /\ less \in Seq(Group) /\ Len(less) = Len(rel) - 1 /\ Len(rel) \in Nat /\ Len(rel) >= 1
      /\ DOMAIN less = 1 .. Len(less) /\ DOMAIN rel = 1 .. Len(rel)
      /\ \A i \in 1 .. Len(less) : less[i] = rel[i + 1]
  OBVIOUS
<1>f. from = <<rel[1].frame.t>>
  OBVIOUS
<1> HIDE DEF less, from
<1>2. Complete(rel[1], anc, R)
  <2>1. 1 \in DOMAIN rel /\ Before(rel, anc, 1) = anc
    BY <1>1 DEF Before
  <2> QED
    BY <2>1 DEF Linked
<1>3. ASSUME NEW i \in 1 .. Len(less) + 1 PROVE Before(less, from, i) = Before(rel, anc, i + 1)
  <2>0. i + 1 # 1 /\ (i + 1) - 1 = i
    BY <1>1
  <2>1. CASE i = 1
    BY <1>f, <2>0, <2>1 DEF Before
  <2>2. CASE i # 1
    <3>1. i - 1 \in 1 .. Len(less) /\ (i - 1) + 1 = i
      BY <1>1, <2>2
    <3> QED
      BY <1>1, <2>0, <2>2, <3>1 DEF Before
  <2> QED
    BY <2>1, <2>2
<1>4. ASSUME NEW i \in DOMAIN less PROVE Complete(less[i], Before(less, from, i), R)
  <2>1. i + 1 \in DOMAIN rel /\ less[i] = rel[i + 1]
        /\ Before(less, from, i) = Before(rel, anc, i + 1)
    BY <1>1, <1>3
  <2> QED
    BY <2>1 DEF Linked
<1>5. Newest(less, from) = Newest(rel, anc)
  <2>1. Len(less) + 1 \in 1 .. Len(less) + 1 /\ (Len(less) + 1) + 1 = Len(rel) + 1
    BY <1>1
  <2> QED
    BY <1>3, <2>1 DEF Newest
<1> QED
  BY <1>2, <1>4, <1>5 DEF Linked, less, from

LEMMA LinkedDrop ==
  ASSUME NEW R \in SUBSET Nat, NEW rel \in Seq(Group), Len(rel) >= 2, NEW anc \in AtMostOne(Nat),
         Linked(rel, anc, R), Reached(anc, R),
         NEW from, from = IF anc = <<>> THEN <<rel[1].frame.t>> ELSE anc,
         NEW less, less = DropOldest(rel)
  PROVE  /\ Linked(less, from, R) /\ Newest(less, from) = Newest(rel, anc) /\ Reached(from, R)
<1>1. /\ less \in Seq(Group) /\ Len(less) = Len(rel) - 1 /\ Len(rel) \in Nat
      /\ less[1] = Splice(rel[1], rel[2])
      /\ \A i \in 2 .. Len(less) : less[i] = rel[i + 1]
      /\ \A i \in 1 .. Len(less) : less[i].frame = rel[i + 1].frame
  BY DropOldestElements
<1>2. DOMAIN less = 1 .. Len(less) /\ DOMAIN rel = 1 .. Len(rel) /\ 1 \in DOMAIN rel
      /\ 2 \in DOMAIN rel
  BY <1>1
<1>3. rel[1] \in Group /\ rel[2] \in Group
  BY <1>1, <1>2
<1>4. /\ Complete(rel[1], anc, R) /\ Complete(rel[2], <<rel[1].frame.t>>, R)
  <2>1. Before(rel, anc, 1) = anc /\ Before(rel, anc, 2) = <<rel[1].frame.t>>
    BY DEF Before
  <2> QED
    BY <1>2, <2>1 DEF Linked
<1>5. Complete(Splice(rel[1], rel[2]), from, R)
  BY <1>3, <1>4, SpliceIsComplete
<1>6. ASSUME NEW i \in 2 .. Len(less) + 1 PROVE Before(less, from, i) = Before(rel, anc, i + 1)
  <2>1. /\ i # 1 /\ i + 1 # 1 /\ i - 1 \in 1 .. Len(less) /\ (i - 1) + 1 = i /\ (i + 1) - 1 = i
    BY <1>1
  <2>2. less[i - 1].frame = rel[i].frame
    BY <1>1, <2>1
  <2> QED
    BY <2>1, <2>2 DEF Before
<1>7. ASSUME NEW i \in DOMAIN less PROVE Complete(less[i], Before(less, from, i), R)
  <2>1. CASE i = 1
    <3>1. Before(less, from, 1) = from
      BY DEF Before
    <3> QED
      BY <1>1, <1>5, <2>1, <3>1
  <2>2. CASE i # 1
    <3>1. i \in 2 .. Len(less) /\ i \in 2 .. Len(less) + 1 /\ i + 1 \in DOMAIN rel
      BY <1>1, <1>2, <2>2
    <3>2. less[i] = rel[i + 1] /\ Before(less, from, i) = Before(rel, anc, i + 1)
      BY <1>1, <1>6, <3>1
    <3> QED
      BY <3>1, <3>2 DEF Linked
  <2> QED
    BY <2>1, <2>2
<1>8. Newest(less, from) = Newest(rel, anc)
  <2>1. Len(less) + 1 \in 2 .. Len(less) + 1 /\ (Len(less) + 1) + 1 = Len(rel) + 1
    BY <1>1
  <2> QED
    BY <1>6, <2>1 DEF Newest
<1>9. Reached(from, R)
  <2>1. CASE anc = <<>>
    <3>1. from[1] = rel[1].frame.t
      BY <2>1
    <3> QED
      BY <1>4, <3>1 DEF Reached, Complete
  <2>2. CASE anc # <<>>
    BY <2>2
  <2> QED
    BY <2>1, <2>2
<1> QED
  BY <1>7, <1>8, <1>9 DEF Linked

\* A sample that is not evicting another joins what is retained.
LEMMA RetainedGrows ==
  ASSUME NEW R \in SUBSET Nat, NEW imu \in Seq(Message), NEW m \in Message,
         NEW prev \in BOOLEAN, NEW last \in AtMostOne(Nat),
         Retained(imu, prev, last, R), Reached(last, R), \A s \in R : s <= m.t,
         NEW more, more = Append(imu, m)
  PROVE  Retained(more, prev, last, R \cup {m.t})
<1>0. m.t \in Nat
  BY SyncAssumption DEF Message
<1>1. /\ more \in Seq(Message) /\ Len(more) = Len(imu) + 1 /\ Len(imu) \in Nat
      /\ DOMAIN more = 1 .. Len(more) /\ DOMAIN imu = 1 .. Len(imu)
      /\ \A i \in 1 .. Len(imu) : more[i] = imu[i]
      /\ more[Len(imu) + 1] = m
  BY AppendedAt
<1>2. StampSet(imu) \subseteq R
  BY DEF Retained, KeptFrom
<1>3. \A i \in DOMAIN imu : imu[i].t <= m.t
  BY <1>2 DEF StampSet
<1>4. Rising(more)
  <2> SUFFICES ASSUME NEW i \in DOMAIN more, NEW j \in DOMAIN more, i < j
               PROVE  more[i].t <= more[j].t
    BY DEF Rising
  <2>1. i \in DOMAIN imu /\ more[i] = imu[i]
    BY <1>1
  <2>2. CASE j \in DOMAIN imu
    <3>1. more[j] = imu[j]
      BY <1>1, <2>2
    <3> QED
      BY <2>1, <2>2, <3>1 DEF Retained, Rising
  <2>3. CASE j = Len(imu) + 1
    BY <1>1, <1>3, <2>1, <2>3
  <2> QED
    BY <1>1, <2>2, <2>3
<1>5. StampSet(more) = StampSet(imu) \cup {m.t}
  <2>1. ASSUME NEW x \in StampSet(more) PROVE x \in StampSet(imu) \cup {m.t}
    <3>1. PICK i \in DOMAIN more : x = more[i].t
      BY DEF StampSet
    <3>2. i \in DOMAIN imu \/ i = Len(imu) + 1
      BY <1>1
    <3>3. CASE i \in DOMAIN imu
      BY <1>1, <3>1, <3>3 DEF StampSet
    <3>4. CASE i = Len(imu) + 1
      BY <1>1, <3>1, <3>4
    <3> QED
      BY <3>2, <3>3, <3>4
  <2>2. ASSUME NEW x \in StampSet(imu) PROVE x \in StampSet(more)
    <3>1. PICK i \in DOMAIN imu : x = imu[i].t
      BY DEF StampSet
    <3>2. i \in DOMAIN more /\ more[i] = imu[i]
      BY <1>1
    <3> QED
      BY <3>1, <3>2 DEF StampSet
  <2>3. m.t \in StampSet(more)
    <3>1. Len(imu) + 1 \in DOMAIN more
      BY <1>1
    <3> QED
      BY <1>1, <3>1 DEF StampSet
  <2> QED
    BY <2>1, <2>2, <2>3
<1>6. CASE prev
  <2>1. last # <<>> /\ StampSet(imu) = KeptFrom(last[1], R)
    BY <1>6 DEF Retained
  <2>2. last[1] \in Nat /\ \E s \in R : s >= last[1]
    BY <2>1 DEF AtMostOne, Reached
  <2>3. KeptFrom(last[1], R \cup {m.t}) = KeptFrom(last[1], R) \cup {m.t}
    BY <1>0, <2>2, KeptGrows
  <2> QED
    BY <1>4, <1>5, <1>6, <2>1, <2>3 DEF Retained
<1>7. CASE ~prev
  <2>1. last = <<>> /\ StampSet(imu) = R
    BY <1>7 DEF Retained
  <2> QED
    BY <1>4, <1>5, <1>7, <2>1 DEF Retained
<1> QED
  BY <1>6, <1>7

Chain ==
  LET R   == ToSet(received)
      rel == InRelease(queue_, group)
  IN  /\ Reached(anchor, R)
      /\ Linked(rel, anchor, R)
      /\ Retained(imu_, havePrev_, Newest(rel, anchor), R)
      /\ \A i \in DOMAIN out : outEpoch = epoch_ => Complete(out[i], outFrom, R)

ChainInv ==
  /\ OrderInv
  /\ outEpoch <= epoch_
  /\ out # <<>> <=> pc["worker"] = "processing"
  /\ ~evicted => Chain

LEMMA ReceivedGrows ==
  ASSUME NEW rcv \in Seq(Stamps), NEW t \in Stamps, NEW more, more = Append(rcv, t)
  PROVE  ToSet(more) = ToSet(rcv) \cup {t}
<1>1. /\ more \in Seq(Stamps) /\ Len(more) = Len(rcv) + 1 /\ Len(rcv) \in Nat
      /\ DOMAIN more = 1 .. Len(more) /\ DOMAIN rcv = 1 .. Len(rcv)
      /\ \A i \in 1 .. Len(rcv) : more[i] = rcv[i]
      /\ more[Len(rcv) + 1] = t
  BY AppendedAt
<1>2. ASSUME NEW x \in ToSet(more) PROVE x \in ToSet(rcv) \cup {t}
  <2>1. PICK i \in DOMAIN more : x = more[i]
    BY DEF ToSet
  <2>2. i \in DOMAIN rcv \/ i = Len(rcv) + 1
    BY <1>1
  <2>3. CASE i \in DOMAIN rcv
    BY <1>1, <2>1, <2>3 DEF ToSet
  <2>4. CASE i = Len(rcv) + 1
    BY <1>1, <2>1, <2>4
  <2> QED
    BY <2>2, <2>3, <2>4
<1>3. ASSUME NEW x \in ToSet(rcv) PROVE x \in ToSet(more)
  <2>1. PICK i \in DOMAIN rcv : x = rcv[i]
    BY DEF ToSet
  <2>2. i \in DOMAIN more /\ more[i] = rcv[i]
    BY <1>1
  <2> QED
    BY <2>1, <2>2 DEF ToSet
<1>4. t \in ToSet(more)
  <2>1. Len(rcv) + 1 \in DOMAIN more
    BY <1>1
  <2> QED
    BY <1>1, <2>1 DEF ToSet
<1> QED
  BY <1>2, <1>3, <1>4

LEMMA ReceivedType ==
  ASSUME NEW rcv \in Seq(Stamps)
  PROVE  ToSet(rcv) \in SUBSET Nat /\ ToSet(rcv) \in SUBSET Stamps
<1>1. \A i \in DOMAIN rcv : rcv[i] \in Stamps
  OBVIOUS
<1> QED
  BY <1>1, SyncAssumption DEF ToSet

\* The part of the chain that a step of each kind has to restore.
LEMMA ChainPushImu ==
  ASSUME ChainInv, Chain, TypeOK', NEW t \in Stamps, PushImu(t), ~evicted'
  PROVE  Chain'
<1> DEFINE R == ToSet(received)
           rel == InRelease(queue_, group)
           m == [t |-> t, tl |-> epoch_]
<1>a. /\ MutexInv /\ TypeOK
  BY DEF ChainInv, OrderInv, MutexInv
<1>b. /\ imu_ \in Seq(Message) /\ havePrev_ \in BOOLEAN /\ epoch_ \in Timelines
      /\ received \in Seq(Stamps) /\ out \in Seq(Group)
  BY <1>a DEF TypeOK, AtMostOne
<1>c. R \in SUBSET Nat /\ t \in Nat /\ m \in Message /\ m.t = t
  BY <1>b, ReceivedType, SyncAssumption DEF Message
<1>d. rel \in Seq(Group) /\ anchor \in AtMostOne(Nat) /\ outFrom \in AtMostOne(Nat)
  BY <1>a, BacklogIs, AnchorIsNatural
<1>e. /\ Reached(anchor, R) /\ Linked(rel, anchor, R)
      /\ Retained(imu_, havePrev_, Newest(rel, anchor), R)
      /\ \A i \in DOMAIN out : outEpoch = epoch_ => Complete(out[i], outFrom, R)
  BY DEF Chain
<1>1. imu_' = Append(imu_, m) /\ received' = Append(received, t)
  BY DEF PushImu, BufferImu
<1>2. UNCHANGED <<queue_, group, anchor, havePrev_, epoch_, out, outEpoch, outFrom>>
  BY DEF PushImu, outVars
<1>3. \A s \in R : s <= t
  BY DEF PushImu, ToSet
<1>4. ToSet(received') = R \cup {t}
  BY <1>1, <1>b, ReceivedGrows
<1> HIDE DEF R, m
<1>5. Linked(rel, anchor, R \cup {t})
  BY <1>c, <1>d, <1>e, <1>3, LinkedGrows
<1>6. Reached(anchor, R \cup {t})
  BY <1>e DEF Reached
<1> DEFINE last == Newest(rel, anchor)
<1>7. last \in AtMostOne(Nat) /\ Reached(last, R) /\ Retained(imu_, havePrev_, last, R)
  BY <1>c, <1>d, <1>e, NewestIs, NewestReached
<1> HIDE DEF last
<1>8. Retained(imu_', havePrev_, last, R \cup {t})
  BY <1>b, <1>c, <1>1, <1>3, <1>7, RetainedGrows
<1>9. ASSUME NEW i \in DOMAIN out, outEpoch = epoch_ PROVE Complete(out[i], outFrom, R \cup {t})
  <2> DEFINE g == out[i]
  <2>1. g \in Group /\ Complete(g, outFrom, R)
    BY <1>b, <1>e, <1>9
  <2> HIDE DEF g
  <2>2. Complete(g, outFrom, R \cup {t})
    BY <1>c, <1>d, <1>3, <2>1, CompleteGrows
  <2> QED
    BY <2>2 DEF g
<1> QED
  BY <1>2, <1>4, <1>5, <1>6, <1>8, <1>9 DEF Chain, last

LEMMA ChainSyncNext ==
  ASSUME ChainInv, Chain, TypeOK', NEW p \in Producers, SyncNext(p)
  PROVE  Chain'
<1> DEFINE R == ToSet(received)
           g == NextGroup(imu_, frames_, havePrev_)
           last == Newest(queue_, anchor)
<1>a. /\ MutexInv /\ TypeOK /\ Risen(Backlog, anchor, newest)
  BY DEF ChainInv, OrderInv, MutexInv
<1>b. /\ imu_ \in Seq(Message) /\ frames_ \in Seq(Message) /\ havePrev_ \in BOOLEAN
      /\ received \in Seq(Stamps) /\ queue_ \in Seq(Group)
  BY <1>a DEF TypeOK
<1>c. R \in SUBSET Nat
  BY <1>b, ReceivedType
<1>d. anchor \in AtMostOne(Nat)
  BY <1>a, AnchorIsNatural
<1>e. /\ g \in Group /\ InRelease(queue_, group) = queue_
      /\ InRelease(queue_, group)' = Append(queue_, g)
      /\ frames_ # <<>> /\ Head(frames_) = frames_[1] /\ g.frame = frames_[1]
  BY <1>a, SyncNextMoves
<1>f. /\ Reached(anchor, R) /\ Linked(queue_, anchor, R)
      /\ Retained(imu_, havePrev_, last, R)
      /\ \A i \in DOMAIN out : outEpoch = epoch_ => Complete(out[i], outFrom, R)
  BY <1>e DEF Chain
<1>1. UNCHANGED <<anchor, epoch_, out, outEpoch, outFrom, received>>
  BY DEF SyncNext, outVars, history
<1>2. havePrev_' = TRUE /\ imu_' = Trim(imu_, frames_[1].t) /\ Releasable(imu_, frames_)
  BY <1>e DEF SyncNext
<1>3. Risen(Line(queue_, frames_), anchor, newest)
  BY <1>a, <1>e, BacklogIs
<1>4. last # <<>> => last[1] <= frames_[1].t
  BY <1>b, <1>d, <1>e, <1>3, NewestBelow
<1>5. last \in AtMostOne(Nat)
  BY <1>b, <1>d, NewestIs
<1> HIDE DEF R, last
<1>6. /\ Complete(g, last, R)
      /\ StampSet(Trim(imu_, frames_[1].t)) = KeptFrom(frames_[1].t, R)
      /\ Rising(Trim(imu_, frames_[1].t))
  BY <1>b, <1>c, <1>2, <1>4, <1>5, <1>f, NextIsComplete DEF Retained
<1> DEFINE more == Append(queue_, g)
<1> HIDE DEF g
<1>7. Linked(more, anchor, R) /\ Newest(more, anchor) = <<g.frame.t>>
  BY <1>b, <1>c, <1>d, <1>e, <1>f, <1>6, LinkedAppend DEF last
<1>8. Retained(imu_', havePrev_', <<frames_[1].t>>, R)
  <2>1. <<frames_[1].t>> # <<>> /\ <<frames_[1].t>>[1] = frames_[1].t
    OBVIOUS
  <2> QED
    BY <1>2, <1>6, <2>1 DEF Retained
<1> QED
  BY <1>1, <1>e, <1>f, <1>7, <1>8 DEF Chain, R

LEMMA ChainEnqueue ==
  ASSUME ChainInv, Chain, TypeOK', NEW p \in Producers, Enqueue(p)
  PROVE  Chain'
<1> DEFINE R == ToSet(received)
           r == queue_ \o group[p]
<1>a. /\ MutexInv /\ TypeOK
  BY DEF ChainInv, OrderInv, MutexInv
<1>b. R \in SUBSET Nat /\ anchor \in AtMostOne(Nat)
  BY <1>a, AnchorIsNatural, ReceivedType DEF TypeOK
<1>c. /\ r \in Seq(Group) /\ InRelease(queue_, group) = r
      /\ InRelease(queue_, group)' = queue_'
      /\ Full(r) => Len(r) >= 2 /\ queue_' = DropOldest(r)
      /\ ~Full(r) => queue_' = r
  BY <1>a, EnqueueMoves
<1>d. /\ Reached(anchor, R) /\ Linked(r, anchor, R)
      /\ Retained(imu_, havePrev_, Newest(r, anchor), R)
      /\ \A i \in DOMAIN out : outEpoch = epoch_ => Complete(out[i], outFrom, R)
  BY <1>c DEF Chain
<1>1. /\ UNCHANGED <<imu_, havePrev_, epoch_, out, outEpoch, outFrom, received>>
      /\ anchor' = IF Full(r) /\ anchor = <<>> THEN <<r[1].frame.t>> ELSE anchor
  BY DEF Enqueue, syncVars, outVars
<1>2. CASE Full(r)
  <2> DEFINE d == DropOldest(r)
             from == IF anchor = <<>> THEN <<r[1].frame.t>> ELSE anchor
  <2> HIDE DEF R, r
  <2>1. Linked(d, from, R) /\ Newest(d, from) = Newest(r, anchor) /\ Reached(from, R)
    BY <1>b, <1>c, <1>d, <1>2, LinkedDrop
  <2>2. anchor' = from /\ queue_' = d
    BY <1>1, <1>2, <1>c
  <2> HIDE DEF d, from
  <2> QED
    BY <1>1, <1>c, <1>d, <2>1, <2>2 DEF Chain, R
<1>3. CASE ~Full(r)
  <2> HIDE DEF r
  <2>1. anchor' = anchor /\ queue_' = r
    BY <1>1, <1>3, <1>c
  <2> QED
    BY <1>1, <1>c, <1>d, <2>1 DEF Chain
<1> QED
  BY <1>2, <1>3

LEMMA ChainPop ==
  ASSUME ChainInv, Chain, TypeOK', Pop
  PROVE  Chain'
<1> DEFINE R == ToSet(received)
           less == Tail(queue_)
           from == <<queue_[1].frame.t>>
<1>a. /\ MutexInv /\ TypeOK
  BY DEF ChainInv, OrderInv, MutexInv
<1>b. anchor \in AtMostOne(Nat)
  BY <1>a, AnchorIsNatural
<1>c. /\ queue_ \in Seq(Group) /\ queue_ # <<>> /\ Head(queue_) = queue_[1]
      /\ InRelease(queue_, group) = queue_ /\ InRelease(queue_, group)' = less
  BY <1>a, PopMoves
<1>d. /\ Reached(anchor, R) /\ Linked(queue_, anchor, R)
      /\ Retained(imu_, havePrev_, Newest(queue_, anchor), R)
  BY <1>c DEF Chain
<1>1. /\ UNCHANGED <<imu_, havePrev_, epoch_, received>>
      /\ anchor' = from /\ outFrom' = anchor /\ out' = <<queue_[1]>>
  BY <1>c DEF Pop, syncVars
<1>e. less = Tail(queue_) /\ from = <<queue_[1].frame.t>>
  OBVIOUS
<1> HIDE DEF R, less, from
<1>2. /\ Complete(queue_[1], anchor, R) /\ Linked(less, from, R)
      /\ Newest(less, from) = Newest(queue_, anchor)
  <2>1. queue_ \in Seq(Group) /\ queue_ # <<>> /\ Linked(queue_, anchor, R)
    BY <1>c, <1>d
  <2> QED
    BY <1>b, <2>1, LinkedTail DEF less, from
<1>3. Reached(from, R)
  <2>1. from[1] = queue_[1].frame.t
    BY DEF from
  <2> QED
    BY <1>2, <2>1 DEF Reached, Complete
<1>4. \A i \in DOMAIN out' : out'[i] = queue_[1]
  BY <1>1
<1> QED
  BY <1>1, <1>2, <1>3, <1>4, <1>c, <1>d DEF Chain, R

LEMMA EmptyChain ==
  /\ ToSet(<<>>) = {} /\ Reached(<<>>, {}) /\ Linked(<<>>, <<>>, {}) /\ Newest(<<>>, <<>>) = <<>>
  /\ Retained(<<>>, FALSE, <<>>, {})
<1>1. DOMAIN <<>> = {} /\ Len(<<>>) = 0 /\ 0 + 1 = 1
  OBVIOUS
<1>2. ToSet(<<>>) = {}
  BY <1>1 DEF ToSet
<1>3. StampSet(<<>>) = {}
  BY <1>1 DEF StampSet
<1>4. Newest(<<>>, <<>>) = <<>>
  BY <1>1 DEF Newest, Before
<1>5. Rising(<<>>)
  BY <1>1 DEF Rising
<1> QED
  BY <1>1, <1>2, <1>3, <1>4, <1>5 DEF Reached, Linked, Retained

LEMMA ChainInit == Init => ChainInv
<1> SUFFICES ASSUME Init
             PROVE  Chain /\ outEpoch <= epoch_ /\ (out # <<>> <=> pc["worker"] = "processing")
  BY OrderInit DEF ChainInv
<1>1. \A p \in Producers : pc[p] # "enqueue"
  BY DEF Init, Producers, Threads
<1>2. InRelease(queue_, group) = <<>>
  BY <1>1, MutexInit, HeldByNobody DEF Init
<1>3. /\ received = <<>> /\ anchor = <<>> /\ imu_ = <<>> /\ havePrev_ = FALSE /\ out = <<>>
      /\ outEpoch = 0 /\ epoch_ = 0 /\ pc["worker"] = "calling"
  BY DEF Init, Threads
<1>4. \A i \in DOMAIN out : FALSE
  BY <1>3
<1>5. Chain
  BY <1>2, <1>3, <1>4, EmptyChain DEF Chain
<1> QED
  BY <1>3, <1>5

\* What the worker holds, and of which timeline.
LEMMA HandedStep ==
  ASSUME ChainInv, [Next]_vars
  PROVE  outEpoch' <= epoch_' /\ (out' # <<>> <=> pc'["worker"] = "processing")
<1>a. /\ TypeOK /\ outEpoch <= epoch_ /\ (out # <<>> <=> pc["worker"] = "processing")
      /\ epoch_ \in Nat /\ outEpoch \in Nat
  BY SyncAssumption DEF ChainInv, OrderInv, MutexInv, TypeOK
<1>b. pc \in [Threads -> {"idle", "next", "enqueue", "calling", "asleep", "processing", "done"}]
  BY <1>a DEF TypeOK
<1>1. ASSUME NEW t \in Stamps, PushImu(t) \/ PushFrame(t)
      PROVE  outEpoch' <= epoch_' /\ (out' # <<>> <=> pc'["worker"] = "processing")
  BY <1>1, <1>a, <1>b DEF PushImu, PushFrame, Goto, outVars, Threads, Producers
<1>2. ASSUME NEW p \in Producers, Produce(p)
      PROVE  outEpoch' <= epoch_' /\ (out' # <<>> <=> pc'["worker"] = "processing")
  BY <1>2, <1>a, <1>b
     DEF Produce, SyncNext, ReleaseReturns, Enqueue, Woken, Goto, outVars, Threads, Producers
<1>3. ASSUME NEW p \in Producers, Reset(p)
      PROVE  outEpoch' <= epoch_' /\ (out' # <<>> <=> pc'["worker"] = "processing")
  BY <1>3, <1>a DEF Reset, outVars
<1>4. CASE Stop
  BY <1>4, <1>a, <1>b DEF Stop, NotifyAll, Woken, outVars, Threads, Producers
<1>5. CASE Pop
  <2>1. out' = <<Head(queue_)>> /\ pc' = [pc EXCEPT !["worker"] = "processing"]
        /\ outEpoch' = epoch_ /\ epoch_' = epoch_
    BY <1>5 DEF Pop, Goto
  <2>2. out' # <<>>
    BY <2>1
  <2> QED
    BY <1>a, <1>b, <2>1, <2>2 DEF Threads, Producers
<1>6. CASE Sleep \/ ReturnFalse \/ SpuriousWake
  BY <1>6, <1>a, <1>b
     DEF Sleep, ReturnFalse, SpuriousWake, Calling, Goto, outVars, Threads, Producers
<1>7. CASE Processed
  BY <1>7, <1>a, <1>b DEF Processed, Goto, Threads, Producers
<1>8. CASE UNCHANGED vars
  BY <1>8, <1>a DEF vars, outVars
<1> QED
  BY <1>1, <1>2, <1>3, <1>4, <1>5, <1>6, <1>7, <1>8 DEF Next, Work, Terminated

LEMMA ChainStep == ChainInv /\ [Next]_vars => ChainInv'
<1> SUFFICES ASSUME ChainInv, [Next]_vars PROVE ~evicted' => Chain'
  BY OrderStep, HandedStep DEF ChainInv
<1>a. MutexInv /\ TypeOK' /\ OrderInv /\ (~evicted => Chain) /\ outEpoch <= epoch_ /\ TypeOK
  BY TypeStep DEF ChainInv, OrderInv, MutexInv
<1> SUFFICES ASSUME ~evicted' PROVE Chain'
  OBVIOUS
<1>1. ASSUME NEW t \in Stamps, PushImu(t) PROVE Chain'
  <2>1. ~evicted
    BY <1>1 DEF PushImu
  <2> QED
    BY <1>1, <1>a, <2>1, ChainPushImu
<1>2. ASSUME NEW t \in Stamps, PushFrame(t) PROVE Chain'
  <2>1. InRelease(queue_', group') = InRelease(queue_, group)
    BY <1>a, <1>2, PushFrameMoves
  <2> QED
    BY <1>2, <1>a, <2>1 DEF PushFrame, outVars, Chain
<1>3. ASSUME NEW p \in Producers, SyncNext(p) PROVE Chain'
  <2>1. ~evicted
    BY <1>3 DEF SyncNext, history
  <2> QED
    BY <1>3, <1>a, <2>1, ChainSyncNext
<1>4. ASSUME NEW p \in Producers, Enqueue(p) PROVE Chain'
  <2>1. ~evicted
    BY <1>4 DEF Enqueue
  <2> QED
    BY <1>4, <1>a, <2>1, ChainEnqueue
<1>5. CASE Pop
  <2>1. ~evicted
    BY <1>5 DEF Pop
  <2> QED
    BY <1>5, <1>a, <2>1, ChainPop
<1>6. ASSUME NEW p \in Producers, Reset(p) PROVE Chain'
  <2>1. InRelease(queue_', group') = <<>>
    BY <1>a, <1>6, ResetMoves
  <2>2. /\ received' = <<>> /\ anchor' = <<>> /\ imu_' = <<>> /\ havePrev_' = FALSE
        /\ outEpoch' = outEpoch /\ epoch_' = epoch_ + 1
    BY <1>6 DEF Reset, Clear, outVars
  <2>3. outEpoch' # epoch_'
    <3>1. epoch_ \in Nat /\ outEpoch \in Nat
      BY <1>a, SyncAssumption DEF TypeOK
    <3> QED
      BY <1>a, <2>2, <3>1
  <2> QED
    BY <2>1, <2>2, <2>3, EmptyChain DEF Chain
<1>7. CASE Processed
  <2>1. Chain
    BY <1>7, <1>a DEF Processed, history
  <2>2. UNCHANGED <<imu_, havePrev_, queue_, group, received, anchor>> /\ out' = <<>>
    BY <1>7 DEF Processed, syncVars, history
  <2>3. \A i \in DOMAIN out' : FALSE
    BY <2>2
  <2> QED
    BY <2>1, <2>2, <2>3 DEF Chain
<1>8. CASE UNCHANGED <<imu_, havePrev_, queue_, group, received, anchor, epoch_, out, outEpoch,
                       outFrom, evicted>>
  <2>1. Chain
    BY <1>8, <1>a
  <2> QED
    BY <1>8, <2>1 DEF Chain
<1> QED
  BY <1>1, <1>2, <1>3, <1>4, <1>5, <1>6, <1>7, <1>8
     DEF Next, Produce, Work, Terminated, ReleaseReturns, Stop, Sleep, ReturnFalse,
         SpuriousWake, vars, syncVars, outVars, history

\* The stamps of a complete interval, read as the property reads them.
LEMMA CompleteInterval ==
  ASSUME NEW g \in Group, NEW from, NEW R, Complete(g, from, R)
  PROVE  /\ \E s \in R : s >= g.frame.t
         /\ IsSorted(StampsOf(g.imu), <=)
         /\ ToSet(StampsOf(g.imu)) = IF from = <<>> THEN {} ELSE SpanOf(from[1], g.frame.t, R)
         /\ ToSet(StampsOf(g.imu)) = {m.t : m \in ToSet(g.imu)}
<1> DEFINE m == g.imu
           s == StampsOf(m)
<1>1. m \in Seq(Message)
  BY GroupType
<1>2. DOMAIN m = 1 .. Len(m) /\ Len(m) \in Nat /\ \A i \in DOMAIN m : m[i].t \in Nat
  BY <1>1, StampsAreNatural
<1>3. Complete(g, from, R) /\ m = g.imu
  OBVIOUS
<1> HIDE DEF m
<1>4. s = [i \in 1 .. Len(m) |-> m[i].t]
  BY <1>2 DEF StampsOf, Stamp
<1>5. Len(s) = Len(m) /\ DOMAIN s = DOMAIN m /\ \A i \in DOMAIN m : s[i] = m[i].t
  BY <1>2, <1>4
<1> HIDE DEF s
<1>6. ToSet(s) = StampSet(m)
  <2>1. ASSUME NEW x \in ToSet(s) PROVE x \in StampSet(m)
    <3>1. PICK i \in DOMAIN s : x = s[i]
      BY DEF ToSet
    <3> QED
      BY <1>5, <3>1 DEF StampSet
  <2>2. ASSUME NEW x \in StampSet(m) PROVE x \in ToSet(s)
    <3>1. PICK i \in DOMAIN m : x = m[i].t
      BY DEF StampSet
    <3> QED
      BY <1>5, <3>1 DEF ToSet
  <2> QED
    BY <2>1, <2>2
<1>7. {x.t : x \in ToSet(m)} = StampSet(m)
  <2>1. ASSUME NEW x \in {y.t : y \in ToSet(m)} PROVE x \in StampSet(m)
    <3>1. PICK y \in ToSet(m) : x = y.t
      OBVIOUS
    <3>2. PICK i \in DOMAIN m : y = m[i]
      BY DEF ToSet
    <3> QED
      BY <3>1, <3>2 DEF StampSet
  <2>2. ASSUME NEW x \in StampSet(m) PROVE x \in {y.t : y \in ToSet(m)}
    <3>1. PICK i \in DOMAIN m : x = m[i].t
      BY DEF StampSet
    <3>2. m[i] \in ToSet(m)
      BY DEF ToSet
    <3> QED
      BY <3>1, <3>2
  <2> QED
    BY <2>1, <2>2
<1>8. CASE from = <<>>
  <2>1. m = <<>>
    BY <1>3, <1>8 DEF Complete
  <2>2. StampSet(m) = {} /\ Len(s) = 0
    BY <1>5, <2>1 DEF StampSet
  <2>3. IsSorted(s, <=)
    BY <2>2 DEF IsSorted
  <2>4. \E r \in R : r >= g.frame.t
    BY <1>3 DEF Complete
  <2> QED
    BY <1>6, <1>7, <1>8, <2>2, <2>3, <2>4 DEF m, s
<1>9. CASE from # <<>>
  <2>1. Rising(m) /\ StampSet(m) = SpanOf(from[1], g.frame.t, R)
    BY <1>3, <1>9 DEF Complete
  <2>2. IsSorted(s, <=)
    <3> SUFFICES ASSUME NEW i \in 1 .. Len(s), NEW j \in 1 .. Len(s), i < j PROVE s[i] <= s[j]
      BY DEF IsSorted
    <3>1. i \in DOMAIN m /\ j \in DOMAIN m
      BY <1>2, <1>5
    <3> QED
      BY <1>5, <2>1, <3>1 DEF Rising
  <2>3. \E r \in R : r >= g.frame.t
    BY <1>3 DEF Complete
  <2> QED
    BY <1>6, <1>7, <1>9, <2>1, <2>2, <2>3 DEF m, s
<1> QED
  BY <1>8, <1>9

\* Whatever was dropped on the way, the group the worker is given covers the time since the
\* group before it, sample for sample, unless the leak guard discarded a sample.
THEOREM ImuChained == Safety => []ImuComplete
<1>1. ChainInv => ImuComplete
  <2> SUFFICES ASSUME ChainInv, out # <<>>, outEpoch = epoch_, ~evicted
               PROVE  LET g == out[1]
                          handedImu == StampsOf(g.imu)
                      IN  /\ \E s \in ToSet(received) : s >= g.frame.t
                          /\ IsSorted(handedImu, <=)
                          /\ ToSet(handedImu) = IF outFrom = <<>> THEN {}
                                                ELSE Span(outFrom[1], g.frame.t)
    BY DEF ImuComplete
  <2> DEFINE g == out[1]
             R == ToSet(received)
  <2>1. out \in Seq(Group)
    BY DEF ChainInv, OrderInv, MutexInv, TypeOK, AtMostOne
  <2>2. 1 \in DOMAIN out /\ g \in Group
    BY <2>1
  <2>3. Complete(g, outFrom, R)
    BY <2>2 DEF ChainInv, Chain
  <2>4. Span(outFrom[1], g.frame.t) = SpanOf(outFrom[1], g.frame.t, R)
    BY DEF Span, SpanOf
  <2> HIDE DEF g, R
  <2>5. /\ \E s \in R : s >= g.frame.t
        /\ IsSorted(StampsOf(g.imu), <=)
        /\ ToSet(StampsOf(g.imu)) = IF outFrom = <<>> THEN {} ELSE SpanOf(outFrom[1], g.frame.t, R)
    BY <2>2, <2>3, CompleteInterval
  <2> QED
    BY <2>4, <2>5 DEF g, R
<1> QED
  BY <1>1, ChainInit, ChainStep, PTL DEF Safety

-------------------------------------------------------------------------------
(***************************************************************************)
(* The queue implements the stream: as long as the leak guard discards no    *)
(* sample, every step of the queue is a step of FrameStream or none.         *)
(***************************************************************************)
Handed(o) == [i \in DOMAIN o |-> [frame |-> o[i].frame, imu |-> {m.t : m \in ToSet(o[i].imu)}]]

StreamVars == <<Backlog, ToSet(received), anchor, Handed(out), epoch_, stopped_>>

LEMMA HandedIs ==
  /\ Handed(<<>>) = <<>>
  /\ \A g : Handed(<<g>>) = <<[frame |-> g.frame, imu |-> {m.t : m \in ToSet(g.imu)}]>>
  /\ \A o \in AtMostOne(Group) : o # <<>> => Handed(o) # <<>>
<1>1. Handed(<<>>) = <<>>
  BY DEF Handed
<1>2. ASSUME NEW g
      PROVE  Handed(<<g>>) = <<[frame |-> g.frame, imu |-> {m.t : m \in ToSet(g.imu)}]>>
  <2> DEFINE e == [frame |-> g.frame, imu |-> {m.t : m \in ToSet(g.imu)}]
             o == <<g>>
  <2>1. DOMAIN o = 1 .. 1 /\ o[1] = g
    OBVIOUS
  <2> HIDE DEF o
  <2>2. Handed(o) = [i \in 1 .. 1 |-> [frame |-> o[i].frame, imu |-> {m.t : m \in ToSet(o[i].imu)}]]
    BY <2>1 DEF Handed
  <2>3. \A i \in 1 .. 1 : [frame |-> o[i].frame, imu |-> {m.t : m \in ToSet(o[i].imu)}] = e
    <3>1. \A i \in 1 .. 1 : o[i] = g
      BY <2>1
    <3> QED
      BY <3>1
  <2> HIDE DEF e
  <2>4. Handed(o) = [i \in 1 .. 1 |-> e]
    BY <2>2, <2>3
  <2>5. [i \in 1 .. 1 |-> e] = <<e>>
    OBVIOUS
  <2> QED
    BY <2>4, <2>5 DEF e, o
<1>3. ASSUME NEW o \in AtMostOne(Group), o # <<>> PROVE Handed(o) # <<>>
  <2>1. o \in Seq(Group) /\ 1 \in DOMAIN o
    BY <1>3 DEF AtMostOne
  <2>2. DOMAIN Handed(o) = DOMAIN o
    BY DEF Handed
  <2>3. DOMAIN <<>> = {}
    OBVIOUS
  <2> QED
    BY <2>1, <2>2, <2>3
<1> QED
  BY <1>1, <1>2, <1>3

LEMMA CountUpTo == ASSUME NEW n \in Nat PROVE IsFiniteSet(1 .. n) /\ Cardinality(1 .. n) = n
<1>1. 1 \in Int /\ n \in Int
  OBVIOUS
<1>2. IsFiniteSet(1 .. n) /\ Cardinality(1 .. n) = IF 1 > n THEN 0 ELSE n - 1 + 1
  BY <1>1, FS_Interval, Zenon
<1> QED
  BY <1>2

LEMMA SameCardinality == \A S : Stream!Cardinality(S) = Cardinality(S)
  BY DEF Stream!Cardinality, Cardinality

\* Every group in release is covered, so a full queue means too many covered frames.
LEMMA TooManyCovered ==
  ASSUME NEW rel \in Seq(Group), NEW fr \in Seq(Message), NEW anc, NEW R, Linked(rel, anc, R),
         Len(rel) > Capacity
  PROVE  Cardinality({i \in DOMAIN Line(rel, fr) : \E s \in R : s >= Line(rel, fr)[i].t}) > Capacity
<1> DEFINE l == Line(rel, fr)
           C == {i \in DOMAIN l : \E s \in R : s >= l[i].t}
<1>1. /\ l \in Seq(Message) /\ Len(l) = Len(rel) + Len(fr) /\ Len(rel) \in Nat /\ Len(fr) \in Nat
      /\ \A i \in 1 .. Len(rel) : l[i] = rel[i].frame
  BY LineElements
<1> HIDE DEF l
<1>2. DOMAIN l = 1 .. Len(l) /\ Len(l) \in Nat /\ DOMAIN rel = 1 .. Len(rel)
  BY <1>1
<1>3. ASSUME NEW i \in 1 .. Len(rel) PROVE i \in C
  <2>1. i \in DOMAIN l /\ i \in DOMAIN rel /\ l[i] = rel[i].frame
    BY <1>1, <1>2
  <2>2. \E s \in R : s >= rel[i].frame.t
    BY <2>1 DEF Linked, Complete
  <2> QED
    BY <2>1, <2>2
<1>4. C \subseteq 1 .. Len(l)
  BY <1>2
<1> HIDE DEF C
<1>5. IsFiniteSet(1 .. Len(l)) /\ IsFiniteSet(1 .. Len(rel))
  BY <1>1, <1>2, CountUpTo
<1>6. Cardinality(1 .. Len(rel)) = Len(rel)
  BY <1>1, CountUpTo
<1>7. IsFiniteSet(C)
  BY <1>4, <1>5, FS_Subset
<1>8. 1 .. Len(rel) \subseteq C
  BY <1>3
<1>9. Cardinality(1 .. Len(rel)) <= Cardinality(C)
  BY <1>7, <1>8, FS_Subset
<1>10. Cardinality(C) \in Nat
  BY <1>7, FS_CardinalityType
<1>11. Cardinality(C) > Capacity
  BY <1>1, <1>6, <1>9, <1>10, QueueAssumption
<1> QED
  BY <1>11 DEF C, l

LEMMA StreamInit == Init => Stream!Init
<1> SUFFICES ASSUME Init PROVE Stream!Init
  OBVIOUS
<1>1. \A p \in Producers : pc[p] # "enqueue"
  BY DEF Init, Producers, Threads
<1>2. InRelease(queue_, group) = <<>> /\ frames_ = <<>>
  BY <1>1, MutexInit, HeldByNobody DEF Init
<1>3. Backlog = Line(<<>>, <<>>)
  BY <1>2, TypeInit, BacklogIs
<1>4. Line(<<>>, <<>>) = <<>>
  BY EmptyLine
<1>5. ToSet(received) = {} /\ Handed(out) = <<>>
  BY EmptyChain, HandedIs DEF Init
<1>6. anchor = <<>> /\ epoch_ = 0 /\ stopped_ = FALSE
  BY DEF Init
<1> QED
  BY <1>3, <1>4, <1>5, <1>6 DEF Stream!Init, Handed

\* A release and a wake-up are no step of the stream; every other action is one.
LEMMA StreamStep ==
  ASSUME ChainInv, TypeOK', ~evicted, [Next]_vars
  PROVE  [Stream!Next]_(Stream!vars)
<1>a. MutexInv /\ TypeOK /\ Chain /\ (out # <<>> <=> pc["worker"] = "processing")
  BY DEF ChainInv, OrderInv, MutexInv
<1>b. UNCHANGED StreamVars => UNCHANGED Stream!vars
  BY DEF StreamVars, Stream!vars, Handed
<1>1. ASSUME NEW t \in Stamps, PushImu(t) PROVE Stream!Sample(t)
  <2>1. received \in Seq(Stamps) /\ received' = Append(received, t)
    BY <1>a, <1>1 DEF TypeOK, PushImu
  <2>2. ToSet(received') = ToSet(received) \cup {t}
    BY <2>1, ReceivedGrows
  <2>3. UNCHANGED <<queue_, group, frames_, anchor, epoch_, out, stopped_>> /\ stopped_ = FALSE
    BY <1>a, <1>1 DEF PushImu, Accepting, outVars, TypeOK
  <2> QED
    BY <2>2, <2>3 DEF Stream!Sample, Backlog
<1>2. ASSUME NEW t \in Stamps, PushFrame(t) PROVE \E f \in Message : Stream!Frame(f)
  <2> DEFINE f == [t |-> t, tl |-> epoch_]
  <2>1. f \in Message /\ Backlog' = Append(Backlog, f) /\ f.tl = epoch_
    BY <1>a, <1>2, PushFrameMoves
  <2>2. UNCHANGED <<anchor, epoch_, out, stopped_, received>> /\ stopped_ = FALSE
    BY <1>a, <1>2 DEF PushFrame, Accepting, outVars, TypeOK
  <2> HIDE DEF f
  <2>3. Stream!Frame(f)
    BY <2>1, <2>2 DEF Stream!Frame
  <2> QED
    BY <2>1, <2>3
<1>3. ASSUME NEW p \in Producers, SyncNext(p) PROVE UNCHANGED StreamVars
  <2>1. Backlog' = Backlog
    BY <1>a, <1>3, SyncNextMoves
  <2> QED
    BY <1>3, <2>1 DEF SyncNext, outVars, history, StreamVars
<1>4. ASSUME NEW p \in Producers, Enqueue(p) PROVE Stream!DropOldest \/ UNCHANGED StreamVars
  <2> DEFINE r == queue_ \o group[p]
  <2>1. /\ anchor' = IF Full(r) /\ anchor = <<>> THEN <<r[1].frame.t>> ELSE anchor
        /\ UNCHANGED <<epoch_, out, stopped_, received>>
    BY <1>4 DEF Enqueue, outVars
  <2>2. CASE ~Full(r)
    <3>1. Backlog' = Backlog
      BY <1>a, <1>4, <2>2, EnqueueMoves
    <3> QED
      BY <2>1, <2>2, <3>1 DEF StreamVars
  <2>3. CASE Full(r)
    <3>0. Len(r) > Capacity
      BY <2>3 DEF Full
    <3> HIDE DEF r
    <3>1. Backlog # <<>> /\ Backlog' = Tail(Backlog) /\ Head(Backlog) = r[1].frame
      BY <1>a, <1>4, <2>3, EnqueueMoves DEF r
    <3>1a. r \in Seq(Group) /\ InRelease(queue_, group) = r
      BY <1>a, <1>4, EnqueueMoves DEF r
    <3>2. Backlog = Line(r, frames_) /\ frames_ \in Seq(Message)
      BY <1>a, <3>1a, BacklogIs DEF TypeOK
    <3>3. Linked(r, anchor, ToSet(received))
      BY <1>a, <3>1a DEF Chain
    <3>4. Cardinality({i \in DOMAIN Backlog : \E s \in ToSet(received) : s >= Backlog[i].t}) > Capacity
      BY <3>0, <3>1a, <3>2, <3>3, TooManyCovered
    <3>5. Stream!Cardinality({i \in DOMAIN Backlog : Stream!Covered(Backlog[i])}) > Capacity
      BY <3>4, SameCardinality, Zenon DEF Stream!Covered
    <3>6. anchor' = IF anchor = <<>> THEN <<Head(Backlog).t>> ELSE anchor
      BY <2>1, <2>3, <3>1
    <3> QED
      BY <2>1, <3>1, <3>5, <3>6 DEF Stream!DropOldest
  <2> QED
    BY <2>2, <2>3
<1>5. ASSUME Pop PROVE Stream!HandOut
  <2> DEFINE R == ToSet(received)
             g == queue_[1]
  <2>1. /\ queue_ \in Seq(Group) /\ queue_ # <<>> /\ Head(queue_) = g
        /\ InRelease(queue_, group) = queue_
        /\ Backlog # <<>> /\ Backlog' = Tail(Backlog) /\ Head(Backlog) = g.frame
    BY <1>a, <1>5, PopMoves
  <2>2. /\ out' = <<g>> /\ anchor' = <<g.frame.t>>
        /\ UNCHANGED <<epoch_, stopped_, received>>
    BY <1>5, <2>1 DEF Pop
  <2>3. out = <<>>
    BY <1>a, <1>5 DEF Pop, Calling
  <2>4. Complete(g, anchor, R)
    <3>1. 1 \in DOMAIN queue_ /\ Before(queue_, anchor, 1) = anchor
      BY <2>1 DEF Before
    <3> QED
      BY <1>a, <2>1, <3>1 DEF Chain, Linked
  <2>5. g \in Group
    BY <2>1
  <2> HIDE DEF g
  <2>6. /\ \E s \in R : s >= g.frame.t
        /\ {m.t : m \in ToSet(g.imu)}
             = IF anchor = <<>> THEN {} ELSE SpanOf(anchor[1], g.frame.t, R)
    BY <2>4, <2>5, CompleteInterval
  <2>7. {m.t : m \in ToSet(g.imu)} = IF anchor = <<>> THEN {} ELSE Stream!Between(anchor[1], g.frame.t)
    BY <2>6 DEF Stream!Between, SpanOf
  <2>8. Handed(out) = <<>>
        /\ Handed(out') = <<[frame |-> g.frame, imu |-> {m.t : m \in ToSet(g.imu)}]>>
    BY <2>2, <2>3, HandedIs
  <2>9. Stream!Covered(g.frame)
    BY <2>6 DEF Stream!Covered
  <2>10. Handed(out') = <<[frame |-> g.frame,
                           imu |-> IF anchor = <<>> THEN {} ELSE Stream!Between(anchor[1], g.frame.t)]>>
    BY <2>7, <2>8
  <2>11. Stream!HandOut
    BY <2>1, <2>2, <2>8, <2>9, <2>10, Zenon DEF Stream!HandOut, Handed
  <2> QED
    BY <2>11
<1>6. ASSUME Processed PROVE Stream!Finish
  <2>1. out # <<>> /\ out' = <<>> /\ out \in AtMostOne(Group)
    BY <1>a, <1>6 DEF Processed, TypeOK
  <2>2. UNCHANGED <<queue_, group, frames_, anchor, epoch_, stopped_, received>>
    BY <1>6 DEF Processed, syncVars, history
  <2>3. Handed(out) # <<>> /\ Handed(out') = <<>>
    BY <2>1, HandedIs
  <2>4. Stream!Finish
    BY <2>2, <2>3 DEF Stream!Finish, Backlog, Handed
  <2> QED
    BY <2>4
<1>7. ASSUME NEW p \in Producers, Reset(p) PROVE Stream!Restart
  <2>1. Backlog' = <<>>
    BY <1>a, <1>7, ResetMoves
  <2>2. /\ epoch_' = epoch_ + 1 /\ ToSet(received') = {} /\ anchor' = <<>>
        /\ UNCHANGED <<out, stopped_>>
    BY <1>7, EmptyChain DEF Reset, outVars
  <2> QED
    BY <2>1, <2>2 DEF Stream!Restart
<1>8. ASSUME Stop PROVE Stream!Close
  <2>1. stopped_' = TRUE /\ UNCHANGED <<queue_, group, frames_, anchor, epoch_, received, out>>
    BY <1>8 DEF Stop, syncVars, outVars, history
  <2> QED
    BY <2>1 DEF Stream!Close, Backlog
<1>9. ASSUME UNCHANGED <<queue_, group, frames_, anchor, epoch_, stopped_, received, out>>
      PROVE  UNCHANGED StreamVars
  BY <1>9 DEF StreamVars, Backlog
<1> QED
  BY <1>1, <1>2, <1>3, <1>4, <1>5, <1>6, <1>7, <1>8, <1>9, <1>b
     DEF Stream!Next, Next, Produce, Work, Terminated, ReleaseReturns, Sleep, ReturnFalse,
         SpuriousWake, vars, syncVars, outVars, history

\* For any number of producers' steps, any capacity and any interleaving, the queue hands the
\* worker what the abstract stream promises.
THEOREM StreamImplemented == Safety /\ []~evicted => ImplementsStream
<1>1. ChainInv => TypeOK
  BY DEF ChainInv, OrderInv, MutexInv
<1>2. ChainInv /\ ChainInv' /\ ~evicted /\ [Next]_vars => [Stream!Next]_(Stream!vars)
  <2> SUFFICES ASSUME ChainInv, ChainInv', ~evicted, [Next]_vars PROVE [Stream!Next]_(Stream!vars)
    OBVIOUS
  <2>1. TypeOK'
    BY <1>1, PTL
  <2> QED
    BY <2>1, StreamStep
<1> QED
  BY <1>2, ChainInit, ChainStep, StreamInit, PTL DEF Safety, ImplementsStream, Stream!Spec

\* The guard cannot fire while fewer samples than the buffer holds have been pushed.
RoomInv == TypeOK /\ ~evicted /\ Len(imu_) <= Len(received) /\ Len(received) <= MaxSamples

LEMMA RoomStep ==
  ASSUME MaxSamples <= MaxImuBuffer, RoomInv, TypeOK', [Next]_vars
  PROVE  ~evicted' /\ Len(imu_') <= Len(received') /\ Len(received') <= MaxSamples
<1>a. /\ TypeOK /\ ~evicted /\ Len(imu_) <= Len(received) /\ Len(received) <= MaxSamples
      /\ imu_ \in Seq(Message) /\ received \in Seq(Stamps)
      /\ imu_' \in Seq(Message) /\ received' \in Seq(Stamps)
  BY DEF RoomInv, TypeOK
<1>b. /\ Len(imu_) \in Nat /\ Len(received) \in Nat /\ Len(imu_') \in Nat /\ Len(received') \in Nat
      /\ MaxSamples \in Nat /\ MaxImuBuffer \in Nat
  BY <1>a, LenProperties, SyncAssumption, QueueAssumption
<1>1. ASSUME NEW t \in Stamps, PushImu(t)
      PROVE  ~evicted' /\ Len(imu_') <= Len(received') /\ Len(received') <= MaxSamples
  <2>1. Len(received) < MaxSamples /\ received' = Append(received, t)
    BY <1>1 DEF PushImu
  <2>2. ~Overflows(imu_)
    BY <1>a, <1>b, <2>1 DEF Overflows
  <2>3. ~evicted'
    BY <1>1, <1>a, <2>2 DEF PushImu
  <2> DEFINE m == [t |-> t, tl |-> epoch_]
  <2>4. imu_' = Append(imu_, m) /\ m \in Message
    BY <1>1, <1>a, <2>2 DEF PushImu, BufferImu, Message, TypeOK
  <2> HIDE DEF m
  <2>5. Len(imu_') = Len(imu_) + 1
    BY <1>a, <2>4, AppendedAt
  <2>6. Len(received') = Len(received) + 1
    BY <1>a, <2>1, AppendedAt
  <2> QED
    BY <1>a, <1>b, <2>1, <2>3, <2>5, <2>6
<1>2. ASSUME NEW p \in Producers, SyncNext(p)
      PROVE  ~evicted' /\ Len(imu_') <= Len(received') /\ Len(received') <= MaxSamples
  <2>1. evicted' = evicted /\ received' = received /\ imu_ # <<>>
        /\ imu_' = Trim(imu_, Head(frames_).t)
    BY <1>2 DEF SyncNext, history, Releasable
  <2>2. PICK k \in 1 .. Len(imu_) : imu_' = SubSeq(imu_, k, Len(imu_))
    BY <1>a, <2>1, TrimIsTail
  <2>3. Len(imu_) \in k .. Len(imu_)
    BY <1>b
  <2>4. Len(imu_') = Len(imu_) - k + 1
    BY <1>a, <2>2, <2>3, Slice
  <2> QED
    BY <1>a, <1>b, <2>1, <2>2, <2>4
<1>3. ASSUME NEW p \in Producers, Reset(p)
      PROVE  ~evicted' /\ Len(imu_') <= Len(received') /\ Len(received') <= MaxSamples
  <2>1. imu_' = <<>> /\ received' = <<>> /\ evicted' = FALSE
    BY <1>3 DEF Reset, Clear
  <2>2. Len(<<>>) = 0
    OBVIOUS
  <2> QED
    BY <1>b, <2>1, <2>2
<1>4. ASSUME UNCHANGED <<imu_, received, evicted>>
      PROVE  ~evicted' /\ Len(imu_') <= Len(received') /\ Len(received') <= MaxSamples
  BY <1>4, <1>a
<1> QED
  BY <1>1, <1>2, <1>3, <1>4
     DEF Next, Produce, Work, Terminated, PushFrame, ReleaseReturns, Enqueue, Stop, Pop, Sleep,
         ReturnFalse, SpuriousWake, Processed, vars, syncVars, outVars, history

\* With room for every sample of a timeline the guard never discards one, and the queue
\* implements the stream without a proviso.
THEOREM RoomyQueueImplements ==
  ASSUME MaxSamples <= MaxImuBuffer
  PROVE  Spec => ImplementsStream
<1>1. Init => RoomInv
  <2> SUFFICES ASSUME Init PROVE RoomInv
    OBVIOUS
  <2>1. Len(imu_) = 0 /\ Len(received) = 0 /\ ~evicted
    BY DEF Init
  <2> QED
    BY <2>1, TypeInit, QueueAssumption DEF RoomInv
<1>2. RoomInv /\ [Next]_vars => RoomInv'
  <2> SUFFICES ASSUME RoomInv, [Next]_vars PROVE RoomInv'
    OBVIOUS
  <2>1. TypeOK'
    BY TypeStep DEF RoomInv
  <2>2. ~evicted' /\ Len(imu_') <= Len(received') /\ Len(received') <= MaxSamples
    BY <2>1, RoomStep
  <2> QED
    BY <2>1, <2>2 DEF RoomInv
<1>3. RoomInv => ~evicted
  BY DEF RoomInv
<1> QED
  BY <1>1, <1>2, <1>3, StreamImplemented, PTL DEF Spec, Safety

===============================================================================
