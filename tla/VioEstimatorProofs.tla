-------------------------- MODULE VioEstimatorProofs --------------------------
(***************************************************************************)
(* Proofs about VioEstimator, for every setting of its parameters: the types,  *)
(* the state and its time base, the window's order, the units of the map, the  *)
(* pace of the attempts, when a visual init gives up, and the lifecycle the    *)
(* caller is promised.                                                        *)
(***************************************************************************)
EXTENDS VioEstimator, StridesProofs

-------------------------------------------------------------------------------
(***************************************************************************)
(* The extremes of a set, and the window's push.                             *)
(***************************************************************************)
LEMMA MinOf ==
  ASSUME NEW S \in SUBSET Nat, S # {}
  PROVE  Min(S) \in S /\ \A k \in S : Min(S) <= k
BY LeastOf DEF Min

LEMMA MinOfTwo ==
  ASSUME NEW a \in Nat, NEW b \in Nat
  PROVE  Min({a, b}) = IF a <= b THEN a ELSE b
<1>1. {a, b} \in SUBSET Nat /\ {a, b} # {}
  OBVIOUS
<1>2. Min({a, b}) \in {a, b} /\ \A k \in {a, b} : Min({a, b}) <= k
  BY <1>1, MinOf
<1> QED
  BY <1>2

LEMMA MaxOfTwo ==
  ASSUME NEW a \in Int, NEW b \in Int
  PROVE  Max({a, b}) = IF a >= b THEN a ELSE b
<1>1. \E m \in {a, b} : \A k \in {a, b} : m >= k
  OBVIOUS
<1>2. Max({a, b}) \in {a, b} /\ \A k \in {a, b} : Max({a, b}) >= k
  BY <1>1 DEF Max
<1> QED
  BY <1>2

\* push keeps the newest MaxKeyframes + 1 of them, in their order.
LEMMA PushedIsSuffix ==
  ASSUME NEW s \in Seq(Ticks), NEW t \in Ticks, NEW w, w = Pushed(s, t)
  PROVE  /\ w \in Seq(Ticks) /\ Len(w) > 0 /\ Len(w) <= MaxKeyframes + 1
         /\ w[Len(w)] = t
         /\ Len(w) <= Len(s) + 1
         /\ \A i \in 1 .. Len(w) - 1 : w[i] = s[i + (Len(s) + 1 - Len(w))]
<1> DEFINE all == Append(s, t)
           n   == Len(s)
           low == Max({1, Len(all) - MaxKeyframes})
<1>1. /\ MaxKeyframes \in Nat /\ n \in Nat /\ Len(all) = n + 1 /\ all \in Seq(Ticks)
      /\ \A i \in 1 .. n : all[i] = s[i]
      /\ all[n + 1] = t
  BY EstimatorAssumption
<1>2. low = IF 1 >= n + 1 - MaxKeyframes THEN 1 ELSE n + 1 - MaxKeyframes
  <2>1. n + 1 - MaxKeyframes \in Int
    BY <1>1
  <2> QED
    BY <1>1, <2>1, MaxOfTwo
<1>3. low \in 1 .. n + 1 /\ n + 1 - low <= MaxKeyframes
  BY <1>1, <1>2
<1>4. w = SubSeq(all, low, n + 1)
  BY <1>1 DEF Pushed
<1> HIDE DEF all, n, low
<1>5. /\ w \in Seq(Ticks) /\ Len(w) = n + 1 - low + 1
      /\ \A i \in 1 .. n + 1 - low + 1 : w[i] = all[i + low - 1]
  BY <1>1, <1>3, <1>4
<1>6. \A i \in 1 .. Len(w) : w[i] = IF i + (low - 1) = n + 1 THEN t ELSE s[i + (low - 1)]
  <2> SUFFICES ASSUME NEW i \in 1 .. Len(w)
               PROVE  w[i] = IF i + (low - 1) = n + 1 THEN t ELSE s[i + (low - 1)]
    OBVIOUS
  <2>1. w[i] = all[i + (low - 1)] /\ i + (low - 1) \in 1 .. n + 1
    BY <1>1, <1>3, <1>5
  <2> QED
    BY <2>1, <1>1
<1>7. low - 1 \in Nat /\ Len(w) + (low - 1) = n + 1
  BY <1>1, <1>3, <1>5
<1>8. w[Len(w)] = t
  BY <1>1, <1>3, <1>5, <1>6, <1>7
<1>9. Len(w) <= n + 1 /\ \A i \in 1 .. Len(w) - 1 : w[i] = s[i + (n + 1 - Len(w))]
  <2>1. Len(w) \in Nat /\ n + 1 - Len(w) = low - 1 /\ Len(w) <= n + 1
    BY <1>1, <1>3, <1>5, <1>7
  <2>2. \A i \in 1 .. Len(w) - 1 : i \in 1 .. Len(w) /\ i + (low - 1) # n + 1
    BY <1>1, <1>3, <1>7, <2>1
  <2> QED
    BY <1>6, <2>1, <2>2
<1>10. Len(w) > 0 /\ Len(w) <= MaxKeyframes + 1
  BY <1>1, <1>3, <1>5
<1> QED
  BY <1>5, <1>8, <1>9, <1>10 DEF n

-------------------------------------------------------------------------------
(***************************************************************************)
(* What a bootstrap may answer.                                             *)
(***************************************************************************)
LEMMA SeqMonotone ==
  ASSUME NEW S, NEW T, S \subseteq T, NEW s \in Seq(S)
  PROVE  s \in Seq(T)
<1>1. Len(s) \in Nat /\ s = [i \in 1 .. Len(s) |-> s[i]] /\ \A i \in 1 .. Len(s) : s[i] \in T
  OBVIOUS
<1> QED
  BY <1>1

LEMMA StridedOf ==
  ASSUME NEW f \in Seq(Ticks), NEW posed, \A k \in posed : k \in 1 .. Len(f), NEW n \in Nat \ {0}
  PROVE  Strided(posed, n) \in Seq(1 .. Len(f))
<1> DEFINE N == Len(f)
<1>1. N \in Nat /\ \A k \in posed : k \in 1 .. N
  OBVIOUS
<1> HIDE DEF N
<1>2. Strided(posed, n) \in Seq(posed)
  BY <1>1, StridedMembers
<1>3. posed \subseteq 1 .. N
  BY <1>1
<1>4. Strided(posed, n) \in Seq(1 .. N)
  BY <1>2, <1>3, SeqMonotone
<1> QED
  BY <1>4 DEF N

LEMMA StampsOf ==
  ASSUME NEW f \in Seq(Ticks), NEW idx \in Seq(1 .. Len(f)), NEW s, s = Stamps(f, idx)
  PROVE  s \in Seq(Ticks) /\ Len(s) = Len(idx) /\ \A i \in 1 .. Len(s) : s[i] = f[idx[i]]
<1>1. Len(idx) \in Nat /\ DOMAIN idx = 1 .. Len(idx) /\ \A i \in 1 .. Len(idx) : f[idx[i]] \in Ticks
  OBVIOUS
<1>2. s = [i \in 1 .. Len(idx) |-> f[idx[i]]]
  BY <1>1 DEF Stamps
<1> QED
  BY <1>1, <1>2

\* An alignment that has an answer had three stamps or more.
LEMMA AlignedThree ==
  ASSUME NEW s \in Seq(Ticks), NEW covered, NEW a \in Alignments(s, covered)
  PROVE  a.solution \in Solutions /\ (a.solution # "none" => Len(s) >= 3)
<1>1. Len(s) \in Nat
  OBVIOUS
<1> QED
  BY <1>1 DEF Alignments, Solutions

LEMMA PosedInWindow ==
  ASSUME NEW f \in Seq(Ticks), Len(f) > 0, NEW P \in Reconstructions(f)
  PROVE  \A k \in P : k \in 1 .. Len(f)
<1>1. WindowFrames \in Nat /\ Len(f) \in Nat /\ Len(f) - WindowFrames + 1 \in Int
  BY BootstrapAssumption
<1>2. Max({1, Len(f) - WindowFrames + 1}) >= 1 /\ Max({1, Len(f) - WindowFrames + 1}) \in Int
  BY <1>1, MaxOfTwo
<1> HIDE DEF Max
<1>3. \A k \in SfmWindow(f) : k \in 1 .. Len(f)
  BY <1>1, <1>2 DEF SfmWindow
<1>4. P \subseteq SfmWindow(f)
  BY DEF Reconstructions
<1> QED
  BY <1>3, <1>4

\* A result poses frames it was given; its metre comes from three stamps or more.
LEMMA ResultOf ==
  ASSUME NEW f \in Seq(Ticks), Len(f) > 0, NEW covered, NEW r \in Results(f, covered)
  PROVE  /\ \A k \in r.posed : k \in 1 .. Len(f)
         /\ r.solution \in Solutions
         /\ r.solution # "none" => Len(Stamps(f, Strided(r.posed, AlignStride))) >= 3
<1>1. CASE r = [posed |-> {}, pairs |-> 0, intervals |-> 0, solution |-> "none"]
  BY <1>1 DEF Solutions
<1>2. CASE \E P \in Reconstructions(f) : \E n :
             r = [posed |-> P, pairs |-> n, intervals |-> 0, solution |-> "none"]
  BY <1>2, PosedInWindow DEF Solutions
<1>3. CASE \E P \in Reconstructions(f) : \E n :
             \E a \in Alignments(Stamps(f, Strided(P, AlignStride)), covered) :
               r = [[posed |-> P, pairs |-> n, intervals |-> 0, solution |-> "none"]
                      EXCEPT !.intervals = a.intervals, !.solution = a.solution]
  <2>0. PICK P \in Reconstructions(f) : \E n :
             \E a \in Alignments(Stamps(f, Strided(P, AlignStride)), covered) :
               r = [[posed |-> P, pairs |-> n, intervals |-> 0, solution |-> "none"]
                      EXCEPT !.intervals = a.intervals, !.solution = a.solution]
    BY <1>3
  <2> PICK n : \E a \in Alignments(Stamps(f, Strided(P, AlignStride)), covered) :
               r = [[posed |-> P, pairs |-> n, intervals |-> 0, solution |-> "none"]
                      EXCEPT !.intervals = a.intervals, !.solution = a.solution]
    BY <2>0
  <2>1. PICK a \in Alignments(Stamps(f, Strided(P, AlignStride)), covered) :
               r = [[posed |-> P, pairs |-> n, intervals |-> 0, solution |-> "none"]
                      EXCEPT !.intervals = a.intervals, !.solution = a.solution]
    OBVIOUS
  <2>2. r.posed = P /\ r.solution = a.solution
    BY <2>1
  <2>3. \A k \in P : k \in 1 .. Len(f)
    BY PosedInWindow
  <2>4. Strided(P, AlignStride) \in Seq(1 .. Len(f))
    <3>1. AlignStride \in Nat \ {0}
      BY BootstrapAssumption
    <3> QED
      BY <2>3, <3>1, StridedOf
  <2>5. Stamps(f, Strided(P, AlignStride)) \in Seq(Ticks)
    BY <2>4, StampsOf
  <2> QED
    BY <2>2, <2>3, <2>5, AlignedThree
<1>4. \/ r = [posed |-> {}, pairs |-> 0, intervals |-> 0, solution |-> "none"]
      \/ \E P \in Reconstructions(f) : \E n :
           r = [posed |-> P, pairs |-> n, intervals |-> 0, solution |-> "none"]
      \/ \E P \in Reconstructions(f) : \E n :
           \E a \in Alignments(Stamps(f, Strided(P, AlignStride)), covered) :
             r = [[posed |-> P, pairs |-> n, intervals |-> 0, solution |-> "none"]
                    EXCEPT !.intervals = a.intervals, !.solution = a.solution]
  <2> DEFINE none(P, n) == [posed |-> P, pairs |-> n, intervals |-> 0, solution |-> "none"]
             counts_(P) == IF Valid(P) THEN 0 .. MeasurablePairs(f, covered) ELSE {0}
             stops(P) == {none(P, n) : n \in counts_(P)}
             answers(P) == Alignments(Stamps(f, Strided(P, AlignStride)), covered)
             aligns(P, s) == {[s EXCEPT !.intervals = a.intervals, !.solution = a.solution] :
                                a \in answers(P)}
             all(P) == stops(P) \cup UNION {aligns(P, s) : s \in {q \in stops(P) : Valid(P) /\ q.pairs >= BiasMinPairs}}
  <2>1. Results(f, covered) =
          IF Len(f) - Cardinality(SfmWindow(f)) + 3 >= Len(f) THEN {none({}, 0)}
          ELSE UNION {all(P) : P \in Reconstructions(f)}
    BY DEF Results
  <2>2. r = none({}, 0) \/ \E P \in Reconstructions(f) : r \in all(P)
    <3> HIDE DEF all, none
    <3> QED
      BY <2>1
  <2>3. ASSUME NEW P \in Reconstructions(f), r \in all(P)
        PROVE  \/ \E n : r = none(P, n)
               \/ \E n : \E a \in answers(P) :
                    r = [none(P, n) EXCEPT !.intervals = a.intervals, !.solution = a.solution]
    <3>1. r \in stops(P) \/ \E s \in stops(P) : r \in aligns(P, s)
      BY <2>3
    <3> QED
      BY <3>1
  <2> QED
    BY <2>2, <2>3
<1> QED
  BY <1>1, <1>2, <1>3, <1>4

-------------------------------------------------------------------------------
(***************************************************************************)
(* The types, one part for each group of variables, with what the attempts    *)
(* need besides: before a bootstrap there is room for one more frame, and     *)
(* nothing that is remembered is newer than the last frame.                   *)
(***************************************************************************)
InputsOK ==
  /\ now \in Nat /\ odd \in Nat
  /\ imu_.covered \subseteq Ticks /\ imu_.upto \in Ticks \cup {0} /\ imu_.upto <= now

CollectedOK ==
  /\ frames_ \in Seq(Ticks) /\ Len(frames_) <= BootstrapFrames
  /\ \A i \in DOMAIN frames_ : frames_[i] <= now
  /\ ~initialized_ => Len(frames_) < BootstrapFrames
  /\ since_attempt_ \in 0 .. RetryEvery - 1

FlagsOK ==
  /\ initialized_ \in BOOLEAN /\ lost_ \in BOOLEAN /\ vis_active_ \in BOOLEAN
  /\ lost_ => initialized_
  /\ vis_active_ => ~initialized_

StateOK ==
  /\ warmup_ \in 0 .. WarmupFrames
  /\ x_ \in Ticks \cup {0} /\ t_prev_ \in Ticks \cup {0}

WindowOK ==
  /\ window_ \in Seq(Ticks) /\ since_keyframe_ \in 0 .. KeyframeEvery - 1
  /\ gravity_world_ \in {"nominal", "window"}

VisualOK ==
  /\ vis_frames_ \in Seq(Ticks) /\ \A i \in DOMAIN vis_frames_ : vis_frames_[i] <= now
  /\ vis_t0_ \in Ticks \cup {0}
  /\ vis_since_kf_ \in 0 .. KeyframeEvery - 1 /\ vis_misses_ \in 0 .. VisualInitMaxMisses + 1
  /\ vis_active_ => vis_misses_ <= VisualInitMaxMisses

OutputsOK == map_ \subseteq Units /\ last_failure_ \in Failures /\ out.stage \in Stages

Shape == InputsOK /\ CollectedOK /\ FlagsOK /\ StateOK /\ WindowOK /\ VisualOK /\ OutputsOK

LEMMA ShapeIsType == Shape => TypeOK
BY DEF Shape, TypeOK, InputsOK, CollectedOK, FlagsOK, StateOK, WindowOK, VisualOK, OutputsOK

\* The constants, one at a time.
LEMMA Settings ==
  /\ BootstrapFrames \in Nat /\ BootstrapFrames > 0 /\ RetryEvery \in Nat /\ RetryEvery > 0
  /\ KeyframeEvery \in Nat /\ KeyframeEvery > 0
  /\ WarmupFrames \in Nat /\ VisualInitMaxMisses \in Nat /\ MaxKeyframes \in Nat /\ Length \in Nat
  /\ 0 \in 0 .. RetryEvery - 1 /\ 0 \in 0 .. KeyframeEvery - 1
BY EstimatorAssumption

LEMMA EmptyStamps == <<>> \in Seq(Ticks) /\ Len(<<>>) = 0 /\ DOMAIN <<>> = {}
OBVIOUS

LEMMA ShapeInit == Init => Shape
<1> SUFFICES ASSUME Init PROVE Shape
  OBVIOUS
<1>1. InputsOK
  <2>1. now = 0 /\ odd = 0 /\ imu_.covered = {} /\ imu_.upto = 0
    BY DEF Init, NoImu
  <2> QED
    BY <2>1 DEF InputsOK
<1>2. CollectedOK
  <2>1. frames_ = <<>> /\ since_attempt_ = 0
    BY DEF Init
  <2> QED
    BY <2>1, Settings, EmptyStamps DEF CollectedOK
<1>3. StateOK
  <2>1. warmup_ = 0 /\ x_ = 0 /\ t_prev_ = 0
    BY DEF Init
  <2> QED
    BY <2>1, Settings DEF StateOK
<1>4. WindowOK
  <2>1. window_ = <<>> /\ since_keyframe_ = 0 /\ gravity_world_ = "nominal"
    BY DEF Init
  <2> QED
    BY <2>1, Settings, EmptyStamps DEF WindowOK
<1>5. VisualOK
  <2>1. ~vis_active_ /\ vis_frames_ = <<>> /\ vis_t0_ = 0 /\ vis_since_kf_ = 0 /\ vis_misses_ = 0
    BY DEF Init
  <2> QED
    BY <2>1, Settings, EmptyStamps DEF VisualOK
<1>7. FlagsOK
  BY DEF Init, FlagsOK
<1>6. OutputsOK
  <2>1. map_ = {} /\ last_failure_ = "" /\ out.stage = "None"
    BY DEF Init
  <2> QED
    BY <2>1 DEF OutputsOK, Failures, Stages
<1> QED
  BY <1>1, <1>2, <1>3, <1>4, <1>5, <1>6, <1>7 DEF Shape

\* reset() comes back to where the run began, but for counters nothing reads before they
\* are set again.
LEMMA ShapeReset == Shape /\ Reset => Shape'
<1> SUFFICES ASSUME Shape, Reset PROVE Shape'
  OBVIOUS
<1>1. InputsOK'
  <2>1. now' \in {now, 0} /\ odd' = odd /\ imu_'.covered = {} /\ imu_'.upto = 0
    BY DEF Reset, NoImu
  <2>2. now \in Nat /\ odd \in Nat
    BY DEF Shape, InputsOK
  <2> QED
    BY <2>1, <2>2 DEF InputsOK
<1>2. CollectedOK'
  <2>1. frames_' = <<>> /\ since_attempt_' = 0
    BY DEF Reset
  <2> QED
    BY <2>1, Settings, EmptyStamps DEF CollectedOK
<1>3. StateOK'
  <2>1. warmup_' = 0 /\ x_' = 0 /\ t_prev_' = 0
    BY DEF Reset
  <2> QED
    BY <2>1, Settings DEF StateOK
<1>4. WindowOK'
  <2>1. window_' = <<>> /\ since_keyframe_' = 0 /\ gravity_world_' = "nominal"
    BY DEF Reset, GravityAfterReset
  <2> QED
    BY <2>1, Settings, EmptyStamps DEF WindowOK
<1>5. VisualOK'
  <2>1. /\ ~vis_active_' /\ vis_frames_' = <<>>
        /\ UNCHANGED <<vis_t0_, vis_since_kf_, vis_misses_>>
    BY DEF Reset
  <2>2. VisualOK
    BY DEF Shape
  <2> QED
    BY <2>1, <2>2, EmptyStamps DEF VisualOK
<1>7. FlagsOK'
  BY DEF Reset, FlagsOK
<1>6. OutputsOK'
  <2>1. map_' = {} /\ last_failure_' = "" /\ out'.stage = "None"
    BY DEF Reset
  <2> QED
    BY <2>1 DEF OutputsOK, Failures, Stages
<1> QED
  BY <1>1, <1>2, <1>3, <1>4, <1>5, <1>6, <1>7 DEF Shape

\* The frame brings the samples up to its own stamp.
LEMMA FrameTaken ==
  ASSUME InputsOK, NEW t \in Nat, t >= now, NEW hole, Frame(t, hole)
  PROVE  InputsOK' /\ t \in Ticks /\ now' = t /\ imu_'.upto = t
<1>1. t \in Ticks /\ now' = t /\ odd' \in Nat /\ now \in Nat
  BY DEF Frame, InputsOK
<1>2. Length \in Nat
  BY EstimatorAssumption
<1>3. imu_' = IF t <= imu_.upto THEN imu_
              ELSE [covered |-> imu_.covered \cup (IF hole THEN {} ELSE now + 1 .. t), upto |-> t]
  BY DEF Frame, Buffered
<1>4. CASE t <= imu_.upto
  <2>1. imu_' = imu_ /\ imu_.upto = t
    BY <1>1, <1>3, <1>4 DEF InputsOK, Ticks
  <2> QED
    BY <2>1, <1>1 DEF InputsOK
<1>5. CASE ~(t <= imu_.upto)
  <2>1. imu_' = [covered |-> imu_.covered \cup (IF hole THEN {} ELSE now + 1 .. t), upto |-> t]
    BY <1>3, <1>5
  <2>2. now + 1 .. t \subseteq Ticks
    BY <1>1, <1>2 DEF Ticks
  <2>3. imu_'.covered \subseteq Ticks /\ imu_'.upto = t
    BY <2>1, <2>2 DEF InputsOK
  <2> QED
    BY <2>3, <1>1 DEF InputsOK
<1> QED
  BY <1>4, <1>5

\* ... and is the newest of those collected.
LEMMA FrameAdded ==
  ASSUME CollectedOK, NEW t \in Ticks, t >= now, now \in Nat, NEW f, f = Append(frames_, t)
  PROVE  /\ f \in Seq(Ticks) /\ Len(f) = Len(frames_) + 1 /\ f[Len(f)] = t
         /\ \A i \in 1 .. Len(f) : f[i] <= t
         /\ Tail(f) \in Seq(Ticks) /\ Len(Tail(f)) = Len(frames_)
         /\ \A i \in 1 .. Len(Tail(f)) : Tail(f)[i] <= t
<1> DEFINE n == Len(frames_)
<1>1. n \in Nat /\ frames_ \in Seq(Ticks) /\ \A i \in 1 .. n : frames_[i] \in Ticks /\ frames_[i] <= now
  BY DEF CollectedOK
<1>2. /\ f \in Seq(Ticks) /\ Len(f) = n + 1 /\ f[n + 1] = t
      /\ \A i \in 1 .. n : f[i] = frames_[i]
  BY <1>1
<1> HIDE DEF n
<1>3. \A i \in 1 .. n + 1 : f[i] <= t
  <2> SUFFICES ASSUME NEW i \in 1 .. n + 1 PROVE f[i] <= t
    OBVIOUS
  <2>1. CASE i = n + 1
    <3>1. f[i] = t /\ t \in Nat
      BY <2>1, <1>2, Settings DEF Ticks
    <3> QED
      BY <3>1
  <2>2. CASE i \in 1 .. n
    <3>1. f[i] = frames_[i] /\ frames_[i] \in Ticks /\ frames_[i] <= now
      BY <2>2, <1>1, <1>2
    <3> QED
      BY <3>1 DEF Ticks
  <2>3. i = n + 1 \/ i \in 1 .. n
    BY <1>1
  <2> QED
    BY <2>1, <2>2, <2>3
<1>4. f # <<>>
  BY <1>1, <1>2
<1>5. Tail(f) \in Seq(Ticks) /\ Len(Tail(f)) = n /\ \A i \in 1 .. n : Tail(f)[i] = f[i + 1]
  BY <1>1, <1>2, <1>4
<1>6. \A i \in 1 .. n : Tail(f)[i] <= t
  <2>1. \A i \in 1 .. n : i + 1 \in 1 .. n + 1
    BY <1>1
  <2> QED
    BY <2>1, <1>3, <1>5
<1> QED
  BY <1>2, <1>3, <1>5, <1>6 DEF n

\* What was remembered is no newer for a frame that came after it.
LEMMA CollectedLater ==
  ASSUME CollectedOK, UNCHANGED <<collected, initialized_>>, now \in Nat, now' \in Nat, now' >= now
  PROVE  CollectedOK'
<1>1. frames_' = frames_ /\ since_attempt_' = since_attempt_ /\ initialized_' = initialized_
  BY DEF collected
<1>2. \A i \in DOMAIN frames_ : frames_[i] \in Nat /\ frames_[i] <= now
  BY Settings DEF CollectedOK, Ticks
<1>3. \A i \in DOMAIN frames_' : frames_'[i] <= now'
  BY <1>1, <1>2
<1> QED
  BY <1>1, <1>3 DEF CollectedOK

LEMMA VisualLater ==
  ASSUME VisualOK, UNCHANGED visual, now \in Nat, now' \in Nat, now' >= now
  PROVE  VisualOK'
<1>1. /\ vis_active_' = vis_active_ /\ vis_frames_' = vis_frames_ /\ vis_t0_' = vis_t0_
      /\ vis_since_kf_' = vis_since_kf_ /\ vis_misses_' = vis_misses_
  BY DEF visual
<1>2. \A i \in DOMAIN vis_frames_ : vis_frames_[i] \in Nat /\ vis_frames_[i] <= now
  BY Settings DEF VisualOK, Ticks
<1>3. \A i \in DOMAIN vis_frames_' : vis_frames_'[i] <= now'
  BY <1>1, <1>2
<1> QED
  BY <1>1, <1>3 DEF VisualOK

\* The keyframes of a visual init, with or without one more.
LEMMA VisualFrames ==
  ASSUME VisualOK, now \in Nat, NEW t \in Ticks, t >= now, NEW kfs, kfs \in {vis_frames_, Append(vis_frames_, t)}
  PROVE  kfs \in Seq(Ticks) /\ \A i \in DOMAIN kfs : kfs[i] <= t
<1> DEFINE n == Len(vis_frames_)
<1>1. /\ n \in Nat /\ vis_frames_ \in Seq(Ticks)
      /\ \A i \in 1 .. n : vis_frames_[i] \in Ticks /\ vis_frames_[i] <= now
  BY DEF VisualOK
<1>2. \A k \in Ticks : k \in Nat
  BY DEF Ticks
<1>3. \A i \in 1 .. n : vis_frames_[i] <= t
  BY <1>1, <1>2
<1>4. CASE kfs = vis_frames_
  BY <1>1, <1>3, <1>4
<1>5. CASE kfs = Append(vis_frames_, t)
  <2>1. /\ kfs \in Seq(Ticks) /\ Len(kfs) = n + 1 /\ kfs[n + 1] = t
        /\ \A i \in 1 .. n : kfs[i] = vis_frames_[i]
    BY <1>1, <1>5
  <2> HIDE DEF n
  <2>2. \A i \in 1 .. n + 1 : i = n + 1 \/ i \in 1 .. n
    BY <1>1
  <2>3. t <= t
    BY <1>2
  <2>4. \A i \in 1 .. n + 1 : kfs[i] <= t
    BY <1>3, <2>1, <2>2, <2>3
  <2>5. DOMAIN kfs = 1 .. n + 1
    BY <2>1, <1>1
  <2> QED
    BY <2>1, <2>4, <2>5
<1> QED
  BY <1>4, <1>5

\* The window of bootstrap_frames slid on by this frame.
LEMMA SlidOn ==
  ASSUME CollectedOK, now \in Nat, NEW t \in Ticks, t >= now, now' = t, ~initialized_,
         frames_' = Slid(Append(frames_, t)), since_attempt_' \in 0 .. RetryEvery - 1
  PROVE  CollectedOK'
<1> DEFINE f == Append(frames_, t)
<1>1. /\ Tail(f) \in Seq(Ticks) /\ Len(Tail(f)) = Len(frames_)
      /\ \A i \in 1 .. Len(Tail(f)) : Tail(f)[i] <= t
  BY FrameAdded
<1>2. frames_' = Tail(f) /\ Len(frames_) < BootstrapFrames /\ Len(frames_) \in Nat
  BY DEF Slid, CollectedOK
<1> HIDE DEF f
<1>3. /\ frames_' \in Seq(Ticks) /\ Len(frames_') < BootstrapFrames /\ Len(frames_') \in Nat
      /\ \A i \in 1 .. Len(frames_') : frames_'[i] <= now'
  BY <1>1, <1>2
<1> HIDE DEF Slid
<1>4. DOMAIN frames_' = 1 .. Len(frames_') /\ Len(frames_') <= BootstrapFrames
  BY <1>3, Settings
<1> QED
  BY <1>3, <1>4 DEF CollectedOK

\* The two ways an attempt can end.
LEMMA AdoptedOK ==
  ASSUME FlagsOK, ~initialized_, ~vis_active_', vis_active_' \in BOOLEAN, WindowOK,
         last_failure_' \in Failures, NEW stamp \in Ticks, Adopt(stamp)
  PROVE  FlagsOK' /\ StateOK' /\ WindowOK' /\ OutputsOK'
<1>1. FlagsOK'
  BY DEF FlagsOK, Adopt
<1>2. StateOK'
  <2>1. warmup_' = WarmupFrames /\ x_' = stamp /\ t_prev_' = stamp
    BY DEF Adopt
  <2> QED
    BY <2>1, Settings DEF StateOK
<1>3. WindowOK'
  <2>1. /\ window_' = IF WindowEnabled THEN <<stamp>> ELSE <<>>
        /\ since_keyframe_' = 0 /\ gravity_world_' = gravity_world_
    BY DEF Adopt
  <2>2. window_' \in Seq(Ticks)
    BY <2>1, EmptyStamps
  <2> QED
    BY <2>1, <2>2, Settings DEF WindowOK
<1>4. OutputsOK'
  <2>1. map_' = {"metre"} /\ out'.stage = "Bootstrapped"
    BY DEF Adopt, Seeded, Output
  <2> QED
    BY <2>1 DEF OutputsOK, Units, Stages
<1> QED
  BY <1>1, <1>2, <1>3, <1>4

LEMMA NotAdoptedOK ==
  ASSUME FlagsOK, ~initialized_, vis_active_' \in BOOLEAN, StateOK, WindowOK, NotAdopted,
         map_' \subseteq Units, last_failure_' \in Failures
  PROVE  FlagsOK' /\ StateOK' /\ WindowOK' /\ OutputsOK'
<1>1. FlagsOK'
  BY DEF FlagsOK, NotAdopted, state
<1>2. StateOK'
  BY DEF StateOK, NotAdopted, state
<1>3. WindowOK'
  BY DEF WindowOK, NotAdopted, window
<1>4. OutputsOK'
  <2>1. out'.stage = "Collecting"
    BY DEF NotAdopted, Output
  <2> QED
    BY <2>1 DEF OutputsOK, Stages
<1> QED
  BY <1>1, <1>2, <1>3, <1>4

\* The stamp a bootstrap starts from is one of the frames', and so not newer than the last.
LEMMA SucceedsAt ==
  ASSUME Shape, NEW t \in Nat, t >= now, NEW hole \in BOOLEAN, BootstrapSucceeds(t, hole)
  PROVE  \E stamp \in Ticks : stamp <= t /\ Adopt(stamp)
<1> DEFINE f == Append(frames_, t)
<1>1. InputsOK /\ CollectedOK
  BY DEF Shape
<1>2. now \in Nat
  BY <1>1 DEF InputsOK
<1>3. Frame(t, hole)
  BY DEF BootstrapSucceeds, Attempt
<1>4. t \in Ticks
  BY <1>1, <1>3, FrameTaken
<1>5. /\ f \in Seq(Ticks) /\ Len(f) = Len(frames_) + 1 /\ \A i \in 1 .. Len(f) : f[i] <= t
  BY <1>1, <1>2, <1>4, FrameAdded
<1>6. Len(frames_) \in Nat
  BY <1>1 DEF CollectedOK
<1>7. PICK r \in Results(f, imu_'.covered) :
        /\ r.solution = "metric"
        /\ LET aligned == Strided(r.posed, AlignStride) IN Adopt(f[aligned[Len(aligned)]])
  BY DEF BootstrapSucceeds
<1> DEFINE aligned == Strided(r.posed, AlignStride)
           stamps == Stamps(f, aligned)
           stamp == f[aligned[Len(aligned)]]
<1>8. (\A k \in r.posed : k \in 1 .. Len(f)) /\ Len(stamps) >= 3
  <2>1. Len(f) > 0 /\ r.solution # "none"
    BY <1>5, <1>6, <1>7
  <2> HIDE DEF f
  <2> QED
    BY <1>5, <2>1, ResultOf
<1>9. aligned \in Seq(1 .. Len(f))
  <2>1. AlignStride \in Nat \ {0}
    BY BootstrapAssumption
  <2> HIDE DEF f
  <2> QED
    BY <1>5, <1>8, <2>1, StridedOf
<1>10. Len(aligned) \in Nat /\ Len(aligned) >= 3
  <2> HIDE DEF f, aligned
  <2> QED
    BY <1>5, <1>8, <1>9, StampsOf
<1>11. Adopt(stamp)
  BY <1>7
<1>12. stamp \in Ticks /\ stamp <= t
  <2> HIDE DEF f, aligned
  <2>1. aligned[Len(aligned)] \in 1 .. Len(f)
    BY <1>9, <1>10
  <2> QED
    BY <1>5, <2>1
<1> HIDE DEF stamp
<1> QED
  BY <1>11, <1>12

\* ... and so it is after a visual init, unless that goes on.
LEMMA AlignsAt ==
  ASSUME Shape, NEW t \in Nat, t >= now, NEW hole \in BOOLEAN, VisualAlign(t, hole)
  PROVE  \/ /\ ~vis_active_' /\ vis_active_' \in BOOLEAN /\ vis_frames_' = <<>>
            /\ since_attempt_' = since_attempt_ /\ last_failure_' = ""
            /\ \E stamp \in Ticks : stamp <= t /\ Adopt(stamp)
         \/ /\ KeepsGoing /\ NotAdopted /\ vis_frames_' = Append(vis_frames_, t)
            /\ last_failure_' \in Failures
<1> DEFINE kfs == Append(vis_frames_, t)
           idx == Strided(DOMAIN kfs, AlignStride)
           aligned == Stamps(kfs, idx)
           stamp == aligned[Len(aligned)]
<1>1. InputsOK /\ VisualOK
  BY DEF Shape
<1>2. Frame(t, hole)
  BY DEF VisualAlign, VisualStep
<1>3. now \in Nat /\ t \in Ticks
  BY <1>1, <1>2, FrameTaken DEF InputsOK
<1>4. kfs \in Seq(Ticks) /\ \A i \in DOMAIN kfs : kfs[i] <= t
  BY <1>1, <1>3, VisualFrames
<1>5. PICK a \in Alignments(aligned, imu_'.covered) :
        IF a.solution = "metric"
        THEN /\ vis_active_' = FALSE /\ vis_frames_' = <<>> /\ UNCHANGED since_attempt_
             /\ last_failure_' = ""
             /\ Timed(t)
             /\ Adopt(aligned[Len(aligned)])
        ELSE /\ KeepsGoing
             /\ vis_frames_' = kfs
             /\ last_failure_' = CASE a.solution = "negative"  -> "[V] s <= 0"
                                   [] a.solution = "uncertain" -> "[V] uncertain"
                                   [] OTHER                    -> "[V] refused"
             /\ Timed(t)
             /\ NotAdopted
  BY DEF VisualAlign
<1>6. DOMAIN kfs = 1 .. Len(kfs)
  BY <1>4
<1>7. idx \in Seq(1 .. Len(kfs))
  <2>1. AlignStride \in Nat \ {0}
    BY BootstrapAssumption
  <2> HIDE DEF kfs
  <2>2. \A k \in DOMAIN kfs : k \in 1 .. Len(kfs)
    BY <1>6
  <2> QED
    BY <1>4, <2>1, <2>2, StridedOf
<1>8. aligned \in Seq(Ticks) /\ Len(aligned) = Len(idx) /\ \A i \in 1 .. Len(aligned) : aligned[i] = kfs[idx[i]]
  <2> HIDE DEF kfs, idx
  <2> QED
    BY <1>4, <1>7, StampsOf
<1>9. CASE a.solution = "metric"
  <2>1. Len(aligned) >= 3
    <3> HIDE DEF aligned
    <3> QED
      BY <1>8, <1>9, AlignedThree
  <2>2. Adopt(stamp)
    BY <1>5, <1>9
  <2>3. stamp \in Ticks /\ stamp <= t
    <3> HIDE DEF kfs, idx, aligned
    <3>1. Len(aligned) \in 1 .. Len(aligned) /\ idx[Len(aligned)] \in 1 .. Len(kfs)
      BY <1>7, <1>8, <2>1
    <3> QED
      BY <1>4, <1>6, <1>8, <3>1
  <2> HIDE DEF stamp
  <2>4. /\ ~vis_active_' /\ vis_active_' \in BOOLEAN /\ vis_frames_' = <<>>
        /\ since_attempt_' = since_attempt_ /\ last_failure_' = ""
    BY <1>5, <1>9
  <2> QED
    BY <2>2, <2>3, <2>4
<1>10. CASE a.solution # "metric"
  <2>1. last_failure_' \in Failures
    BY <1>5, <1>10 DEF Failures
  <2> QED
    BY <1>5, <1>10, <2>1
<1> QED
  BY <1>9, <1>10

\* A frame of the collecting phase, whichever way its attempt ends.
LEMMA CollectingShape ==
  ASSUME Shape, NEW t \in Nat, t >= now, NEW hole \in BOOLEAN,
         \/ Collect(t, hole) \/ Wait(t, hole)
         \/ BootstrapSucceeds(t, hole) \/ BootstrapFails(t, hole) \/ VisualInitStarts(t, hole)
  PROVE  Shape'
<1> DEFINE f == Append(frames_, t)
<1>1. InputsOK /\ CollectedOK /\ FlagsOK /\ StateOK /\ WindowOK /\ VisualOK /\ OutputsOK
  BY DEF Shape
<1>2. now \in Nat
  BY <1>1 DEF InputsOK
<1>3. Frame(t, hole) /\ ~initialized_
  BY DEF Collect, Wait, BootstrapSucceeds, BootstrapFails, VisualInitStarts, Attempt, Attempting, Collecting
<1>4. InputsOK' /\ t \in Ticks /\ now' = t
  BY <1>1, <1>3, FrameTaken
<1>5. /\ f \in Seq(Ticks) /\ Len(f) = Len(frames_) + 1 /\ f[Len(f)] = t
      /\ \A i \in 1 .. Len(f) : f[i] <= t
  BY <1>1, <1>2, <1>4, FrameAdded
<1>6. Len(frames_) \in Nat /\ Len(frames_) < BootstrapFrames
  BY <1>1, <1>3 DEF CollectedOK
<1>7. map_ \subseteq Units /\ last_failure_ \in Failures /\ vis_active_ \in BOOLEAN
  BY <1>1 DEF OutputsOK, FlagsOK
<1>8. \A r : Diagnosis(r) \in Failures
  BY DEF Diagnosis, Failures
<1>9. CASE Collect(t, hole)
  <2>1. /\ NotAdopted /\ UNCHANGED visual /\ map_' = map_ /\ last_failure_' = last_failure_
        /\ frames_' = f /\ since_attempt_' = since_attempt_ /\ Len(frames_) + 1 < BootstrapFrames
    BY <1>9 DEF Collect, Collecting, diagnosis
  <2>2. VisualOK' /\ vis_active_' = vis_active_
    BY <1>1, <1>2, <1>4, <2>1, VisualLater DEF visual
  <2>3. FlagsOK' /\ StateOK' /\ WindowOK' /\ OutputsOK'
    BY <1>1, <1>3, <1>7, <2>1, <2>2, NotAdoptedOK
  <2>4. CollectedOK'
    <3>1. DOMAIN f = 1 .. Len(f)
      BY <1>5
    <3> HIDE DEF f
    <3>2. Len(frames_') < BootstrapFrames /\ Len(frames_') \in Nat
      BY <2>1, <1>5, <1>6, Settings
    <3> QED
      BY <1>1, <1>4, <1>5, <2>1, <3>1, <3>2, Settings DEF CollectedOK
  <2> QED
    BY <1>4, <2>2, <2>3, <2>4 DEF Shape
<1>10. CASE Wait(t, hole)
  <2>1. /\ NotAdopted /\ UNCHANGED visual /\ map_' = map_ /\ last_failure_' = last_failure_
        /\ frames_' = Slid(f) /\ since_attempt_' = since_attempt_ + 1 /\ ~(since_attempt_ + 1 >= RetryEvery)
    BY <1>10 DEF Wait, diagnosis, Due
  <2>2. VisualOK' /\ vis_active_' = vis_active_
    BY <1>1, <1>2, <1>4, <2>1, VisualLater DEF visual
  <2>3. FlagsOK' /\ StateOK' /\ WindowOK' /\ OutputsOK'
    BY <1>1, <1>3, <1>7, <2>1, <2>2, NotAdoptedOK
  <2>4. since_attempt_' \in 0 .. RetryEvery - 1
    BY <1>1, <2>1, Settings DEF CollectedOK
  <2>5. CollectedOK'
    BY <1>1, <1>2, <1>3, <1>4, <2>1, <2>4, SlidOn
  <2> QED
    BY <1>4, <2>2, <2>3, <2>5 DEF Shape
<1>11. CASE BootstrapSucceeds(t, hole)
  <2>1. PICK stamp \in Ticks : Adopt(stamp)
    BY <1>11, SucceedsAt
  <2>2. PICK r : Judge(r) /\ frames_' = f /\ UNCHANGED visual
    BY <1>11 DEF BootstrapSucceeds
  <2>3. since_attempt_' = 0 /\ ~vis_active_
    BY <1>11 DEF BootstrapSucceeds, Attempt, Attempting
  <2>4. VisualOK' /\ ~vis_active_' /\ vis_active_' \in BOOLEAN
    BY <1>1, <1>2, <1>4, <1>7, <2>2, <2>3, VisualLater DEF visual
  <2>5. last_failure_' \in Failures
    BY <2>2, <1>8 DEF Judge
  <2>6. FlagsOK' /\ StateOK' /\ WindowOK' /\ OutputsOK'
    BY <1>1, <1>3, <2>1, <2>4, <2>5, AdoptedOK
  <2>7. initialized_'
    BY <2>1 DEF Adopt
  <2>8. CollectedOK'
    <3>1. frames_' = f /\ DOMAIN f = 1 .. Len(f)
      BY <2>2, <1>5
    <3> HIDE DEF f
    <3>2. Len(frames_') <= BootstrapFrames
      BY <3>1, <1>5, <1>6, Settings
    <3> QED
      BY <1>4, <1>5, <2>3, <2>7, <3>1, <3>2, Settings DEF CollectedOK
  <2> QED
    BY <1>4, <2>4, <2>6, <2>8 DEF Shape
<1>12. CASE BootstrapFails(t, hole)
  <2>1. PICK r : Judge(r) /\ frames_' = Slid(f) /\ NotAdopted /\ map_' = map_ /\ UNCHANGED visual
    BY <1>12 DEF BootstrapFails
  <2>2. since_attempt_' = 0
    BY <1>12 DEF BootstrapFails, Attempt
  <2>3. VisualOK' /\ vis_active_' = vis_active_
    BY <1>1, <1>2, <1>4, <2>1, VisualLater DEF visual
  <2>4. last_failure_' \in Failures
    BY <2>1, <1>8 DEF Judge
  <2>5. FlagsOK' /\ StateOK' /\ WindowOK' /\ OutputsOK'
    BY <1>1, <1>3, <1>7, <2>1, <2>3, <2>4, NotAdoptedOK
  <2>6. CollectedOK'
    BY <1>1, <1>2, <1>3, <1>4, <2>1, <2>2, SlidOn, Settings
  <2> QED
    BY <1>4, <2>3, <2>5, <2>6 DEF Shape
<1>13. CASE VisualInitStarts(t, hole)
  <2>1. PICK r \in Results(f, imu_'.covered) :
          /\ Judge(r) /\ OnlyTheMetreMissing(r)
          /\ frames_' = Slid(f) /\ map_' = Seeded("ruler") /\ vis_active_' = TRUE
          /\ vis_frames_' = Stamps(f, Strided(r.posed, KeyframeEvery))
          /\ vis_t0_' = f[Min(r.posed)]
          /\ vis_since_kf_' = 0 /\ vis_misses_' = 0
          /\ NotAdopted
    BY <1>13 DEF VisualInitStarts
  <2>2. since_attempt_' = 0
    BY <1>13 DEF VisualInitStarts, Attempt
  <2>3. \A k \in r.posed : k \in 1 .. Len(f)
    <3>1. Len(f) > 0
      BY <1>5, <1>6
    <3> HIDE DEF f
    <3> QED
      BY <1>5, <3>1, ResultOf
  <2>4. Strided(r.posed, KeyframeEvery) \in Seq(1 .. Len(f))
    <3>1. KeyframeEvery \in Nat \ {0}
      BY EstimatorAssumption
    <3> HIDE DEF f
    <3> QED
      BY <1>5, <2>3, <3>1, StridedOf
  <2>5. /\ vis_frames_' \in Seq(Ticks)
        /\ \A i \in 1 .. Len(vis_frames_') : vis_frames_'[i] <= t
    <3> DEFINE idx == Strided(r.posed, KeyframeEvery)
    <3>1. vis_frames_' = Stamps(f, idx) /\ idx \in Seq(1 .. Len(f))
      BY <2>1, <2>4
    <3> HIDE DEF f, idx
    <3>2. /\ vis_frames_' \in Seq(Ticks) /\ Len(vis_frames_') = Len(idx)
          /\ \A i \in 1 .. Len(vis_frames_') : vis_frames_'[i] = f[idx[i]]
      BY <1>5, <3>1, StampsOf
    <3>3. \A i \in 1 .. Len(idx) : idx[i] \in 1 .. Len(f)
      BY <3>1
    <3> QED
      BY <1>5, <3>2, <3>3
  <2>6. vis_t0_' \in Ticks
    <3>1. r.posed # {}
      <4>1. Cardinality(r.posed) >= MinPosed /\ MinPosed \in Nat \ {0}
        BY <2>1, BootstrapAssumption DEF OnlyTheMetreMissing, Valid
      <4>2. Cardinality({}) = 0
        BY FS_EmptySet
      <4> QED
        BY <4>1, <4>2
    <3>2. r.posed \in SUBSET Nat
      <4> HIDE DEF f
      <4> QED
        BY <2>3
    <3>3. Min(r.posed) \in r.posed
      BY <3>1, <3>2, MinOf
    <3>4. Min(r.posed) \in 1 .. Len(f)
      BY <3>3, <2>3
    <3> HIDE DEF f
    <3> QED
      BY <2>1, <1>5, <3>4
  <2>7. VisualOK'
    <3>1. vis_since_kf_' = 0 /\ vis_misses_' = 0
      BY <2>1
    <3>2. DOMAIN vis_frames_' = 1 .. Len(vis_frames_')
      BY <2>5
    <3> QED
      BY <1>4, <2>5, <2>6, <3>1, <3>2, Settings DEF VisualOK
  <2>8. last_failure_' \in Failures /\ map_' \subseteq Units
    BY <2>1, <1>8 DEF Judge, Seeded, Units
  <2>9. FlagsOK' /\ StateOK' /\ WindowOK' /\ OutputsOK'
    BY <1>1, <1>3, <2>1, <2>8, NotAdoptedOK
  <2>10. CollectedOK'
    BY <1>1, <1>2, <1>3, <1>4, <2>1, <2>2, SlidOn, Settings
  <2> QED
    BY <1>4, <2>7, <2>9, <2>10 DEF Shape
<1> QED
  BY <1>9, <1>10, <1>11, <1>12, <1>13

\* A frame of a visual init.
LEMMA VisualShape ==
  ASSUME Shape, NEW t \in Nat, t >= now, NEW hole \in BOOLEAN,
         \/ VisualMiss(t, hole) \/ VisualGrow(t, hole) \/ VisualKeyframe(t, hole)
         \/ VisualGivesUp(t, hole) \/ VisualAlign(t, hole)
  PROVE  Shape'
<1>1. InputsOK /\ CollectedOK /\ FlagsOK /\ StateOK /\ WindowOK /\ VisualOK /\ OutputsOK
  BY DEF Shape
<1>2. now \in Nat
  BY <1>1 DEF InputsOK
<1>3. VisualStep(t, hole)
  BY DEF VisualMiss, VisualGrow, VisualKeyframe, VisualGivesUp, VisualAlign
<1>4. Frame(t, hole) /\ ~initialized_ /\ vis_active_ /\ frames_' = Slid(Append(frames_, t))
  BY <1>3 DEF VisualStep, Visual
<1>5. InputsOK' /\ t \in Ticks /\ now' = t
  BY <1>1, <1>4, FrameTaken
<1>6. \A kfs \in {vis_frames_, Append(vis_frames_, t)} :
        kfs \in Seq(Ticks) /\ \A i \in DOMAIN kfs : kfs[i] <= t
  BY <1>1, <1>2, <1>5, VisualFrames
<1>7. map_ \subseteq Units /\ last_failure_ \in Failures /\ map_ \cup {"ruler"} \subseteq Units
  BY <1>1 DEF OutputsOK, Units
<1>8. since_attempt_ \in 0 .. RetryEvery - 1
  BY <1>1 DEF CollectedOK
<1>9. /\ vis_misses_ \in Nat /\ vis_misses_ <= VisualInitMaxMisses
      /\ vis_since_kf_ \in 0 .. KeyframeEvery - 1 /\ vis_t0_ \in Ticks \cup {0}
  BY <1>1, <1>4 DEF VisualOK
\* What the five have in common.
<1>10. ASSUME since_attempt_' \in 0 .. RetryEvery - 1
       PROVE  CollectedOK'
  BY <1>1, <1>2, <1>4, <1>5, <1>10, SlidOn
<1>11. ASSUME vis_frames_' \in {vis_frames_, Append(vis_frames_, t)} \/ vis_frames_' = <<>>,
              vis_t0_' = vis_t0_, vis_since_kf_' \in 0 .. KeyframeEvery - 1,
              vis_misses_' \in 0 .. VisualInitMaxMisses + 1,
              vis_active_' => vis_misses_' <= VisualInitMaxMisses
       PROVE  VisualOK'
  <2>1. vis_frames_' \in Seq(Ticks) /\ \A i \in DOMAIN vis_frames_' : vis_frames_'[i] <= now'
    BY <1>5, <1>6, <1>11, EmptyStamps
  <2> QED
    BY <1>9, <1>11, <2>1 DEF VisualOK
<1>12. ASSUME NotAdopted, vis_active_' \in BOOLEAN, map_' \subseteq Units, last_failure_' \in Failures
       PROVE  FlagsOK' /\ StateOK' /\ WindowOK' /\ OutputsOK'
  BY <1>1, <1>4, <1>12, NotAdoptedOK
<1>13. CASE VisualMiss(t, hole)
  <2>1. /\ NotAdopted /\ vis_misses_' = vis_misses_ + 1
        /\ vis_t0_' = vis_t0_ /\ vis_since_kf_' = vis_since_kf_ /\ last_failure_' = last_failure_
    BY <1>13 DEF VisualMiss, diagnosis
  <2>2. /\ map_' \subseteq Units /\ since_attempt_' \in 0 .. RetryEvery - 1
        /\ vis_frames_' \in {vis_frames_, Append(vis_frames_, t)} \/ vis_frames_' = <<>>
    BY <1>7, <1>8, <1>13, Settings DEF VisualMiss, AbortVisualInit
  <2>3. vis_active_' \in BOOLEAN
    BY <1>13, <1>1 DEF VisualMiss, AbortVisualInit, FlagsOK
  <2>4. vis_active_' => vis_misses_ + 1 <= VisualInitMaxMisses
    BY <1>13 DEF VisualMiss, AbortVisualInit
  <2>5. /\ vis_misses_' \in 0 .. VisualInitMaxMisses + 1
        /\ vis_active_' => vis_misses_' <= VisualInitMaxMisses
    BY <1>9, <2>1, <2>4, Settings
  <2> QED
    BY <1>5, <1>7, <1>9, <1>10, <1>11, <1>12, <2>1, <2>2, <2>3, <2>5 DEF Shape
<1>14. CASE VisualGrow(t, hole)
  <2>1. /\ NotAdopted /\ vis_misses_' = 0 /\ vis_since_kf_' = vis_since_kf_ + 1
        /\ vis_since_kf_ + 1 < KeyframeEvery
        /\ vis_frames_' = vis_frames_ /\ vis_t0_' = vis_t0_ /\ last_failure_' = last_failure_
        /\ map_' = map_ \cup {"ruler"} /\ since_attempt_' = since_attempt_ /\ vis_active_' = vis_active_
    BY <1>14 DEF VisualGrow, KeepsGoing, diagnosis
  <2>2. /\ vis_since_kf_' \in 0 .. KeyframeEvery - 1
        /\ vis_misses_' \in 0 .. VisualInitMaxMisses + 1 /\ vis_misses_' <= VisualInitMaxMisses
    BY <1>9, <2>1, Settings
  <2>3. vis_active_' \in BOOLEAN
    BY <2>1, <1>1 DEF FlagsOK
  <2> QED
    BY <1>5, <1>7, <1>8, <1>10, <1>11, <1>12, <2>1, <2>2, <2>3 DEF Shape
<1>15. CASE VisualKeyframe(t, hole)
  <2>1. /\ NotAdopted /\ vis_misses_' = 0 /\ vis_since_kf_' = 0
        /\ vis_frames_' = Append(vis_frames_, t) /\ vis_t0_' = vis_t0_ /\ last_failure_' = last_failure_
        /\ map_' = map_ \cup {"ruler"} /\ since_attempt_' = since_attempt_ /\ vis_active_' = vis_active_
    BY <1>15 DEF VisualKeyframe, KeyframeDue, KeepsGoing, diagnosis
  <2>2. /\ vis_since_kf_' \in 0 .. KeyframeEvery - 1
        /\ vis_misses_' \in 0 .. VisualInitMaxMisses + 1 /\ vis_misses_' <= VisualInitMaxMisses
    BY <2>1, Settings
  <2>3. vis_active_' \in BOOLEAN
    BY <2>1, <1>1 DEF FlagsOK
  <2> QED
    BY <1>5, <1>7, <1>8, <1>10, <1>11, <1>12, <2>1, <2>2, <2>3 DEF Shape
<1>16. CASE VisualGivesUp(t, hole)
  <2>1. /\ NotAdopted /\ vis_misses_' = 0 /\ vis_since_kf_' = 0
        /\ vis_frames_' = <<>> /\ vis_t0_' = vis_t0_ /\ last_failure_' = last_failure_
        /\ map_' = {} /\ since_attempt_' = 0
    BY <1>16 DEF VisualGivesUp, KeyframeDue, AbortVisualInit, diagnosis
  <2>2. /\ vis_since_kf_' \in 0 .. KeyframeEvery - 1 /\ since_attempt_' \in 0 .. RetryEvery - 1
        /\ vis_misses_' \in 0 .. VisualInitMaxMisses + 1 /\ vis_misses_' <= VisualInitMaxMisses
        /\ map_' \subseteq Units
    BY <2>1, Settings
  <2>3. vis_active_' \in BOOLEAN
    BY <1>16 DEF VisualGivesUp, AbortVisualInit
  <2> QED
    BY <1>5, <1>7, <1>10, <1>11, <1>12, <2>1, <2>2, <2>3 DEF Shape
<1>17. CASE VisualAlign(t, hole)
  <2>1. vis_misses_' = 0 /\ vis_since_kf_' = 0 /\ vis_t0_' = vis_t0_
    BY <1>17 DEF VisualAlign, KeyframeDue
  <2>2. /\ vis_since_kf_' \in 0 .. KeyframeEvery - 1
        /\ vis_misses_' \in 0 .. VisualInitMaxMisses + 1 /\ vis_misses_' <= VisualInitMaxMisses
    BY <2>1, Settings
  <2>3. CASE /\ ~vis_active_' /\ vis_active_' \in BOOLEAN /\ vis_frames_' = <<>>
             /\ since_attempt_' = since_attempt_ /\ last_failure_' = ""
             /\ \E stamp \in Ticks : stamp <= t /\ Adopt(stamp)
    <3>1. last_failure_' \in Failures
      BY <2>3 DEF Failures
    <3>2. FlagsOK' /\ StateOK' /\ WindowOK' /\ OutputsOK'
      BY <1>1, <1>4, <2>3, <3>1, AdoptedOK
    <3>3. CollectedOK' /\ VisualOK'
      BY <1>8, <1>10, <1>11, <2>1, <2>2, <2>3
    <3> QED
      BY <1>5, <3>2, <3>3 DEF Shape
  <2>4. CASE /\ KeepsGoing /\ NotAdopted /\ vis_frames_' = Append(vis_frames_, t)
             /\ last_failure_' \in Failures
    <3>1. since_attempt_' = since_attempt_ /\ map_' = map_ \cup {"ruler"} /\ vis_active_' = vis_active_
      BY <2>4 DEF KeepsGoing
    <3>2. vis_active_' \in BOOLEAN
      BY <3>1, <1>1 DEF FlagsOK
    <3>3. FlagsOK' /\ StateOK' /\ WindowOK' /\ OutputsOK'
      BY <1>7, <1>12, <2>4, <3>1, <3>2
    <3>4. CollectedOK' /\ VisualOK'
      BY <1>8, <1>10, <1>11, <2>1, <2>2, <2>4, <3>1
    <3> QED
      BY <1>5, <3>3, <3>4 DEF Shape
  <2> QED
    BY <1>17, <2>3, <2>4, AlignsAt
<1> QED
  BY <1>13, <1>14, <1>15, <1>16, <1>17

\* push on a tracked frame.
LEMMA KeyframeOK ==
  ASSUME WindowOK, NEW t \in Ticks, Keyframe(t)
  PROVE  WindowOK' /\ x_' = t
<1>1. CASE ~WindowEnabled \/ since_keyframe_ + 1 < KeyframeEvery
  <2>1. /\ x_' = t /\ window_' = window_ /\ gravity_world_' = gravity_world_
        /\ \/ since_keyframe_' = since_keyframe_
           \/ since_keyframe_' = since_keyframe_ + 1 /\ since_keyframe_ + 1 < KeyframeEvery
    BY <1>1 DEF Keyframe, window
  <2>2. since_keyframe_' \in 0 .. KeyframeEvery - 1
    BY <2>1, Settings DEF WindowOK
  <2> QED
    BY <2>1, <2>2 DEF WindowOK
<1>2. CASE WindowEnabled /\ ~(since_keyframe_ + 1 < KeyframeEvery)
  <2>1. /\ since_keyframe_' = 0 /\ window_' = Pushed(window_, t)
        /\ \/ x_' = t /\ gravity_world_' = gravity_world_
           \/ /\ x_' = window_'[Len(window_')]
              /\ gravity_world_' = IF EstimateGravity THEN "window" ELSE gravity_world_
    BY <1>2 DEF Keyframe
  <2>2. window_' \in Seq(Ticks) /\ window_'[Len(window_')] = t
    BY <2>1, PushedIsSuffix DEF WindowOK
  <2>3. gravity_world_' \in {"nominal", "window"}
    BY <2>1 DEF WindowOK
  <2> QED
    BY <2>1, <2>2, <2>3, Settings DEF WindowOK
<1> QED
  BY <1>1, <1>2

\* A frame after the bootstrap.
LEMMA TrackingShape ==
  ASSUME Shape, NEW t \in Nat, t >= now, NEW hole \in BOOLEAN,
         \/ Solved(t, hole) \/ CoastOverHole(t, hole) \/ CoastOnImu(t, hole)
         \/ Lose(t, hole) \/ StayLost(t, hole)
  PROVE  Shape'
<1>1. InputsOK /\ CollectedOK /\ FlagsOK /\ StateOK /\ WindowOK /\ VisualOK /\ OutputsOK
  BY DEF Shape
<1>2. now \in Nat
  BY <1>1 DEF InputsOK
<1>3. /\ Frame(t, hole) /\ initialized_
      /\ UNCHANGED <<collected, initialized_, visual>> /\ last_failure_' = last_failure_
  BY DEF Solved, CoastOverHole, CoastOnImu, Lose, StayLost, TrackStep, state, diagnosis
<1>4. InputsOK' /\ t \in Ticks /\ now' = t
  BY <1>1, <1>3, FrameTaken
<1>5. CollectedOK' /\ VisualOK'
  BY <1>1, <1>2, <1>3, <1>4, CollectedLater, VisualLater
<1>6. map_ \subseteq Units /\ map_ \cup {"metre"} \subseteq Units /\ last_failure_ \in Failures
  BY <1>1 DEF OutputsOK, Units
<1>7. /\ warmup_ \in 0 .. WarmupFrames /\ x_ \in Ticks \cup {0} /\ t_prev_ \in Ticks \cup {0}
  BY <1>1 DEF StateOK
<1>8. lost_' \in BOOLEAN
  BY <1>1 DEF FlagsOK, Solved, CoastOverHole, CoastOnImu, Coasted, Lose, StayLost, state
<1>9. FlagsOK'
  BY <1>1, <1>3, <1>8 DEF FlagsOK, visual
<1>10. ASSUME map_' \in {map_, map_ \cup {"metre"}}, out'.stage \in {"Tracking", "Lost"}
       PROVE  OutputsOK'
  BY <1>3, <1>6, <1>10 DEF OutputsOK, Stages
<1>11. ASSUME Coasted(t), t_prev_' = t
       PROVE  StateOK' /\ WindowOK' /\ out'.stage = "Tracking"
  <2>1. warmup_ > 0 /\ warmup_' = warmup_ - 1 /\ x_' = t /\ UNCHANGED window /\ out'.stage = "Tracking"
    BY <1>11 DEF Coasted, Output
  <2>2. warmup_' \in 0 .. WarmupFrames
    BY <1>7, <2>1, Settings
  <2> QED
    BY <1>1, <1>4, <1>11, <2>1, <2>2 DEF StateOK, WindowOK, window
<1>12. CASE Solved(t, hole)
  <2>1. /\ t_prev_' = t /\ warmup_' = WarmupFrames /\ map_' = map_ \cup {"metre"}
        /\ Keyframe(t) /\ out'.stage = "Tracking"
    BY <1>12 DEF Solved, Restored, Grown, Output
  <2>2. WindowOK' /\ x_' = t
    BY <1>1, <1>4, <2>1, KeyframeOK
  <2>3. StateOK'
    BY <1>4, <2>1, <2>2, Settings DEF StateOK
  <2> QED
    BY <1>4, <1>5, <1>9, <1>10, <2>1, <2>2, <2>3 DEF Shape
<1>13. CASE CoastOverHole(t, hole)
  BY <1>4, <1>5, <1>9, <1>10, <1>11, <1>13 DEF CoastOverHole, Grown, TimeBase, Shape
<1>14. CASE CoastOnImu(t, hole)
  BY <1>4, <1>5, <1>9, <1>10, <1>11, <1>14 DEF CoastOnImu, Grown, Shape
<1>15. CASE Lose(t, hole)
  <2>1. /\ out'.stage = "Lost" /\ UNCHANGED window /\ map_' = map_
        /\ warmup_' = warmup_ /\ x_' = x_ /\ t_prev_' = t_prev_
    BY <1>15 DEF Lose, Output
  <2>2. StateOK' /\ WindowOK'
    BY <1>1, <2>1 DEF StateOK, WindowOK, window
  <2> QED
    BY <1>4, <1>5, <1>9, <1>10, <2>1, <2>2 DEF Shape
<1>16. CASE StayLost(t, hole)
  <2>1. /\ out'.stage = "Lost" /\ UNCHANGED window /\ map_' = map_
        /\ warmup_' = warmup_ /\ x_' = x_ /\ t_prev_' = t_prev_
    BY <1>16 DEF StayLost, Output, state
  <2>2. StateOK' /\ WindowOK'
    BY <1>1, <2>1 DEF StateOK, WindowOK, window
  <2> QED
    BY <1>4, <1>5, <1>9, <1>10, <2>1, <2>2 DEF Shape
<1> QED
  BY <1>12, <1>13, <1>14, <1>15, <1>16

LEMMA ShapeStep == Shape /\ [Next]_vars => Shape'
<1> SUFFICES ASSUME Shape, [Next]_vars PROVE Shape'
  OBVIOUS
<1>1. CASE UNCHANGED vars
  BY <1>1 DEF vars, collected, state, window, visual, diagnosis, counts,
              Shape, InputsOK, CollectedOK, FlagsOK, StateOK, WindowOK, VisualOK, OutputsOK
<1>2. CASE Reset
  BY <1>2, ShapeReset
<1>3. CASE \E gap \in 0 .. 2, hole \in BOOLEAN : Process(now + gap, hole)
  <2>1. PICK gap \in 0 .. 2, hole \in BOOLEAN : Process(now + gap, hole)
    BY <1>3
  <2>2. now + gap \in Nat /\ now + gap >= now
    BY DEF Shape, InputsOK
  <2> QED
    BY <2>1, <2>2, CollectingShape, VisualShape, TrackingShape DEF Process
<1> QED
  BY <1>1, <1>2, <1>3 DEF Next

LEMMA ShapeAlways == Spec => []Shape
BY ShapeInit, ShapeStep, PTL DEF Spec

\* For every setting of the parameters the variables stay in range; in particular the
\* frames collected never outgrow bootstrap_frames, and a visual init never runs after the
\* bootstrap (VioEstimator::process, bootstrap and visualInitStep).
THEOREM TypeCorrect == Spec => []TypeOK
BY ShapeAlways, ShapeIsType, PTL

-------------------------------------------------------------------------------
(***************************************************************************)
(* The units of the map.                                                    *)
(***************************************************************************)
LEMMA UnitsStep == Shape /\ UnitsApart /\ [Next]_vars => UnitsApart'
<1> SUFFICES ASSUME Shape, UnitsApart, [Next]_vars PROVE UnitsApart'
  OBVIOUS
<1>1. vis_active_ => ~initialized_
  BY DEF Shape, FlagsOK
<1>2. CASE UNCHANGED vars
  BY <1>2 DEF vars, state, visual, UnitsApart
<1>3. CASE Reset
  BY <1>3 DEF Reset, UnitsApart
<1>4. ASSUME NEW t, NEW hole, Process(t, hole) PROVE UnitsApart'
  <2>1. CASE Collect(t, hole) \/ Wait(t, hole) \/ BootstrapFails(t, hole)
    <3>1. initialized_' = initialized_ /\ vis_active_' = vis_active_ /\ map_' = map_
      BY <2>1 DEF Collect, Wait, BootstrapFails, NotAdopted, state, visual
    <3> QED
      BY <3>1 DEF UnitsApart
  <2>2. CASE BootstrapSucceeds(t, hole)
    BY <2>2 DEF BootstrapSucceeds, Adopt, Seeded, UnitsApart
  <2>3. CASE VisualInitStarts(t, hole)
    BY <2>3 DEF VisualInitStarts, Attempt, Attempting, NotAdopted, Seeded, state, UnitsApart
  <2>4. CASE VisualMiss(t, hole)
    BY <2>4 DEF VisualMiss, VisualStep, Visual, AbortVisualInit, NotAdopted, state, UnitsApart
  <2>5. CASE VisualGrow(t, hole) \/ VisualKeyframe(t, hole)
    <3>1. /\ ~initialized_ /\ vis_active_ /\ initialized_' = initialized_ /\ vis_active_' = vis_active_
          /\ map_' = map_ \cup {"ruler"}
      BY <2>5 DEF VisualGrow, VisualKeyframe, VisualStep, Visual, KeepsGoing, NotAdopted, state
    <3> QED
      BY <3>1 DEF UnitsApart
  <2>6. CASE VisualGivesUp(t, hole)
    BY <2>6 DEF VisualGivesUp, VisualStep, Visual, AbortVisualInit, NotAdopted, state, UnitsApart
  <2>7. CASE VisualAlign(t, hole)
    <3>1. ~initialized_ /\ vis_active_
      BY <2>7 DEF VisualAlign, VisualStep, Visual
    <3>2. \/ \E stamp : Adopt(stamp)
          \/ KeepsGoing /\ NotAdopted
      BY <2>7 DEF VisualAlign
    <3>3. \/ initialized_' /\ map_' = {"metre"}
          \/ /\ initialized_' = initialized_ /\ vis_active_' = vis_active_
             /\ map_' = map_ \cup {"ruler"}
      BY <3>2 DEF Adopt, KeepsGoing, NotAdopted, Seeded, state
    <3>4. CASE initialized_' /\ map_' = {"metre"}
      BY <3>4 DEF UnitsApart
    <3>5. CASE /\ initialized_' = initialized_ /\ vis_active_' = vis_active_
               /\ map_' = map_ \cup {"ruler"}
      <4>1. map_ \subseteq {"ruler"}
        BY <3>1 DEF UnitsApart
      <4>2. ~initialized_' /\ vis_active_'
        BY <3>1, <3>5
      <4> QED
        BY <3>5, <4>1, <4>2 DEF UnitsApart
    <3> QED
      BY <3>3, <3>4, <3>5
  <2>8. CASE Solved(t, hole) \/ CoastOverHole(t, hole) \/ CoastOnImu(t, hole)
    <3>1. initialized_ /\ initialized_' = initialized_ /\ (map_' = map_ \/ map_' = map_ \cup {"metre"})
      BY <2>8 DEF Solved, CoastOverHole, CoastOnImu, TrackStep, Grown
    <3> QED
      BY <3>1 DEF UnitsApart
  <2>9. CASE Lose(t, hole) \/ StayLost(t, hole)
    <3>1. initialized_ /\ initialized_' = initialized_ /\ map_' = map_
      BY <2>9 DEF Lose, StayLost, TrackStep, state
    <3> QED
      BY <3>1 DEF UnitsApart
  <2> QED
    BY <1>4, <2>1, <2>2, <2>3, <2>4, <2>5, <2>6, <2>7, <2>8, <2>9 DEF Process
<1> QED
  BY <1>2, <1>3, <1>4 DEF Next

\* Wherever a visual init begins, is given up or succeeds, and whatever the estimator was
\* before: metric landmarks and those in the reconstruction's units are never in one map.
THEOREM RulerDies == Spec => []UnitsApart
<1>1. Init => UnitsApart
  BY DEF Init, UnitsApart
<1> QED
  BY <1>1, UnitsStep, ShapeAlways, PTL DEF Spec

-------------------------------------------------------------------------------
(***************************************************************************)
(* The pace of the attempts: since_attempt_ never runs ahead of the frames     *)
(* really seen since the last one.                                           *)
(***************************************************************************)
Pace == sinceSfm \in Nat /\ sinceSfm <= RetryEvery /\ since_attempt_ <= sinceSfm

LEMMA OneFrameOn ==
  ASSUME Pace, NEW m, m = Min({sinceSfm + 1, RetryEvery})
  PROVE  m \in Nat /\ m > 0 /\ m <= RetryEvery /\ (m = sinceSfm + 1 \/ m = RetryEvery)
<1>1. sinceSfm + 1 \in Nat /\ RetryEvery \in Nat /\ RetryEvery > 0
  BY Settings DEF Pace
<1>2. m = IF sinceSfm + 1 <= RetryEvery THEN sinceSfm + 1 ELSE RetryEvery
  BY <1>1, MinOfTwo
<1> QED
  BY <1>1, <1>2 DEF Pace

\* A step makes an attempt, starts over, or counts one more frame.
LEMMA PaceOfStep ==
  ASSUME [Next]_vars
  PROVE  \/ sinceSfm' = 0 /\ since_attempt_' = 0 /\ Due
         \/ sinceSfm' = RetryEvery /\ since_attempt_' = 0
         \/ /\ sinceSfm' = Min({sinceSfm + 1, RetryEvery})
            /\ \/ since_attempt_' \in {since_attempt_, 0}
               \/ since_attempt_' = since_attempt_ + 1 /\ ~Due
         \/ UNCHANGED vars
<1>1. CASE Reset
  BY <1>1 DEF Reset
<1>2. ASSUME NEW t, NEW hole, Process(t, hole)
      PROVE  \/ sinceSfm' = 0 /\ since_attempt_' = 0 /\ Due
             \/ /\ sinceSfm' = Min({sinceSfm + 1, RetryEvery})
                /\ \/ since_attempt_' \in {since_attempt_, 0}
                   \/ since_attempt_' = since_attempt_ + 1 /\ ~Due
  <2>1. CASE Collect(t, hole) \/ Wait(t, hole)
    BY <2>1 DEF Collect, Wait, NoAttempt
  <2>2. CASE BootstrapSucceeds(t, hole) \/ BootstrapFails(t, hole) \/ VisualInitStarts(t, hole)
    BY <2>2 DEF BootstrapSucceeds, BootstrapFails, VisualInitStarts, Attempt
  <2>3. CASE VisualMiss(t, hole) \/ VisualGrow(t, hole) \/ VisualKeyframe(t, hole) \/ VisualGivesUp(t, hole)
    BY <2>3 DEF VisualMiss, VisualGrow, VisualKeyframe, VisualGivesUp, VisualStep, AbortVisualInit, KeepsGoing
  <2>4. CASE VisualAlign(t, hole)
    <3>1. since_attempt_' = since_attempt_
      BY <2>4 DEF VisualAlign, KeepsGoing
    <3> QED
      BY <2>4, <3>1 DEF VisualAlign, VisualStep
  <2>5. CASE Solved(t, hole) \/ CoastOverHole(t, hole) \/ CoastOnImu(t, hole) \/ Lose(t, hole) \/ StayLost(t, hole)
    BY <2>5 DEF Solved, CoastOverHole, CoastOnImu, Lose, StayLost, TrackStep, NoAttempt, collected
  <2> QED
    BY <1>2, <2>1, <2>2, <2>3, <2>4, <2>5 DEF Process
<1> QED
  BY <1>1, <1>2 DEF Next

LEMMA PaceStep == Shape /\ Pace /\ [Next]_vars => Pace' /\ [sinceSfm' = 0 => sinceSfm + 1 >= RetryEvery]_vars
<1> SUFFICES ASSUME Shape, Pace, [Next]_vars
             PROVE  Pace' /\ [sinceSfm' = 0 => sinceSfm + 1 >= RetryEvery]_vars
  OBVIOUS
<1>1. since_attempt_ \in Nat /\ since_attempt_ < RetryEvery
  BY Settings DEF Shape, CollectedOK
<1>2. CASE sinceSfm' = 0 /\ since_attempt_' = 0 /\ Due
  BY <1>1, <1>2, Settings DEF Pace, Due
<1>3. CASE sinceSfm' = RetryEvery /\ since_attempt_' = 0
  BY <1>3, Settings DEF Pace
<1>4. CASE /\ sinceSfm' = Min({sinceSfm + 1, RetryEvery})
           /\ \/ since_attempt_' \in {since_attempt_, 0}
              \/ since_attempt_' = since_attempt_ + 1 /\ ~Due
  <2>1. /\ sinceSfm' \in Nat /\ sinceSfm' > 0 /\ sinceSfm' <= RetryEvery
        /\ sinceSfm' = sinceSfm + 1 \/ sinceSfm' = RetryEvery
    BY <1>4, OneFrameOn
  <2>2. since_attempt_' <= sinceSfm'
    BY <1>1, <1>4, <2>1, Settings DEF Pace, Due
  <2> QED
    BY <2>1, <2>2 DEF Pace
<1>5. CASE UNCHANGED vars
  BY <1>5 DEF vars, counts, collected, Pace
<1> QED
  BY <1>2, <1>3, <1>4, <1>5, PaceOfStep

LEMMA PaceInit == Init => Pace
<1>1. Init => since_attempt_ = 0 /\ sinceSfm = RetryEvery
  BY DEF Init
<1> QED
  BY <1>1, Settings DEF Pace

\* For every bootstrap_retry_every: two reconstructions are that many frames apart, also when
\* a visual init was begun and given up in between.
THEOREM PacedAttempts == Spec => AttemptsPaced
<1>1. Spec => []Pace
  BY PaceInit, PaceStep, ShapeAlways, PTL DEF Spec
<1>2. Shape /\ Pace /\ [Next]_vars => [sinceSfm' = 0 => sinceSfm + 1 >= RetryEvery]_vars
  BY PaceStep
<1> QED
  BY <1>1, <1>2, ShapeAlways, PTL DEF Spec, AttemptsPaced

-------------------------------------------------------------------------------
(***************************************************************************)
(* The state, its time base and the window.                                 *)
(***************************************************************************)
\* Before the bootstrap a frame leaves no trace in the window; it ends in one, or does not.
LEMMA BeforeBootstrap ==
  ASSUME Shape, NEW t \in Nat, t >= now, NEW hole \in BOOLEAN, Process(t, hole), ~initialized_
  PROVE  NotAdopted \/ \E stamp \in Ticks : stamp <= t /\ Adopt(stamp)
<1>1. CASE BootstrapSucceeds(t, hole)
  BY <1>1, SucceedsAt
<1>2. CASE VisualAlign(t, hole)
  BY <1>2, AlignsAt
<1> QED
  BY <1>1, <1>2 DEF Process, Collect, Wait, BootstrapFails, VisualInitStarts, VisualMiss, VisualGrow,
     VisualKeyframe, VisualGivesUp, Solved, CoastOverHole, CoastOnImu, Lose, StayLost, TrackStep

LEMMA FreshStep == Shape /\ NothingInherited /\ [Next]_vars => NothingInherited'
<1> SUFFICES ASSUME Shape, NothingInherited, [Next]_vars PROVE NothingInherited'
  OBVIOUS
<1>1. Shape'
  BY ShapeStep
<1>2. \A i \in DOMAIN frames_' : frames_'[i] <= now'
  BY <1>1 DEF Shape, CollectedOK
<1>3. CASE UNCHANGED vars
  BY <1>3 DEF vars, collected, state, window, NothingInherited
<1>4. CASE Reset
  <2>1. frames_' = <<>> /\ window_' = <<>> /\ since_keyframe_' = 0 /\ gravity_world_' = "nominal"
    BY <1>4 DEF Reset, GravityAfterReset
  <2> QED
    BY <1>2, <2>1 DEF NothingInherited
<1>5. ASSUME NEW gap \in 0 .. 2, NEW hole \in BOOLEAN, Process(now + gap, hole)
      PROVE  NothingInherited'
  <2>1. now + gap \in Nat /\ now + gap >= now /\ InputsOK
    BY DEF Shape, InputsOK
  <2>2. imu_'.upto = now'
    <3>1. Frame(now + gap, hole)
      BY <1>5 DEF Process, Collect, Wait, BootstrapSucceeds, BootstrapFails, VisualInitStarts, Attempt,
         VisualMiss, VisualGrow, VisualKeyframe, VisualGivesUp, VisualAlign, VisualStep,
         Solved, CoastOverHole, CoastOnImu, Lose, StayLost, TrackStep
    <3> QED
      BY <2>1, <3>1, FrameTaken
  <2>3. CASE ~initialized_
    <3>1. initialized_' \/ UNCHANGED window
      BY <1>5, <2>1, <2>3, BeforeBootstrap DEF Adopt, NotAdopted
    <3> QED
      BY <1>2, <2>2, <2>3, <3>1 DEF NothingInherited, window
  <2>4. CASE initialized_
    <3>1. initialized_'
      BY <1>5, <2>4 DEF Process, Collect, Collecting, Wait, BootstrapSucceeds, BootstrapFails, VisualInitStarts,
         Attempt, Attempting, VisualMiss, VisualGrow, VisualKeyframe, VisualGivesUp, VisualAlign, VisualStep, Visual,
         Solved, CoastOverHole, CoastOnImu, Lose, StayLost, TrackStep, state
    <3> QED
      BY <2>2, <3>1 DEF NothingInherited
  <2> QED
    BY <2>3, <2>4
<1> QED
  BY <1>3, <1>4, <1>5 DEF Next

LEMMA FreshInit == Init => NothingInherited
<1> SUFFICES ASSUME Init PROVE NothingInherited
  OBVIOUS
<1>1. frames_ = <<>> /\ window_ = <<>> /\ since_keyframe_ = 0 /\ gravity_world_ = "nominal" /\ now = 0
  BY DEF Init
<1> QED
  BY <1>1, EmptyStamps DEF NothingInherited

\* However often the estimator is reset, by a loss or by a new replay whose stamps start over:
\* until the next bootstrap there is no window, the gravity is the nominal one, and the
\* samples are those of this run, up to the last frame.
THEOREM WorldDefinedAfresh == Spec => []NothingInherited
BY FreshInit, FreshStep, ShapeAlways, PTL DEF Spec

\* The state is at its time base, which is not in the future, and the window is in order up
\* to it: what makes the keyframe that is pushed next the newest.
StateInv ==
  initialized_ =>
    /\ x_ = t_prev_ /\ t_prev_ <= now
    /\ Len(window_) <= MaxKeyframes + 1
    /\ \A i \in DOMAIN window_ : window_[i] <= t_prev_
    /\ \A i \in 1 .. Len(window_) - 1 : window_[i] < window_[i + 1]

LEMMA PushedInOrder ==
  ASSUME NEW s \in Seq(Ticks), NEW t \in Ticks, \A i \in DOMAIN s : s[i] < t,
         \A i \in 1 .. Len(s) - 1 : s[i] < s[i + 1], NEW w, w = Pushed(s, t)
  PROVE  /\ Len(w) <= MaxKeyframes + 1
         /\ \A i \in DOMAIN w : w[i] <= t
         /\ \A i \in 1 .. Len(w) - 1 : w[i] < w[i + 1]
<1> DEFINE d == Len(s) + 1 - Len(w)
<1>1. w \in Seq(Ticks) /\ Len(w) > 0 /\ Len(w) <= MaxKeyframes + 1 /\ Len(w) <= Len(s) + 1
  BY PushedIsSuffix
<1>2. w[Len(w)] = t /\ \A i \in 1 .. Len(w) - 1 : w[i] = s[i + (Len(s) + 1 - Len(w))]
  <2>1. Pushed(s, t)[Len(Pushed(s, t))] = t
    BY PushedIsSuffix
  <2>2. \A i \in 1 .. Len(Pushed(s, t)) - 1 :
          Pushed(s, t)[i] = s[i + (Len(s) + 1 - Len(Pushed(s, t)))]
    BY PushedIsSuffix
  <2> QED
    BY <2>1, <2>2
<1>3. Len(w) \in Nat /\ Len(s) \in Nat /\ DOMAIN w = 1 .. Len(w) /\ DOMAIN s = 1 .. Len(s)
  BY <1>1
<1>4. \A i \in 1 .. Len(s) : s[i] \in Nat /\ s[i] < t /\ t \in Nat
  <2>1. \A i \in 1 .. Len(s) : s[i] \in Ticks
    OBVIOUS
  <2> QED
    BY <1>3, <2>1, Settings DEF Ticks
<1>5. t \in Nat
  BY Settings DEF Ticks
<1>8. d \in Nat /\ Len(w) + d = Len(s) + 1
  BY <1>1, <1>3
<1> HIDE DEF d
<1>6. ASSUME NEW i \in 1 .. Len(w) PROVE w[i] <= t
  <2>1. CASE i = Len(w)
    BY <2>1, <1>2, <1>5
  <2>2. CASE i # Len(w)
    <3> DEFINE m == Len(w)
               n == Len(s)
    <3>1. m \in Nat /\ n \in Nat /\ m + d = n + 1 /\ i \in 1 .. m /\ i # m
      BY <2>2, <1>3, <1>8
    <3> HIDE DEF m, n
    <3>2. i \in 1 .. m - 1 /\ i + d \in 1 .. n
      BY <3>1, <1>8
    <3>3. i \in 1 .. Len(w) - 1 /\ i + d \in 1 .. Len(s)
      BY <3>2 DEF m, n
    <3>4. w[i] = s[i + d]
      BY <3>3, <1>2 DEF d
    <3> QED
      BY <3>3, <3>4, <1>4
  <2> QED
    BY <2>1, <2>2
<1>7. ASSUME NEW i \in 1 .. Len(w) - 1 PROVE w[i] < w[i + 1]
  <2>1. i + d \in 1 .. Len(s) /\ (i + 1) + d = (i + d) + 1
    BY <1>3, <1>8
  <2>4. w[i] = s[i + d]
    BY <1>2 DEF d
  <2>2. CASE i + 1 = Len(w)
    <3>1. w[i + 1] = t
      BY <2>2, <1>2
    <3> QED
      BY <2>1, <2>4, <3>1, <1>4
  <2>3. CASE i + 1 # Len(w)
    <3> DEFINE m == Len(w)
               n == Len(s)
    <3>1. m \in Nat /\ n \in Nat /\ m + d = n + 1 /\ i \in 1 .. m - 1 /\ i + 1 # m
      BY <2>3, <1>3, <1>8
    <3> HIDE DEF m, n
    <3>2. i + 1 \in 1 .. m - 1 /\ i + d \in 1 .. n - 1
      BY <3>1, <1>8
    <3>3. i + 1 \in 1 .. Len(w) - 1 /\ i + d \in 1 .. Len(s) - 1
      BY <3>2 DEF m, n
    <3>4. w[i + 1] = s[(i + 1) + d]
      BY <3>3, <1>2 DEF d
    <3> QED
      BY <2>1, <2>4, <3>3, <3>4
  <2> QED
    BY <2>2, <2>3
<1> QED
  BY <1>1, <1>3, <1>6, <1>7

LEMMA StateOfProcess ==
  ASSUME Shape, StateInv, NEW t \in Nat, t >= now, NEW hole \in BOOLEAN, Process(t, hole)
  PROVE  StateInv'
<1>1. InputsOK /\ FlagsOK /\ StateOK /\ WindowOK
  BY DEF Shape
<1>2. now \in Nat
  BY <1>1 DEF InputsOK
<1>3. Frame(t, hole)
  BY DEF Process, Collect, Wait, BootstrapSucceeds, BootstrapFails, VisualInitStarts, Attempt,
     VisualMiss, VisualGrow, VisualKeyframe, VisualGivesUp, VisualAlign, VisualStep,
     Solved, CoastOverHole, CoastOnImu, Lose, StayLost, TrackStep
<1>4. t \in Ticks /\ now' = t
  BY <1>1, <1>3, FrameTaken
<1>5. t_prev_ \in Nat /\ window_ \in Seq(Ticks) /\ DOMAIN window_ = 1 .. Len(window_) /\ Len(window_) \in Nat
  BY <1>1, Settings DEF StateOK, WindowOK, Ticks
<1>6. \A i \in DOMAIN window_ : window_[i] \in Nat
  BY <1>5, Settings DEF Ticks
<1>7. CASE ~initialized_
  <2>1. CASE NotAdopted
    BY <1>7, <2>1 DEF NotAdopted, state, StateInv
  <2>2. ASSUME NEW stamp \in Ticks, stamp <= t, Adopt(stamp) PROVE StateInv'
    <3>1. x_' = stamp /\ t_prev_' = stamp /\ window_' = IF WindowEnabled THEN <<stamp>> ELSE <<>>
      BY <2>2 DEF Adopt
    <3>2. stamp \in Nat
      BY Settings DEF Ticks
    <3>3. \/ Len(window_') = 0 /\ DOMAIN window_' = {}
          \/ Len(window_') = 1 /\ DOMAIN window_' = {1} /\ window_'[1] = stamp
      BY <3>1
    <3>4. 1 .. 0 - 1 = {} /\ 1 .. 1 - 1 = {}
      OBVIOUS
    <3>5. Len(window_') <= MaxKeyframes + 1 /\ \A i \in DOMAIN window_' : window_'[i] <= t_prev_'
      BY <3>1, <3>2, <3>3, Settings
    <3>6. 1 .. Len(window_') - 1 = {}
      BY <3>3, <3>4
    <3> QED
      BY <1>4, <2>2, <3>1, <3>5, <3>6 DEF StateInv
  <2> QED
    BY <1>7, <2>1, <2>2, BeforeBootstrap
<1>8. CASE initialized_
  <2>1. /\ x_ = t_prev_ /\ t_prev_ <= now
        /\ Len(window_) <= MaxKeyframes + 1
        /\ \A i \in DOMAIN window_ : window_[i] <= t_prev_
        /\ \A i \in 1 .. Len(window_) - 1 : window_[i] < window_[i + 1]
    BY <1>8 DEF StateInv
  <2>2. \A i \in DOMAIN window_ : window_[i] <= t
    BY <1>2, <1>5, <1>6, <2>1
  <2>3. CASE Lose(t, hole) \/ StayLost(t, hole)
    <3>1. x_' = x_ /\ t_prev_' = t_prev_ /\ window_' = window_
      BY <2>3 DEF Lose, StayLost, state, window
    <3>2. t_prev_' <= now'
      BY <1>2, <1>4, <1>5, <2>1, <3>1
    <3> QED
      BY <2>1, <3>1, <3>2 DEF StateInv
  <2>4. CASE CoastOverHole(t, hole) \/ CoastOnImu(t, hole)
    <3>1. x_' = t /\ t_prev_' = t /\ window_' = window_
      BY <2>4 DEF CoastOverHole, CoastOnImu, Coasted, TimeBase, window
    <3> QED
      BY <1>4, <2>1, <2>2, <3>1 DEF StateInv
  <2>5. CASE Solved(t, hole)
    <3>1. t_prev_' = t /\ Keyframe(t) /\ Preintegrates
      BY <2>5 DEF Solved
    <3>2. t_prev_ < t
      BY <3>1, <1>4 DEF Preintegrates, Continuous
    <3>3. x_' = t
      BY <1>1, <1>4, <3>1, KeyframeOK
    <3>4. CASE window_' = window_
      BY <1>4, <2>1, <2>2, <3>1, <3>3, <3>4 DEF StateInv
    <3>5. CASE window_' = Pushed(window_, t)
      <4>1. \A i \in DOMAIN window_ : window_[i] < t
        BY <1>5, <1>6, <2>1, <3>2
      <4>2. /\ Len(window_') <= MaxKeyframes + 1
            /\ \A i \in DOMAIN window_' : window_'[i] <= t
            /\ \A i \in 1 .. Len(window_') - 1 : window_'[i] < window_'[i + 1]
        BY <1>4, <1>5, <2>1, <3>5, <4>1, PushedInOrder
      <4> QED
        BY <1>4, <3>1, <3>3, <4>2 DEF StateInv
    <3>6. window_' = window_ \/ window_' = Pushed(window_, t)
      BY <3>1 DEF Keyframe, window
    <3> QED
      BY <3>4, <3>5, <3>6
  <2> QED
    BY <1>8, <2>3, <2>4, <2>5 DEF Process, Collect, Collecting, Wait, BootstrapSucceeds, BootstrapFails,
       VisualInitStarts, Attempt, Attempting, VisualMiss, VisualGrow, VisualKeyframe, VisualGivesUp,
       VisualAlign, VisualStep, Visual
<1> QED
  BY <1>7, <1>8

LEMMA StateStep == Shape /\ StateInv /\ [Next]_vars => StateInv'
<1> SUFFICES ASSUME Shape, StateInv, [Next]_vars PROVE StateInv'
  OBVIOUS
<1>1. CASE UNCHANGED vars
  BY <1>1 DEF vars, state, window, StateInv
<1>2. CASE Reset
  BY <1>2 DEF Reset, StateInv
<1>3. ASSUME NEW gap \in 0 .. 2, NEW hole \in BOOLEAN, Process(now + gap, hole)
      PROVE  StateInv'
  <2>1. now + gap \in Nat /\ now + gap >= now
    BY DEF Shape, InputsOK
  <2> QED
    BY <1>3, <2>1, StateOfProcess
<1> QED
  BY <1>1, <1>2, <1>3 DEF Next

LEMMA StateAlways == Spec => []StateInv
<1>1. Init => StateInv
  BY DEF Init, StateInv
<1> QED
  BY <1>1, StateStep, ShapeAlways, PTL DEF Spec

\* For every warm-up, window size and keyframe spacing: the state belongs to the time the next
\* preintegration starts at, whichever way the frame was coasted, solved or re-solved by the
\* window, and no keyframe is newer.
THEOREM StateAtItsTime == Spec => []StateAtTPrev
<1>1. StateInv => StateAtTPrev
  BY DEF StateInv, StateAtTPrev
<1> QED
  BY <1>1, StateAlways, PTL

\* Keyframes are strictly in time order, whatever stamps come in, and at most max_keyframes and
\* the anchor.
THEOREM WindowOrdered == Spec => []WindowInOrder
<1>1. Shape /\ StateInv /\ NothingInherited => WindowInOrder
  <2> SUFFICES ASSUME Shape, StateInv, NothingInherited PROVE WindowInOrder
    OBVIOUS
  <2>1. CASE initialized_
    BY <2>1 DEF StateInv, WindowInOrder
  <2>2. CASE ~initialized_
    <3>1. Len(window_) = 0
      BY <2>2, EmptyStamps DEF NothingInherited
    <3> QED
      BY <3>1, Settings DEF WindowInOrder
  <2> QED
    BY <2>1, <2>2
<1> QED
  BY <1>1, ShapeAlways, StateAlways, WorldDefinedAfresh, PTL

-------------------------------------------------------------------------------
(***************************************************************************)
(* The lifecycle: what warmup_ has left and the frames vision did not solve    *)
(* always add up to the grace.                                               *)
(***************************************************************************)
LifeInv ==
  /\ unsolved \in Nat
  /\ ~initialized_ => out.stage \in {"None", "Collecting"} /\ unsolved = 0
  /\ ~initialized_ /\ (frames_ # <<>> \/ vis_active_) => out.stage = "Collecting"
  /\ initialized_ /\ ~lost_ => /\ out.stage \in {"Bootstrapped", "Tracking"}
                              /\ unsolved + warmup_ = WarmupFrames
  /\ initialized_ /\ lost_ => out.stage = "Lost"

\* A metre takes a window of more than three frames, so that a bootstrap is never the answer
\* to the first frame.
LEMMA MetreNeedsFrames ==
  ASSUME NEW f \in Seq(Ticks), Len(f) > 0, NEW covered, NEW r \in Results(f, covered), r.solution # "none"
  PROVE  Len(f) > 3
<1>1. WindowFrames \in Nat /\ Len(f) \in Nat /\ Len(f) - WindowFrames + 1 \in Int
  BY BootstrapAssumption
<1> DEFINE low == Max({1, Len(f) - WindowFrames + 1})
<1>2. low >= 1 /\ low \in Int
  BY <1>1, MaxOfTwo
<1>3. SfmWindow(f) = low .. Len(f)
  BY DEF SfmWindow
<1> HIDE DEF low
<1>4. Cardinality(SfmWindow(f)) = IF low > Len(f) THEN 0 ELSE Len(f) - low + 1
  <2> DEFINE n == Len(f)
  <2>1. low \in Int /\ n \in Int /\ SfmWindow(f) = low .. n
    BY <1>1, <1>2, <1>3
  <2> HIDE DEF n
  <2>2. Cardinality(low .. n) = IF low > n THEN 0 ELSE n - low + 1
    BY <2>1, FS_Interval, Zenon
  <2> QED
    BY <2>1, <2>2 DEF n
<1>5. CASE Len(f) - Cardinality(SfmWindow(f)) + 3 >= Len(f)
  <2>1. r \in {[posed |-> {}, pairs |-> 0, intervals |-> 0, solution |-> "none"]}
    BY <1>5 DEF Results
  <2> QED
    BY <2>1
<1>6. CASE ~(Len(f) - Cardinality(SfmWindow(f)) + 3 >= Len(f))
  BY <1>1, <1>2, <1>4, <1>6
<1> QED
  BY <1>5, <1>6

\* The frame that is adopted follows one that was collected.
LEMMA AdoptsFromCollecting ==
  ASSUME Shape, LifeInv, NEW t \in Nat, t >= now, NEW hole \in BOOLEAN,
         BootstrapSucceeds(t, hole) \/ VisualAlign(t, hole)
  PROVE  ~initialized_ /\ out.stage = "Collecting"
<1>1. CASE BootstrapSucceeds(t, hole)
  <2> DEFINE f == Append(frames_, t)
  <2>1. InputsOK /\ CollectedOK /\ ~initialized_ /\ Frame(t, hole) /\ now \in Nat
    BY <1>1 DEF Shape, InputsOK, BootstrapSucceeds, Attempt, Attempting
  <2>2. t \in Ticks
    BY <2>1, FrameTaken
  <2>3. f \in Seq(Ticks) /\ Len(f) = Len(frames_) + 1 /\ Len(frames_) \in Nat
    BY <2>1, <2>2, FrameAdded DEF CollectedOK
  <2>4. PICK r \in Results(f, imu_'.covered) : r.solution = "metric"
    BY <1>1 DEF BootstrapSucceeds
  <2>5. Len(f) > 3
    <3>1. Len(f) > 0 /\ r.solution # "none"
      BY <2>3, <2>4
    <3> HIDE DEF f
    <3> QED
      BY <2>3, <3>1, MetreNeedsFrames
  <2>6. frames_ # <<>>
    BY <2>3, <2>5, EmptyStamps
  <2> QED
    BY <2>1, <2>6 DEF LifeInv
<1>2. CASE VisualAlign(t, hole)
  BY <1>2 DEF VisualAlign, VisualStep, Visual, LifeInv
<1> QED
  BY <1>1, <1>2

Promised == Promise!Next \/ UNCHANGED <<out.stage, unsolved>>

\* One lemma for each way on.
LEMMA LifeCollects ==
  ASSUME Shape, LifeInv, ~initialized_, NotAdopted
  PROVE  LifeInv' /\ Promised
<1>1. /\ out'.stage = "Collecting" /\ unsolved' = unsolved /\ ~initialized_'
  BY DEF NotAdopted, Output, state
<1>2. unsolved = 0 /\ out.stage \in {"None", "Collecting"}
  BY DEF LifeInv
<1> QED
  BY <1>1, <1>2 DEF LifeInv, Promised, Promise!Next, Promise!Collect

LEMMA LifeAdopts ==
  ASSUME Shape, LifeInv, ~initialized_, out.stage = "Collecting", NEW stamp, Adopt(stamp)
  PROVE  LifeInv' /\ Promised
<1>1. /\ out'.stage = "Bootstrapped" /\ unsolved' = unsolved /\ initialized_' /\ lost_' = lost_
      /\ warmup_' = WarmupFrames
  BY DEF Adopt, Output
<1>2. unsolved = 0 /\ ~lost_ /\ WarmupFrames \in Nat
  BY Settings DEF LifeInv, Shape, FlagsOK
<1>3. ~lost_' /\ unsolved' = 0 /\ unsolved' + warmup_' = WarmupFrames
  BY <1>1, <1>2
<1> QED
  BY <1>1, <1>3 DEF LifeInv, Promised, Promise!Next, Promise!Bootstrap

LEMMA LifeTracks ==
  ASSUME Shape, LifeInv, NEW t, NEW hole,
         Solved(t, hole) \/ CoastOverHole(t, hole) \/ CoastOnImu(t, hole) \/ Lose(t, hole)
  PROVE  LifeInv' /\ Promised
<1>1. initialized_ /\ ~lost_ /\ initialized_' = initialized_
  BY DEF Solved, CoastOverHole, CoastOnImu, Lose, TrackStep
<1>2. /\ out.stage \in {"Bootstrapped", "Tracking"} /\ unsolved + warmup_ = WarmupFrames
      /\ unsolved \in Nat /\ warmup_ \in Nat /\ WarmupFrames \in Nat
  BY <1>1, Settings DEF LifeInv, Shape, StateOK
<1>3. CASE Solved(t, hole)
  <2>1. out'.stage = "Tracking" /\ unsolved' = 0 /\ lost_' = lost_ /\ warmup_' = WarmupFrames
    BY <1>3 DEF Solved, Output, Restored
  <2>2. unsolved' \in Nat /\ unsolved' + warmup_' = WarmupFrames
    BY <1>2, <2>1
  <2> QED
    BY <1>1, <1>2, <2>1, <2>2 DEF LifeInv, Promised, Promise!Next, Promise!Solve, Promise!Tracks
<1>4. CASE CoastOverHole(t, hole) \/ CoastOnImu(t, hole)
  <2>1. /\ out'.stage = "Tracking" /\ unsolved' = unsolved + 1 /\ lost_' = lost_
        /\ warmup_ > 0 /\ warmup_' = warmup_ - 1
    BY <1>4 DEF CoastOverHole, CoastOnImu, Coasted, Output
  <2>2. unsolved' \in Nat /\ unsolved' + warmup_' = WarmupFrames /\ unsolved < WarmupFrames
    BY <1>2, <2>1
  <2> QED
    BY <1>1, <1>2, <2>1, <2>2 DEF LifeInv, Promised, Promise!Next, Promise!Coast, Promise!Tracks
<1>5. CASE Lose(t, hole)
  <2>1. /\ out'.stage = "Lost" /\ unsolved' = unsolved /\ lost_' /\ warmup_ = 0
    BY <1>5 DEF Lose, Output
  <2>2. unsolved = WarmupFrames
    BY <1>2, <2>1
  <2> QED
    BY <1>1, <1>2, <2>1, <2>2 DEF LifeInv, Promised, Promise!Next, Promise!Lose, Promise!Tracks
<1> QED
  BY <1>3, <1>4, <1>5

LEMMA LifeStep == Shape /\ LifeInv /\ [Next]_vars => LifeInv' /\ Promised
<1> SUFFICES ASSUME Shape, LifeInv, [Next]_vars PROVE LifeInv' /\ Promised
  OBVIOUS
<1>1. CASE UNCHANGED vars
  <2>1. /\ out' = out /\ unsolved' = unsolved /\ frames_' = frames_ /\ vis_active_' = vis_active_
        /\ initialized_' = initialized_ /\ lost_' = lost_ /\ warmup_' = warmup_
    BY <1>1 DEF vars, counts, collected, state, visual
  <2> QED
    BY <2>1 DEF LifeInv, Promised
<1>2. CASE Reset
  <2>1. out'.stage = "None" /\ unsolved' = 0 /\ ~initialized_' /\ frames_' = <<>> /\ ~vis_active_'
    BY <1>2 DEF Reset
  <2> QED
    BY <2>1 DEF LifeInv, Promised, Promise!Next, Promise!Reset
<1>3. ASSUME NEW gap \in 0 .. 2, NEW hole \in BOOLEAN, Process(now + gap, hole)
      PROVE  LifeInv' /\ Promised
  <2> DEFINE t == now + gap
  <2>1. t \in Nat /\ t >= now
    BY DEF Shape, InputsOK
  <2> HIDE DEF t
  <2>2. Process(t, hole)
    BY <1>3 DEF t
  <2>3. CASE BootstrapSucceeds(t, hole) \/ VisualAlign(t, hole)
    <3>1. ~initialized_ /\ out.stage = "Collecting"
      BY <2>1, <2>3, AdoptsFromCollecting
    <3>2. NotAdopted \/ \E stamp \in Ticks : Adopt(stamp)
      BY <2>1, <2>2, <3>1, BeforeBootstrap
    <3> QED
      BY <3>1, <3>2, LifeCollects, LifeAdopts
  <2>4. CASE \/ Collect(t, hole) \/ Wait(t, hole) \/ BootstrapFails(t, hole) \/ VisualInitStarts(t, hole)
             \/ VisualMiss(t, hole) \/ VisualGrow(t, hole) \/ VisualKeyframe(t, hole) \/ VisualGivesUp(t, hole)
    <3>1. ~initialized_ /\ NotAdopted
      BY <2>4 DEF Collect, Collecting, Wait, BootstrapFails, VisualInitStarts, Attempt, Attempting,
         VisualMiss, VisualGrow, VisualKeyframe, VisualGivesUp, VisualStep, Visual
    <3> QED
      BY <3>1, LifeCollects
  <2>5. CASE Solved(t, hole) \/ CoastOverHole(t, hole) \/ CoastOnImu(t, hole) \/ Lose(t, hole)
    BY <2>5, LifeTracks
  <2>6. CASE StayLost(t, hole)
    <3>1. /\ initialized_ /\ lost_ /\ initialized_' = initialized_ /\ lost_' = lost_
          /\ out'.stage = "Lost" /\ unsolved' = unsolved
      BY <2>6 DEF StayLost, state, Output
    <3> QED
      BY <3>1 DEF LifeInv, Promised
  <2> QED
    BY <2>2, <2>3, <2>4, <2>5, <2>6 DEF Process
<1> QED
  BY <1>1, <1>2, <1>3 DEF Next

LEMMA LifeInit == Init => LifeInv /\ Promise!Init
<1> SUFFICES ASSUME Init PROVE LifeInv /\ Promise!Init
  OBVIOUS
<1>1. out.stage = "None" /\ unsolved = 0 /\ ~initialized_ /\ frames_ = <<>> /\ ~vis_active_
  BY DEF Init
<1> QED
  BY <1>1 DEF LifeInv, Promise!Init

\* The estimator implements what its header promises of the stages: lost only after the whole
\* grace, counted from the last frame vision solved, and only reset() leads back.
THEOREM LifecycleKept == Spec => KeepsLifecycle
<1>1. Spec => []LifeInv
  BY LifeInit, LifeStep, ShapeAlways, PTL DEF Spec
<1>2. Shape /\ LifeInv /\ [Next]_vars => [Promise!Next]_(Promise!lifecycle)
  BY LifeStep DEF Promised, Promise!lifecycle
<1> QED
  BY <1>1, <1>2, LifeInit, ShapeAlways, PTL DEF Spec, KeepsLifecycle, Promise!Lifecycle

-------------------------------------------------------------------------------
(***************************************************************************)
(* A visual init that is too long: the frames since then are at most the       *)
(* misses and poses that fit between two keyframes.                          *)
(***************************************************************************)
PerPose == VisualInitMaxMisses + 1

Overdue ==
  /\ overdue \in Nat
  /\ vis_active_ \in BOOLEAN /\ vis_since_kf_ \in Nat /\ vis_misses_ \in Nat
  /\ ~vis_active_ => overdue = 0
  /\ vis_active_ => /\ vis_since_kf_ < KeyframeEvery
                    /\ vis_misses_ <= VisualInitMaxMisses
                    /\ overdue <= vis_since_kf_ * PerPose + vis_misses_

LEMMA OneMore ==
  ASSUME NEW s \in Nat, NEW p \in Nat
  PROVE  s * p \in Nat /\ (s + 1) * p = s * p + p
BY SMT

LEMMA NeverNegative == ASSUME NEW s \in Nat, NEW p \in Nat PROVE s * p >= 0
BY SMT

\* Fewer keyframes' worth is less, by one at least.
LEMMA OneLess ==
  ASSUME NEW s \in Nat, NEW n \in Nat, s < n, NEW p \in Nat
  PROVE  s * p + p <= n * p
<1> DEFINE d == n - (s + 1)
<1>1. d \in Nat /\ n = d + (s + 1)
  OBVIOUS
<1> HIDE DEF d
<1>2. n * p = d * p + (s + 1) * p
  BY <1>1
<1> QED
  BY <1>1, <1>2, OneMore, NeverNegative

\* The four things a step can do to a visual init: leave it, end it, bring a keyframe or
\* begin it, try one more frame.
LEMMA OverdueOfStep ==
  ASSUME Shape, [Next]_vars, VisualInitSeconds <= VisualInitMaxSeconds
  PROVE  \/ UNCHANGED <<overdue, vis_active_, vis_since_kf_, vis_misses_>>
         \/ overdue' = 0 /\ ~vis_active_'
         \/ overdue' = 0 /\ vis_since_kf_' = 0 /\ vis_misses_' = 0
         \/ /\ vis_active_ /\ vis_active_' = vis_active_ /\ overdue' \in {0, overdue + 1}
            /\ \/ /\ vis_misses_' = vis_misses_ + 1 /\ vis_misses_ + 1 <= VisualInitMaxMisses
                  /\ vis_since_kf_' = vis_since_kf_
               \/ /\ vis_misses_' = 0
                  /\ vis_since_kf_' = vis_since_kf_ + 1 /\ vis_since_kf_ + 1 < KeyframeEvery
<1>1. CASE UNCHANGED vars
  BY <1>1 DEF vars, visual, counts
<1>2. CASE Reset
  BY <1>2 DEF Reset
<1>3. ASSUME NEW gap \in 0 .. 2, NEW hole, Process(now + gap, hole)
      PROVE  \/ UNCHANGED <<overdue, vis_active_, vis_since_kf_, vis_misses_>>
             \/ overdue' = 0 /\ ~vis_active_'
             \/ overdue' = 0 /\ vis_since_kf_' = 0 /\ vis_misses_' = 0
             \/ /\ vis_active_ /\ vis_active_' = vis_active_ /\ overdue' \in {0, overdue + 1}
                /\ \/ /\ vis_misses_' = vis_misses_ + 1 /\ vis_misses_ + 1 <= VisualInitMaxMisses
                      /\ vis_since_kf_' = vis_since_kf_
                   \/ /\ vis_misses_' = 0
                      /\ vis_since_kf_' = vis_since_kf_ + 1 /\ vis_since_kf_ + 1 < KeyframeEvery
  <2> DEFINE t == now + gap
  <2>1. t \in Nat /\ vis_t0_ \in Nat /\ {VisualInitSeconds, VisualInitMaxSeconds} \subseteq Nat
    BY EstimatorAssumption DEF Shape, InputsOK, VisualOK, Ticks
  <2> HIDE DEF t
  <2>2. CASE Collect(t, hole) \/ Wait(t, hole)
    BY <2>2 DEF Collect, Wait, NoAttempt, visual
  <2>3. CASE BootstrapSucceeds(t, hole) \/ BootstrapFails(t, hole)
    <3>1. ~vis_active_ /\ overdue' = 0 /\ vis_active_' = vis_active_
      BY <2>3 DEF BootstrapSucceeds, BootstrapFails, Attempt, Attempting, visual
    <3> QED
      BY <3>1
  <2>4. CASE VisualInitStarts(t, hole)
    BY <2>4 DEF VisualInitStarts, Attempt
  <2>5. CASE VisualMiss(t, hole)
    <3>1. vis_active_ /\ vis_misses_' = vis_misses_ + 1 /\ vis_since_kf_' = vis_since_kf_
      BY <2>5 DEF VisualMiss, VisualStep, Visual
    <3>2. \/ ~vis_active_'
          \/ vis_misses_ + 1 <= VisualInitMaxMisses /\ vis_active_' = vis_active_
      BY <2>5 DEF VisualMiss, AbortVisualInit
    <3>3. overdue' \in {0, overdue + 1} /\ (~vis_active_' => overdue' = 0)
      BY <2>5 DEF VisualMiss, Timed
    <3> QED
      BY <3>1, <3>2, <3>3
  <2>6. CASE VisualGrow(t, hole)
    <3>1. overdue' \in {0, overdue + 1}
      BY <2>6 DEF VisualGrow, Timed
    <3> QED
      BY <2>6, <3>1 DEF VisualGrow, VisualStep, Visual, KeepsGoing
  <2>7. CASE VisualKeyframe(t, hole)
    <3>1. ~(t - vis_t0_ > VisualInitMaxSeconds)
      BY <2>1, <2>7 DEF VisualKeyframe
    <3>2. overdue' = 0
      BY <2>7, <3>1 DEF VisualKeyframe, Timed
    <3> QED
      BY <2>7, <3>2 DEF VisualKeyframe, KeyframeDue
  <2>8. CASE VisualGivesUp(t, hole)
    BY <2>8 DEF VisualGivesUp, AbortVisualInit, Timed
  <2>9. CASE VisualAlign(t, hole)
    <3>1. Timed(t) /\ ~TooLong(t) /\ vis_since_kf_' = 0 /\ vis_misses_' = 0
      BY <2>9 DEF VisualAlign, KeyframeDue
    <3> QED
      BY <3>1 DEF Timed, TooLong
  <2>10. CASE Solved(t, hole) \/ CoastOverHole(t, hole) \/ CoastOnImu(t, hole) \/ Lose(t, hole) \/ StayLost(t, hole)
    BY <2>10 DEF Solved, CoastOverHole, CoastOnImu, Lose, StayLost, TrackStep, NoAttempt, visual
  <2> QED
    BY <1>3, <2>2, <2>3, <2>4, <2>5, <2>6, <2>7, <2>8, <2>9, <2>10 DEF Process, t
<1> QED
  BY <1>1, <1>2, <1>3 DEF Next

LEMMA OverdueStep ==
  ASSUME VisualInitSeconds <= VisualInitMaxSeconds, Shape, Shape', Overdue, [Next]_vars
  PROVE  Overdue'
<1> DEFINE p == PerPose
           s == vis_since_kf_
<1>1. /\ p \in Nat /\ p = VisualInitMaxMisses + 1 /\ VisualInitMaxMisses \in Nat
      /\ KeyframeEvery \in Nat /\ KeyframeEvery > 0
  BY EstimatorAssumption DEF PerPose
<1>2. /\ vis_active_' \in BOOLEAN /\ vis_since_kf_' \in Nat /\ vis_misses_' \in Nat
  BY EstimatorAssumption DEF Shape, FlagsOK, VisualOK
<1>3. s \in Nat /\ vis_misses_ \in Nat /\ overdue \in Nat
  BY DEF Overdue
<1>4. CASE UNCHANGED <<overdue, vis_active_, vis_since_kf_, vis_misses_>>
  BY <1>4 DEF Overdue
<1>5. CASE overdue' = 0 /\ ~vis_active_'
  BY <1>2, <1>5 DEF Overdue
<1>6. CASE overdue' = 0 /\ vis_since_kf_' = 0 /\ vis_misses_' = 0
  <2>1. 0 <= 0 * p + 0
    BY <1>1
  <2> QED
    BY <1>1, <1>2, <1>6, <2>1 DEF Overdue
<1>7. CASE /\ vis_active_ /\ vis_active_' = vis_active_ /\ overdue' \in {0, overdue + 1}
           /\ \/ /\ vis_misses_' = vis_misses_ + 1 /\ vis_misses_ + 1 <= VisualInitMaxMisses
                 /\ vis_since_kf_' = vis_since_kf_
              \/ /\ vis_misses_' = 0
                 /\ vis_since_kf_' = vis_since_kf_ + 1 /\ vis_since_kf_ + 1 < KeyframeEvery
  <2>1. overdue <= s * p + vis_misses_ /\ vis_misses_ <= VisualInitMaxMisses /\ s < KeyframeEvery
    BY <1>7 DEF Overdue
  <2>2. overdue' \in Nat /\ overdue' <= overdue + 1
    BY <1>3, <1>7
  <2>3. s * p \in Nat /\ (s + 1) * p = s * p + p
    BY <1>1, <1>3, OneMore
  <2> HIDE DEF p
  <2>4. CASE vis_misses_' = vis_misses_ + 1 /\ vis_misses_ + 1 <= VisualInitMaxMisses /\ vis_since_kf_' = s
    <3>1. overdue' <= s * p + vis_misses_'
      BY <1>3, <2>1, <2>2, <2>3, <2>4
    <3> QED
      BY <1>1, <1>2, <1>7, <2>1, <2>2, <2>4, <3>1 DEF Overdue, p
  <2>5. CASE vis_misses_' = 0 /\ vis_since_kf_' = s + 1 /\ s + 1 < KeyframeEvery
    <3>1. overdue' <= (s + 1) * p + vis_misses_'
      BY <1>1, <1>3, <2>1, <2>2, <2>3, <2>5
    <3> QED
      BY <1>1, <1>2, <1>7, <2>2, <2>5, <3>1 DEF Overdue, p
  <2> QED
    BY <1>7, <2>4, <2>5
<1> QED
  BY <1>4, <1>5, <1>6, <1>7, OverdueOfStep

LEMMA OverdueBounded == Overdue => VisualInitGivesUp
<1> SUFFICES ASSUME Overdue PROVE overdue < KeyframeEvery * PerPose
  BY DEF VisualInitGivesUp, PerPose
<1> DEFINE p == PerPose
           s == vis_since_kf_
           n == KeyframeEvery
<1>1. p \in Nat /\ p > 0 /\ p = VisualInitMaxMisses + 1 /\ VisualInitMaxMisses \in Nat /\ n \in Nat /\ n > 0
  BY EstimatorAssumption DEF PerPose
<1>2. s \in Nat /\ vis_misses_ \in Nat /\ overdue \in Nat
  BY DEF Overdue
<1>3. CASE ~vis_active_
  <2>1. overdue = 0
    BY <1>3 DEF Overdue
  <2> HIDE DEF p, n
  <2>2. 0 * p + p <= n * p
    BY <1>1, OneLess
  <2> QED
    BY <1>1, <2>1, <2>2 DEF p, n
<1>4. CASE vis_active_
  <2>1. s < n /\ vis_misses_ <= VisualInitMaxMisses /\ overdue <= s * p + vis_misses_
    BY <1>4 DEF Overdue
  <2> HIDE DEF p, n, s
  <2>2. s * p + p <= n * p /\ s * p \in Nat
    BY <1>1, <1>2, <2>1, OneLess, OneMore
  <2>3. overdue < n * p
    BY <1>1, <1>2, <2>1, <2>2
  <2> QED
    BY <2>3 DEF p, n
<1> QED
  BY <1>3, <1>4

\* With visual_init_seconds within visual_init_max_seconds: a visual init that is too long ends
\* within the misses and poses that fit between two keyframes, however they alternate.
THEOREM VisualInitEnds ==
  ASSUME VisualInitSeconds <= VisualInitMaxSeconds
  PROVE  Spec => []VisualInitGivesUp
<1>1. Init => Overdue
  <2> SUFFICES ASSUME Init PROVE Overdue
    OBVIOUS
  <2>1. overdue = 0 /\ ~vis_active_ /\ vis_active_ \in BOOLEAN /\ vis_since_kf_ = 0 /\ vis_misses_ = 0
    BY DEF Init
  <2>2. {overdue, vis_since_kf_, vis_misses_} \subseteq Nat
    BY <2>1
  <2> QED
    BY <2>1, <2>2, Zenon DEF Overdue
<1>2. Overdue /\ Shape /\ Shape' /\ [Next]_vars => Overdue'
  BY OverdueStep
<1> QED
  BY <1>1, <1>2, ShapeAlways, OverdueBounded, PTL DEF Spec

===============================================================================
