--------------------------- MODULE BootstrapOutcomes ---------------------------
(***************************************************************************)
(* What VioInitializer (src/vio/vio_initializer.cpp) may answer, as a set:    *)
(* its result for the frames f, given their stamps in ticks of one frame      *)
(* period and the ticks the IMU samples cover without a hole.                 *)
(*                                                                          *)
(* VioEstimator takes its bootstrap results from this set.  VioInitializer is  *)
(* the pipeline itself, stage by stage, and shows that it stays inside.       *)
(***************************************************************************)
EXTENDS Integers, Sequences, FiniteSets, FiniteSetsExt, Strides

CONSTANTS
  WindowFrames,       \* init.window_frames
  MinPosed,           \* poses a reconstruction needs to be valid, 5 in buildSfmWindow
  BiasGap,            \* init.bias_frame_gap
  BiasMinPairs,       \* init.bias_min_pairs
  AlignStride,        \* init.align_stride
  AlignMinIntervals   \* init.align_min_intervals

ASSUME BootstrapAssumption ==
  /\ {WindowFrames, MinPosed, BiasGap, AlignStride} \subseteq Nat \ {0}
  /\ {BiasMinPairs, AlignMinIntervals} \subseteq Nat

\* VioInitializer's verdict on the metre: "none" when align never solved for it.
Solutions == {"none", "refused", "negative", "uncertain", "metric"}

\* Seeded fault: an interval of no length preintegrates.
ContinuousEmpty(covered, t0, t1) == t0 <= t1 /\ t0 + 1 .. t1 \subseteq covered

Continuous(covered, t0, t1) == t0 < t1 /\ t0 + 1 .. t1 \subseteq covered

\* Consecutive stamps of s that preintegrate.
Intervals(covered, s) ==
  Cardinality({i \in 1 .. Len(s) - 1 : Continuous(covered, s[i], s[i + 1])})

\* The newest WindowFrames of them, as indices.
SfmWindow(f) == Max({1, Len(f) - WindowFrames + 1}) .. Len(f)

\* A base pair is the window's first frame and one at least two later; PnP poses any others.
Reconstructions(f) ==
  LET base == Min(SfmWindow(f))
  IN  {{}} \cup {P \in SUBSET SfmWindow(f) : base \in P /\ \E k \in P : k >= base + 2}

Valid(posed) == Cardinality(posed) >= MinPosed

\* The rotations that can be compared with the gyro, over ALL frames collected.
MeasurablePairs(f, covered) ==
  Cardinality({i \in 1 .. Len(f) - BiasGap :
                 (i - 1) % BiasGap = 0 /\ Continuous(covered, f[i], f[i + BiasGap])})

Stamps(f, indices) == [i \in DOMAIN indices |-> f[indices[i]]]

\* What align can say, given the stamps it is to align.
Alignments(s, covered) ==
  IF Len(s) < 3 THEN [intervals : {0}, solution : {"none"}]
  ELSE LET n == Intervals(covered, s)
       IN  [intervals : {n},
            solution  : IF n < AlignMinIntervals THEN {"none"} ELSE Solutions \ {"none"}]

\* What run can say.  The bias solve itself may fail, and then align is not reached.
Results(f, covered) ==
  IF Len(f) - Cardinality(SfmWindow(f)) + 3 >= Len(f)
  THEN {[posed |-> {}, pairs |-> 0, intervals |-> 0, solution |-> "none"]}
  ELSE UNION {
    LET stops == {[posed |-> P, pairs |-> n, intervals |-> 0, solution |-> "none"] :
                    n \in IF Valid(P) THEN 0 .. MeasurablePairs(f, covered) ELSE {0}}
        aligns(r) == {[r EXCEPT !.intervals = a.intervals, !.solution = a.solution] :
                        a \in Alignments(Stamps(f, Strided(P, AlignStride)), covered)}
    IN  stops \cup UNION {aligns(r) : r \in {s \in stops : Valid(P) /\ s.pairs >= BiasMinPairs}} :
    P \in Reconstructions(f)}

===============================================================================
