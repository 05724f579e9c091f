----------------------------- MODULE VioInitializer -----------------------------
(***************************************************************************)
(* VioInitializer::run (src/vio/vio_initializer.cpp) with the reconstruction,  *)
(* the bundle adjustment and the IMU buffer it works on, one loop of the code   *)
(* after another.  What a solve says is chosen freely; which frames, pairs and  *)
(* intervals reach it is not.                                                *)
(*                                                                          *)
(* Frame i has the stamp i * Period, in the unit the samples' stamps are in.   *)
(***************************************************************************)
EXTENDS SfmBundle, ImuBuffer, Strides

CONSTANTS
  BiasGap, BiasMinPairs,            \* init.bias_*
  AlignStride, AlignMinIntervals,   \* init.align_*
  SfmBundleAdjust,                  \* init.sfm_bundle_adjust
  Period,                           \* of the frames
  Inputs,                           \* the sequences of frames run is called with
  Streams                           \* the samples that arrive, in the order they do

ASSUME InitializerAssumption ==
  /\ {BiasGap, AlignStride, Period} \subseteq Nat \ {0}
  /\ {BiasMinPairs, AlignMinIntervals} \subseteq Nat
  /\ SfmBundleAdjust \in BOOLEAN
  /\ \A f \in Inputs : f \in Seq(SUBSET Ids) /\ f # <<>>
  /\ \A s \in Streams : s \in Seq([t : Nat, finite : BOOLEAN])

VARIABLES
  samples,            \* the ImuBuffer's
  pairs, intervals,   \* bias_pairs, align_intervals
  solution,           \* what align says of the metre, or "none"
  pre                 \* the interval last integrated, and the instants each sample stands for

vars == <<frames, stage, k, w, it, samples, pairs, intervals, solution, pre>>

reconstruction == <<frames, w, it>>
NoInterval     == [t0 |-> 0, t1 |-> 0, held |-> <<>>]

Outcome == INSTANCE BootstrapOutcomes

Init ==
  /\ frames \in Inputs
  /\ stage = "run" /\ k = 0
  /\ w = NoWindow /\ it = 0
  /\ samples = <<>>
  /\ pairs = 0 /\ intervals = 0 /\ solution = "none" /\ pre = NoInterval

-------------------------------------------------------------------------------
Stamp(i) == i * Period

\* What ImuBuffer::preintegrate makes of the time between two frames.
Integrate(i, j) ==
  pre' = [t0 |-> Stamp(i), t1 |-> Stamp(j), held |-> Preintegrated(samples, Stamp(i), Stamp(j))]

Whole(i, j) == Continuous(samples, Stamp(i), Stamp(j))

\* The IMU's part of the world is chosen when it is first looked at.
Buffer == \E s \in Streams : samples' = Buffered(s)

Visually == UNCHANGED <<samples, pairs, intervals, solution, pre>>

\* run, its first test and [2].
TooFewFrames ==
  /\ stage = "run" /\ Base + 3 > Len(frames)
  /\ stage' = "done"
  /\ UNCHANGED <<reconstruction, k>> /\ Visually

Reconstruct ==
  /\ stage = "run" /\ Base + 3 <= Len(frames)
  /\ stage' = "pair" /\ k' = FirstCandidate
  /\ UNCHANGED reconstruction /\ Visually

BasePair      == (RejectPair \/ AcceptPair \/ NoPair) /\ UNCHANGED it /\ Visually
PoseRemaining == (LeaveUnposed \/ PoseFrame) /\ UNCHANGED it /\ Visually

WindowDone ==
  /\ FinishWindow(IF SfmBundleAdjust THEN "bundle" ELSE "buffer")
  /\ UNCHANGED it /\ Visually

BundleAdjust == (AcceptStep \/ RefuseStep \/ FinishBundle("buffer")) /\ Visually

\* From the first frame, not from the window's: the bias is a constant of the sensor.
StartBias ==
  /\ stage = "buffer" /\ Buffer
  /\ stage' = "bias" /\ k' = 1
  /\ UNCHANGED <<reconstruction, pairs, intervals, solution, pre>>

-------------------------------------------------------------------------------
(***************************************************************************)
(* [3] estimateGyroBias.                                                    *)
(***************************************************************************)
AtPair ==
  /\ stage = "bias" /\ k + BiasGap <= Len(frames)
  /\ k' = k + BiasGap
  /\ UNCHANGED <<reconstruction, stage, samples, intervals, solution>>

\* relativeBodyRotation: too few correspondences, or no rotation from them.
NoRotation == AtPair /\ UNCHANGED <<pairs, pre>>

RotationPair ==
  /\ AtPair
  /\ Cardinality(Shared(k, k + BiasGap)) >= MinShared
  /\ Integrate(k, k + BiasGap)
  /\ pairs' = IF Whole(k, k + BiasGap) THEN pairs + 1 ELSE pairs

\* The bias is solved for, or the attempt ends here.
SolveBias ==
  /\ stage = "bias" /\ k + BiasGap > Len(frames)
  /\ \/ stage' = "done"
     \/ pairs >= BiasMinPairs /\ stage' = "align"
  /\ k' = 1 /\ pre' = NoInterval
  /\ UNCHANGED <<reconstruction, samples, pairs, intervals, solution>>

-------------------------------------------------------------------------------
(***************************************************************************)
(* [4] align.                                                               *)
(***************************************************************************)
\* out.frames: every AlignStride-th frame that was posed.
Aligned == Strided(Posed, AlignStride)

\* Two equations for an interval, or none if there is a hole in it.
AlignInterval ==
  /\ stage = "align" /\ Len(Aligned) >= 3 /\ k < Len(Aligned)
  /\ Integrate(Aligned[k], Aligned[k + 1])
  /\ intervals' = IF Whole(Aligned[k], Aligned[k + 1]) THEN intervals + 1 ELSE intervals
  /\ k' = k + 1
  /\ UNCHANGED <<reconstruction, stage, samples, pairs, solution>>

\* Seeded fault: one interval fewer is enough.
EnoughEarly == intervals + 1 >= AlignMinIntervals

Enough == intervals >= AlignMinIntervals

\* The solve and its gates, on |g|, on the scale's sign and on its uncertainty.
SolveAlign ==
  /\ stage = "align" /\ (Len(Aligned) < 3 \/ k = Len(Aligned))
  /\ solution' \in IF Len(Aligned) >= 3 /\ Enough
                   THEN {"refused", "negative", "uncertain", "metric"} ELSE {"none"}
  /\ stage' = "done" /\ k' = 0 /\ pre' = NoInterval
  /\ UNCHANGED <<reconstruction, samples, pairs, intervals>>

Done == stage = "done" /\ UNCHANGED vars

Next ==
  \/ TooFewFrames \/ Reconstruct
  \/ BasePair \/ PoseRemaining \/ WindowDone \/ BundleAdjust
  \/ StartBias \/ NoRotation \/ RotationPair \/ SolveBias
  \/ AlignInterval \/ SolveAlign
  \/ Done

Spec == Init /\ [][Next]_vars

-------------------------------------------------------------------------------
(***************************************************************************)
(* Properties.                                                              *)
(***************************************************************************)
\* The reconstruction is in one ruler, that of its base pair: "it also keeps |t| = 1 at the
\* pair, i.e. the ruler the alignment's s is measured in".  No pose or landmark that PnP, the
\* window's tracks or the bundle adjustment add or move is in another, rescaling included.
OneRuler ==
  stage # "bundle" =>
    /\ \A i \in Posed : w.pose[i] = Ruler(w.second)
    /\ \A id \in Landmarks : w.landmark[id] = Ruler(w.second)

\* Every landmark is seen by two posed frames: the bundle adjustment moves all of them, so
\* that rescaling, which does not ask, multiplies none that stood still.
SeenTwice == \A id \in Landmarks : Cardinality(Views(id)) >= 2

\* Every interval that is integrated is, to the instant, the time between its two frames with
\* the readings in force, wherever the frames fall between the samples; and only an interval
\* with a hole or a bad reading in it is refused.
IntervalsExact == pre # NoInterval => Exact(samples, pre.t0, pre.t1, pre.held)

\* The ticks, from one frame to the next, without a hole.
Covered == {i \in 2 .. Len(frames) : Whole(i - 1, i)}

\* What the estimator's model takes for the answers of run are its answers: the verdicts and
\* counts of the detailed pipeline, on samples and track ids, are all among those that
\* BootstrapOutcomes derives from the frames' stamps alone.
OutcomeAllowed ==
  stage = "done" =>
    [posed |-> Posed, pairs |-> pairs, intervals |-> intervals, solution |-> solution]
      \in Outcome!Results([i \in DOMAIN frames |-> i], Covered)

===============================================================================
