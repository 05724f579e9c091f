-------------------------- MODULE EstimatorLifecycle --------------------------
(***************************************************************************)
(* What VioEstimator promises its caller (include/glassvio/vio_estimator.hpp,*)
(* FrameResult and EstimatorParams::warmup_frames), whatever the mathematics  *)
(* comes to: it collects, bootstraps once, tracks, and is lost only after it  *)
(* has coasted for its whole grace, counted from the last frame that vision   *)
(* solved.  Only reset() leads back.                                         *)
(***************************************************************************)
EXTENDS Naturals

CONSTANT Grace   \* warmup_frames

VARIABLES
  stage,         \* FrameResult::stage of the last frame, "None" before the first
  unsolved       \* frames since vision last solved one

lifecycle == <<stage, unsolved>>

Init == stage = "None" /\ unsolved = 0

Collect   == stage \in {"None", "Collecting"} /\ stage' = "Collecting" /\ unsolved' = 0
Bootstrap == stage = "Collecting" /\ stage' = "Bootstrapped" /\ unsolved' = 0

Tracks == stage \in {"Bootstrapped", "Tracking"}

Solve == Tracks /\ stage' = "Tracking" /\ unsolved' = 0
Coast == Tracks /\ unsolved < Grace /\ stage' = "Tracking" /\ unsolved' = unsolved + 1
Lose  == Tracks /\ unsolved = Grace /\ stage' = "Lost" /\ UNCHANGED unsolved

Reset == stage' = "None" /\ unsolved' = 0

\* A lost estimator stays lost: that is a stuttering step.
Next == Collect \/ Bootstrap \/ Solve \/ Coast \/ Lose \/ Reset

Lifecycle == Init /\ [][Next]_lifecycle

===============================================================================
