------------------------------- MODULE SfmBundle -------------------------------
(***************************************************************************)
(* bundleAdjust (src/sfm/sfm_bundle.cpp) on the window of SfmWindow.           *)
(*                                                                          *)
(* Reprojection does not see a stretch of the whole reconstruction, so when    *)
(* the pair's partner is free an accepted step may stretch what it moves.      *)
(* camera_states and landmarks are locals of the code until the end; here w    *)
(* holds them while stage = "bundle".  A landmark with two observations is taken *)
(* to be moved by the solve: its block is not singular.                        *)
(***************************************************************************)
EXTENDS SfmWindow

CONSTANTS
  BundleIterations,   \* max_iterations
  FixPairFrame        \* sfm_ba_fix_pair

ASSUME BundleAssumption == BundleIterations \in Nat /\ FixPairFrame \in BOOLEAN

VARIABLE it           \* iterations done

\* free_index: what the solve moves.
FreeFrames == Posed \ ({Base} \cup IF FixPairFrame THEN {w.second} ELSE {})

\* Landmarks with two observations; any other is left out of the normal equations.
FreeLandmarks == {id \in Landmarks : Cardinality(Views(id)) >= 2}

StretchedBy(q, d) == [q EXCEPT !.stretch = @ + d]

Moved(d) ==
  [w EXCEPT
     !.pose     = [i \in Posed |-> IF i \in FreeFrames THEN StretchedBy(w.pose[i], d)
                                                       ELSE w.pose[i]],
     !.landmark = [id \in Landmarks |-> IF id \in FreeLandmarks
                                        THEN StretchedBy(w.landmark[id], d)
                                        ELSE w.landmark[id]]]

\* A step that lowers the cost is taken.  With the partner fixed nothing can stretch.
AcceptStep ==
  /\ stage = "bundle" /\ it < BundleIterations
  /\ \E d \in IF FixPairFrame THEN {0} ELSE {0, 1} : w' = Moved(d)
  /\ it' = it + 1
  /\ UNCHANGED <<frames, stage, k>>

\* One that does not is forgotten, and lambda grows.
RefuseStep ==
  /\ stage = "bundle" /\ it < BundleIterations
  /\ it' = it + 1
  /\ UNCHANGED <<frames, stage, k, w>>

\* Seeded fault: the poses get their ruler back, the landmarks do not.
NotRescaled(id, q) == w.landmark[id]

\* Landmarks and camera centres by the same factor, about the base.  That the code leaves
\* a partner alone which fell onto the base (pair_after <= 1e-12) is left out: no accepted
\* step of the model collapses the reconstruction.
RescaledLandmark(id, q) == StretchedBy(w.landmark[id], -q.stretch)

RescaledPose(i, q) == IF i = Base THEN w.pose[i] ELSE StretchedBy(w.pose[i], -q.stretch)

Rescaled ==
  IF FixPairFrame THEN w
  ELSE LET q == w.pose[w.second]
       IN  [w EXCEPT !.pose     = [i \in Posed |-> RescaledPose(i, q)],
                     !.landmark = [id \in Landmarks |-> RescaledLandmark(id, q)]]

\* After the last iteration, a step that is not finite, a gain below 1e-6, or a lambda
\* above 1e6.
FinishBundle(next) ==
  /\ stage = "bundle"
  /\ w' = Rescaled
  /\ stage' = next /\ k' = 1 /\ it' = 0
  /\ UNCHANGED frames

===============================================================================
