------------------------------- MODULE SfmWindow -------------------------------
(***************************************************************************)
(* buildSfmWindow (src/sfm/sfm_window.cpp): a base pair, PnP for the frames    *)
(* between and after, and the tracks the base pair did not triangulate.        *)
(*                                                                          *)
(* A frame is the set of track ids it sees.  What RANSAC, PnP and the gates    *)
(* on parallax, cheirality and reprojection say is chosen freely.  A pose and  *)
(* a landmark are the ruler they are measured in: the base pair that invented  *)
(* it, and the factor it has been stretched by since, as an exponent.          *)
(***************************************************************************)
EXTENDS Integers, Sequences, FiniteSets, FiniteSetsExt

CONSTANTS
  Ids,                \* of tracks
  WindowFrames,       \* init.window_frames
  MinPosed,           \* 5 in buildSfmWindow
  MinShared, MinLandmarks, MinPnpPoints,   \* sfm.min_*
  TriangulateWindow   \* sfm.triangulate_window

ASSUME SfmAssumption ==
  /\ {WindowFrames, MinPosed, MinShared, MinLandmarks, MinPnpPoints} \subseteq Nat \ {0}
  /\ TriangulateWindow \in BOOLEAN

VARIABLES
  frames,   \* the frames run is called with, oldest first
  stage,    \* the loop the initializer is in, or "done"
  k,        \* that loop's index
  w         \* the SfmWindow: second, pose and landmark; second = 0 before there is a pair

NoWindow == [second |-> 0, pose |-> <<>>, landmark |-> <<>>]

Base   == Max({1, Len(frames) - WindowFrames + 1})
Window == Base .. Len(frames)

Shared(a, b) == frames[a] \cap frames[b]
Posed        == DOMAIN w.pose
Landmarks    == DOMAIN w.landmark

\* |t| = 1 between the base and its partner.
Ruler(partner) == [pair |-> partner, stretch |-> 0]

-------------------------------------------------------------------------------
\* The base's neighbour is no candidate.
FirstCandidate == Base + 2

\* triangulateBasePair: the tracks that survive its gates, whichever they are.
Triangulable(ids) == SUBSET ids

\* selectBasePair, a candidate that fails: too few shared tracks, too little flow, no
\* essential matrix, or too few landmarks in its own trial.
RejectPair ==
  /\ stage = "pair" /\ k <= Len(frames)
  /\ k' = k + 1
  /\ UNCHANGED <<frames, stage, w>>

\* The first that passes every gate: its trial becomes the window's landmarks.
AcceptPair ==
  /\ stage = "pair" /\ k <= Len(frames)
  /\ Cardinality(Shared(Base, k)) >= MinShared
  /\ \E trial \in Triangulable(Shared(Base, k)) :
       /\ Cardinality(trial) >= MinLandmarks
       /\ w' = [second   |-> k,
                pose     |-> [i \in {Base, k} |-> Ruler(k)],
                landmark |-> [id \in trial |-> Ruler(k)]]
  /\ stage' = "pnp" /\ k' = Base
  /\ UNCHANGED frames

NoPair ==
  /\ stage = "pair" /\ k > Len(frames)
  /\ stage' = "done" /\ k' = 0
  /\ UNCHANGED <<frames, w>>

\* poseRemainingFrames, a frame that has its pose, sees too few landmarks, or whose PnP
\* fails or puts them behind the camera.
LeaveUnposed ==
  /\ stage = "pnp" /\ k <= Len(frames)
  /\ k' = k + 1
  /\ UNCHANGED <<frames, stage, w>>

\* PnP hands on the ruler of the landmarks it solves from.
PoseFrame ==
  /\ stage = "pnp" /\ k <= Len(frames) /\ k \notin Posed
  /\ LET seen == Landmarks \cap frames[k]
     IN  /\ Cardinality(seen) >= MinPnpPoints
         /\ \E id \in seen :
              w' = [w EXCEPT !.pose = [i \in Posed \cup {k} |->
                                         IF i = k THEN w.landmark[id] ELSE w.pose[i]]]
  /\ k' = k + 1
  /\ UNCHANGED <<frames, stage>>

\* The posed frames that see a track.
Views(id) == {i \in Posed : id \in frames[i]}

\* Seeded fault: a track seen by a single posed frame has a span, too.
SpannedOnce == {id \in UNION {frames[i] : i \in Window} \ Landmarks : Views(id) # {}}

\* Tracks that are no landmarks and that two posed frames see: by_span.
Spanned == {id \in UNION {frames[i] : i \in Window} \ Landmarks : Cardinality(Views(id)) >= 2}

\* addOptionalWindowLandmarks: those that survive the gates join, from their first posed
\* view; then buildSfmWindow's verdict.
FinishWindow(next) ==
  /\ stage = "pnp" /\ k > Len(frames)
  /\ \E more \in Triangulable(IF TriangulateWindow THEN Spanned ELSE {}) :
       w' = [w EXCEPT !.landmark = [id \in Landmarks \cup more |->
               IF id \in more THEN w.pose[Min(Views(id))] ELSE w.landmark[id]]]
  /\ stage' = IF Cardinality(Posed) >= MinPosed THEN next ELSE "done"
  /\ k' = 0
  /\ UNCHANGED frames

===============================================================================
