----------------------------- MODULE LandmarkMap ------------------------------
(***************************************************************************)
(* glassvio::LandmarkMap (src/vio/landmark_map.cpp) between the tracker that  *)
(* feeds it and the keyframe window that holds views of its landmarks.        *)
(*                                                                          *)
(* A landmark is its track id, a view the map's own frame count at the time.  *)
(* Which landmarks no longer fit, which tracks have the parallax to become    *)
(* landmarks, and whether the window's solve succeeds, is chosen freely.      *)
(* One step is one image, tracked and then either dropped or kept out of the  *)
(* map on the way, or inserted, and then possibly made a keyframe.  The map   *)
(* of a visual init, which has no window, is left to VioEstimator.            *)
(***************************************************************************)
EXTENDS FeatureTracker, FiniteSets, Functions

CONSTANTS
  MaxUnseen,           \* max_unseen_frames
  MaxObservations,     \* max_observations
  RecycleOutliers,     \* recycle_outliers
  MaxKeyframes,        \* window.max_keyframes
  WindowTriangulates,  \* window.triangulate
  MaxFrames            \* bound: frames inserted between two bootstraps

ASSUME MapAssumption ==
  /\ {MaxUnseen, MaxKeyframes, MaxFrames} \subseteq Nat
  /\ MaxObservations \in Nat \ {0, 1}
  /\ {RecycleOutliers, WindowTriangulates} \subseteq BOOLEAN

Frames == 0 .. MaxFrames

VARIABLES
  landmarks_,          \* ids
  pending_,            \* views of each track that is not a landmark yet
  last_seen_, frame_,
  dropped_outliers_,
  window_,             \* keyframes: the frame and the ids observed in it; empty before a bootstrap
  collected,           \* ids in the frames the next bootstrap is made from
  pendingSince,        \* the first view each pending track had
  lastDrop             \* when each id was last dropped as an outlier

map  == <<landmarks_, pending_, last_seen_, frame_, dropped_outliers_>>
past == <<pendingSince, lastDrop>>
vars == <<tracker, map, window_, collected, past>>

Live == {ids_[i] : i \in DOMAIN ids_}

Init ==
  /\ TrackerInit
  /\ landmarks_ = {} /\ pending_ = <<>> /\ last_seen_ = <<>> /\ frame_ = 0
  /\ dropped_outliers_ = {}
  /\ window_ = <<>> /\ collected = {}
  /\ pendingSince = <<>> /\ lastDrop = <<>>

-------------------------------------------------------------------------------
(***************************************************************************)
(* LandmarkMap::insert.                                                     *)
(***************************************************************************)
\* Seeded fault: the first view is let go.
OldestViewGoes(views, f) ==
  LET all == Append(views, f)
  IN  IF Len(all) > MaxObservations THEN Tail(all) ELSE all

\* The first view is the widest baseline, so the second oldest makes room.
WithView(views, f) ==
  LET all == Append(views, f)
  IN  IF Len(all) > MaxObservations THEN <<all[1]>> \o SubSeq(all, 3, Len(all)) ELSE all

\* Whether an unknown track is taken up at all.
TakenUp(id) == RecycleOutliers \/ id \notin dropped_outliers_

Unseen(seen, id, f, grace) == id \notin DOMAIN seen \/ f - seen[id] > grace

\* Seeded fault: pending tracks do not age.
NeverExpired(seen, waiting, f) == {}

\* A pending track waits for parallax, and has a longer grace.
Expired(seen, waiting, f) == {id \in waiting : Unseen(seen, id, f, MaxUnseen * 4)}

\* The map after a frame with these features, when `outliers` of them fit no more and
\* `matured` can be triangulated: match, take up, prune by when a track was last seen.
Inserted(features, outliers, matured) ==
  LET f       == frame_ + 1
      taken   == {id \in features \ landmarks_ : TakenUp(id)}
      views   == [id \in DOMAIN pending_ \cup taken |->
                    IF id \notin taken THEN pending_[id]
                    ELSE WithView(IF id \in DOMAIN pending_ THEN pending_[id] ELSE <<>>, f)]
      seenNow == (features \cap landmarks_) \cup taken
      seen    == [id \in (DOMAIN last_seen_ \cup seenNow) \ outliers |->
                    IF id \in seenNow THEN f ELSE last_seen_[id]]
      lands   == (landmarks_ \ outliers) \cup matured
      waiting == DOMAIN views \ matured
      passed  == {id \in lands : Unseen(seen, id, f, MaxUnseen)}
      expired == Expired(seen, waiting, f)
  IN  [landmarks |-> lands \ passed,
       pending   |-> Restrict(views, waiting \ expired),
       seen      |-> Restrict(seen, DOMAIN seen \ (passed \cup expired)),
       frame     |-> f,
       dropped   |-> ((dropped_outliers_ \cup outliers) \ matured) \ expired]

\* Tracks that have two views once this frame is in.
Maturing(features) == {id \in (features \ landmarks_) \cap DOMAIN pending_ : TakenUp(id)}

\* Seeded fault: the map forgets a landmark, the window goes on with its views.
NothingForgotten(window, outliers) == window

\* KeyframeWindow::forget
Forgotten(window, outliers) ==
  [i \in DOMAIN window |-> [window[i] EXCEPT !.ids = @ \ outliers]]

\* Seeded fault: one keyframe more than the window may hold.
PushedOneMore(window, kf) ==
  LET all == Append(window, kf)
  IN  IF Len(all) > MaxKeyframes + 2 THEN Tail(all) ELSE all

\* KeyframeWindow::push
Pushed(window, kf) ==
  LET all == Append(window, kf)
  IN  IF Len(all) > MaxKeyframes + 1 THEN Tail(all) ELSE all

\* Seeded fault: what the window triangulates goes on as a pending track.
StillPending(pending, fresh) == pending

NoLongerPending(pending, fresh) == Restrict(pending, DOMAIN pending \ fresh)

\* The frame is inserted as m, and `fresh` added by the window.
Become(m, outliers, fresh) ==
  /\ landmarks_' = m.landmarks \cup fresh
  /\ pending_' = NoLongerPending(m.pending, fresh)
  /\ last_seen_' = [id \in DOMAIN m.seen \cup fresh |->
                      IF id \in fresh THEN m.frame ELSE m.seen[id]]
  /\ frame_' = m.frame
  /\ dropped_outliers_' = m.dropped
  /\ pendingSince' = [id \in DOMAIN pending_' |->
                        IF id \in DOMAIN pending_ THEN pendingSince[id] ELSE m.frame]
  /\ lastDrop' = [id \in DOMAIN lastDrop \cup outliers |->
                    IF id \in outliers THEN m.frame ELSE lastDrop[id]]

-------------------------------------------------------------------------------
\* The map hears nothing of the image: its group was dropped by the queue, the estimator
\* was still collecting, or it kept a refused frame out of the map.
NotInserted ==
  /\ TrackImage
  /\ collected' = IF window_ = <<>> THEN collected \cup {ids_'[i] : i \in DOMAIN ids_'} ELSE {}
  /\ UNCHANGED <<map, window_, past>>

Track == window_ # <<>> /\ frame_ < MaxFrames /\ TrackImage

\* insertFrame, for a frame that is tracked or coasted through.
InsertFrame ==
  /\ Track
  /\ \E outliers \in SUBSET (Live' \cap landmarks_), matured \in SUBSET Maturing(Live') :
       /\ Become(Inserted(Live', outliers, matured), outliers, {})
       /\ window_' = Forgotten(window_, outliers)
  /\ UNCHANGED collected

\* What optimize solves for: landmarks that two keyframes see, over three keyframes or more.
Tracks(window, lands) ==
  {id \in lands : \E i, j \in DOMAIN window : i # j /\ id \in window[i].ids \cap window[j].ids}

Solvable(window, lands) == Len(window) >= 3 /\ Tracks(window, lands) # {}

\* triangulate: unknown tracks of the newest keyframe that an earlier one has seen.
Unknown(window, lands) ==
  {id \in window[Len(window)].ids \ lands : \E i \in 1 .. Len(window) - 1 : id \in window[i].ids}

\* A keyframe besides: push, optimize, refine, and, if so set, triangulate.
InsertKeyframe ==
  /\ Track
  /\ \E outliers \in SUBSET (Live' \cap landmarks_), matured \in SUBSET Maturing(Live') :
       LET m == Inserted(Live', outliers, matured)
       IN  /\ window_' = Pushed(Forgotten(window_, outliers), [frame |-> m.frame, ids |-> Live'])
           /\ \E fresh \in SUBSET Unknown(window_', m.landmarks) :
                /\ fresh # {} => WindowTriangulates /\ Solvable(window_', m.landmarks)
                /\ Become(m, outliers, fresh)
  /\ UNCHANGED collected

\* adopt: a fresh map of landmarks whose tracks may be lost already; the last frame
\* solved, which may not be the last one tracked, is the first keyframe.
Bootstrap ==
  /\ window_ = <<>> /\ collected # {}
  /\ \E seed \in SUBSET collected, seen \in SUBSET collected :
       /\ landmarks_' = seed
       /\ last_seen_' = [id \in seed |-> 0]
       /\ window_' = <<[frame |-> 0, ids |-> seen]>>
  /\ collected' = {}
  /\ UNCHANGED <<tracker, pending_, frame_, dropped_outliers_, past>>

\* estimator_->reset(), on a loss alone, on a restart of the replay with tracker_->reset().
Reset ==
  /\ ResetTracker \/ UNCHANGED tracker
  /\ landmarks_' = {} /\ pending_' = <<>> /\ last_seen_' = <<>> /\ frame_' = 0
  /\ dropped_outliers_' = {}
  /\ window_' = <<>> /\ collected' = {}
  /\ pendingSince' = <<>> /\ lastDrop' = <<>>

Next == NotInserted \/ InsertFrame \/ InsertKeyframe \/ Bootstrap \/ Reset

Spec == Init /\ [][Next]_vars

-------------------------------------------------------------------------------
(***************************************************************************)
(* Properties.                                                              *)
(***************************************************************************)
\* The range of every variable.
TypeOK ==
  /\ ids_ \in Seq(Ids) /\ next_id_ \in 0 .. MaxIds /\ used \subseteq Ids /\ flowing \in BOOLEAN
  /\ landmarks_ \subseteq Ids /\ dropped_outliers_ \subseteq Ids /\ collected \subseteq Ids
  /\ DOMAIN pending_ \subseteq Ids /\ DOMAIN pendingSince = DOMAIN pending_
  /\ \A id \in DOMAIN pending_ : pending_[id] \in Seq(Frames)
  /\ last_seen_ \in [DOMAIN last_seen_ -> Frames] /\ frame_ \in Frames
  /\ window_ \in Seq([frame : Frames, ids : SUBSET Ids]) /\ Len(window_) <= MaxKeyframes + 1

\* "Ids only ever grow, and flow() preserves order": the tracks are oldest first, which
\* is what lets a merge drop the younger of two, and there are never too many.
OldestFirst ==
  /\ Len(ids_) <= MaxFeatures
  /\ \A i, j \in DOMAIN ids_ : i < j => ids_[i] < ids_[j]

\* An id names one track for good: one the tracker has let go, by a loss, a merge or a
\* reset, never comes up again, as landmarks, pending tracks and keyframes all assume.
IdsNeverReused == [][(Live' \ Live) \cap used = {}]_vars

\* A track is a landmark, or pending, or neither, and last_seen_ is kept for exactly
\* those that are one: across outliers dropped, recycled, matured, added by the window
\* and pruned, nothing is left behind.
OneRole ==
  /\ landmarks_ \cap DOMAIN pending_ = {}
  /\ DOMAIN last_seen_ = landmarks_ \cup DOMAIN pending_

\* "Their observations would otherwise leak": nothing stays that was unseen for longer
\* than its grace.
SeenLately ==
  /\ \A id \in landmarks_ : frame_ - last_seen_[id] <= MaxUnseen
  /\ \A id \in DOMAIN pending_ : frame_ - last_seen_[id] <= MaxUnseen * 4

\* "The first gives the widest baseline available": however often views made room, a
\* pending track still has its first one, and the others in order.
WidestBaselineKept ==
  \A id \in DOMAIN pending_ :
    /\ pending_[id][1] = pendingSince[id]
    /\ Len(pending_[id]) <= MaxObservations
    /\ \A i \in 1 .. Len(pending_[id]) - 1 : pending_[id][i] < pending_[id][i + 1]

\* "The window's older views are of the OLD one": no keyframe holds a view of an id that
\* is older than the last time its landmark was dropped as an outlier.
WindowForgets ==
  \A i \in DOMAIN window_ :
    \A id \in window_[i].ids \cap DOMAIN lastDrop : window_[i].frame >= lastDrop[id]

\* "The set of ids ever dropped as outliers must not grow for the life of the run": an id
\* whose track is lost, and of which nothing is left in the map, is forgotten within the
\* grace of a pending track.
OutliersForgotten ==
  \A id \in dropped_outliers_ :
    \/ id \in Live \cup landmarks_ \cup DOMAIN pending_
    \/ frame_ - lastDrop[id] <= MaxUnseen * 4

===============================================================================
