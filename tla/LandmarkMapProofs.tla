--------------------------- MODULE LandmarkMapProofs ---------------------------
(***************************************************************************)
(* Proofs about LandmarkMap, for every set of ids and every grace: what an id  *)
(* is in the map, how long what was not seen stays, what the window remembers  *)
(* of a dropped landmark, and what the tracker promises all of them of its ids.*)
(***************************************************************************)
EXTENDS LandmarkMap, TLAPS

-------------------------------------------------------------------------------
(***************************************************************************)
(* OneRole and SeenLately, as one statement about the four tables, so that it  *)
(* can be said of the map before a frame, of what insert makes of it, and of   *)
(* what the window adds.                                                     *)
(***************************************************************************)
Consistent(lands, pending, seen, f) ==
  /\ f \in Nat
  /\ lands \cap DOMAIN pending = {}
  /\ DOMAIN seen = lands \cup DOMAIN pending
  /\ \A id \in DOMAIN seen : seen[id] \in Nat /\ seen[id] <= f
  /\ \A id \in lands : f - seen[id] <= MaxUnseen
  /\ \A id \in DOMAIN pending : f - seen[id] <= MaxUnseen * 4

RoleInv == Consistent(landmarks_, pending_, last_seen_, frame_)

LEMMA RoleInit == Init => RoleInv
<1> SUFFICES ASSUME Init PROVE RoleInv
  OBVIOUS
<1>1. landmarks_ = {} /\ DOMAIN pending_ = {} /\ DOMAIN last_seen_ = {} /\ frame_ = 0
  BY DEF Init
<1> QED
  BY <1>1 DEF RoleInv, Consistent

\* insert keeps the tables consistent, whichever outliers it drops and tracks it matures.
LEMMA InsertedConsistent ==
  ASSUME RoleInv, NEW features, NEW outliers \in SUBSET (features \cap landmarks_),
         NEW matured \in SUBSET Maturing(features), NEW m, m = Inserted(features, outliers, matured)
  PROVE  Consistent(m.landmarks, m.pending, m.seen, m.frame)
<1> DEFINE f       == frame_ + 1
           taken   == {id \in features \ landmarks_ : TakenUp(id)}
           views   == [id \in DOMAIN pending_ \cup taken |->
                         IF id \notin taken THEN pending_[id]
                         ELSE WithView(IF id \in DOMAIN pending_ THEN pending_[id] ELSE <<>>, f)]
           seenNow == (features \cap landmarks_) \cup taken
           seen    == [id \in (DOMAIN last_seen_ \cup seenNow) \ outliers |->
                         IF id \in seenNow THEN f ELSE last_seen_[id]]
           lands   == (landmarks_ \ outliers) \cup matured
           waiting == DOMAIN views \ matured
           passed  == {id \in lands : Unseen(seen, id, f, MaxUnseen)}
           expired == Expired(seen, waiting, f)
<1>1. /\ m.landmarks = lands \ passed /\ m.frame = f
      /\ m.pending = Restrict(views, waiting \ expired)
      /\ m.seen = Restrict(seen, DOMAIN seen \ (passed \cup expired))
  BY DEF Inserted
<1>2. /\ frame_ \in Nat /\ landmarks_ \cap DOMAIN pending_ = {}
      /\ DOMAIN last_seen_ = landmarks_ \cup DOMAIN pending_
      /\ \A id \in DOMAIN last_seen_ : last_seen_[id] \in Nat /\ last_seen_[id] <= frame_
  BY DEF RoleInv, Consistent
<1>3. matured \subseteq DOMAIN pending_ /\ taken \cap landmarks_ = {} /\ outliers \subseteq landmarks_
  BY DEF Maturing
<1>4. DOMAIN views = DOMAIN pending_ \cup taken
  OBVIOUS
<1>5. /\ DOMAIN seen = (DOMAIN last_seen_ \cup seenNow) \ outliers
      /\ \A id \in DOMAIN seen : seen[id] \in Nat /\ seen[id] <= f
  BY <1>2
<1>6. DOMAIN seen = lands \cup waiting
  BY <1>2, <1>3, <1>4, <1>5
<1>7. lands \cap waiting = {}
  BY <1>2, <1>3, <1>4
<1> HIDE DEF views, seen, lands, waiting
<1>8. passed \subseteq lands /\ expired \subseteq waiting
  BY DEF Expired
<1> HIDE DEF f
<1>14. f \in Nat /\ MaxUnseen \in Nat
  BY <1>2, MapAssumption DEF f
<1>15. \A id \in DOMAIN seen : seen[id] \in Nat
  BY <1>5
<1>9. \A id \in lands \ passed : f - seen[id] <= MaxUnseen
  <2> SUFFICES ASSUME NEW id \in lands \ passed PROVE f - seen[id] <= MaxUnseen
    OBVIOUS
  <2>1. id \in DOMAIN seen /\ ~Unseen(seen, id, f, MaxUnseen)
    BY <1>6
  <2>2. ~(f - seen[id] > MaxUnseen)
    BY <2>1 DEF Unseen
  <2> QED
    BY <2>1, <2>2, <1>14, <1>15
<1>10. \A id \in waiting \ expired : f - seen[id] <= MaxUnseen * 4
  <2> SUFFICES ASSUME NEW id \in waiting \ expired PROVE f - seen[id] <= MaxUnseen * 4
    OBVIOUS
  <2>1. id \in DOMAIN seen /\ ~Unseen(seen, id, f, MaxUnseen * 4)
    BY <1>6 DEF Expired
  <2>2. ~(f - seen[id] > MaxUnseen * 4)
    BY <2>1 DEF Unseen
  <2> QED
    BY <2>1, <2>2, <1>14, <1>15
<1> HIDE DEF passed, expired
<1>11. DOMAIN m.pending = waiting \ expired
  BY <1>1, <1>8 DEF Restrict
<1>12. /\ DOMAIN m.seen = DOMAIN seen \ (passed \cup expired)
       /\ \A id \in DOMAIN m.seen : m.seen[id] = seen[id]
  BY <1>1 DEF Restrict
<1>13. DOMAIN m.seen = (lands \ passed) \cup (waiting \ expired)
  BY <1>6, <1>7, <1>8, <1>12
<1> QED
  BY <1>1, <1>5, <1>7, <1>9, <1>10, <1>11, <1>12, <1>13, <1>14 DEF Consistent

\* ... and so does what the window adds.
LEMMA BecomeConsistent ==
  ASSUME NEW m, NEW outliers, NEW fresh, Consistent(m.landmarks, m.pending, m.seen, m.frame),
         Become(m, outliers, fresh)
  PROVE  RoleInv'
<1> DEFINE rest == DOMAIN m.pending \ fresh
<1>1. /\ landmarks_' = m.landmarks \cup fresh /\ frame_' = m.frame
      /\ pending_' = Restrict(m.pending, rest)
      /\ last_seen_' = [id \in DOMAIN m.seen \cup fresh |-> IF id \in fresh THEN m.frame ELSE m.seen[id]]
  BY DEF Become, NoLongerPending
<1>2. DOMAIN pending_' = rest
  BY <1>1 DEF Restrict
<1>3. /\ DOMAIN last_seen_' = DOMAIN m.seen \cup fresh
      /\ \A id \in fresh : last_seen_'[id] = m.frame
      /\ \A id \in DOMAIN m.seen \ fresh : last_seen_'[id] = m.seen[id]
  BY <1>1
<1>4. MaxUnseen \in Nat
  BY MapAssumption
<1>5. DOMAIN last_seen_' = landmarks_' \cup DOMAIN pending_'
  BY <1>1, <1>2, <1>3 DEF Consistent
<1>6. landmarks_' \cap DOMAIN pending_' = {}
  BY <1>1, <1>2 DEF Consistent
<1>7. \A id \in DOMAIN last_seen_' : last_seen_'[id] \in Nat /\ last_seen_'[id] <= frame_'
  BY <1>1, <1>3 DEF Consistent
<1>8. \A id \in landmarks_' : frame_' - last_seen_'[id] <= MaxUnseen
  BY <1>1, <1>3, <1>4 DEF Consistent
<1>9. \A id \in DOMAIN pending_' : frame_' - last_seen_'[id] <= MaxUnseen * 4
  BY <1>1, <1>2, <1>3 DEF Consistent
<1>10. frame_' \in Nat
  BY <1>1 DEF Consistent
<1> QED
  BY <1>5, <1>6, <1>7, <1>8, <1>9, <1>10 DEF RoleInv, Consistent

\* Without a window the map holds nothing that has aged: it starts from the bootstrap.
Empty == window_ = <<>> => DOMAIN pending_ = {} /\ frame_ = 0 /\ DOMAIN lastDrop = {}

\* A keyframe in the window is of a frame the map has seen, and so is every drop.
WindowInv ==
  /\ Empty
  /\ frame_ \in Nat
  /\ window_ \in Seq(Range(window_))
  /\ \A kf \in Range(window_) :
       kf = [frame |-> kf.frame, ids |-> kf.ids] /\ kf.frame \in Nat /\ kf.frame <= frame_
  /\ \A id \in DOMAIN lastDrop : lastDrop[id] \in Nat /\ lastDrop[id] <= frame_
  /\ \A kf \in Range(window_) : \A id \in kf.ids \cap DOMAIN lastDrop : kf.frame >= lastDrop[id]

LEMMA RoleStep == RoleInv /\ Empty /\ [Next]_vars => RoleInv'
<1> SUFFICES ASSUME RoleInv, Empty, [Next]_vars PROVE RoleInv'
  OBVIOUS
<1>1. CASE NotInserted \/ UNCHANGED vars
  BY <1>1 DEF NotInserted, vars, map, RoleInv
<1>2. CASE InsertFrame
  <2>1. PICK outliers \in SUBSET (Live' \cap landmarks_), matured \in SUBSET Maturing(Live') :
          Become(Inserted(Live', outliers, matured), outliers, {})
    BY <1>2 DEF InsertFrame
  <2> QED
    BY <2>1, InsertedConsistent, BecomeConsistent
<1>3. CASE InsertKeyframe
  <2>1. PICK outliers \in SUBSET (Live' \cap landmarks_), matured \in SUBSET Maturing(Live') :
          \E fresh : Become(Inserted(Live', outliers, matured), outliers, fresh)
    BY <1>3 DEF InsertKeyframe
  <2> QED
    BY <2>1, InsertedConsistent, BecomeConsistent
<1>4. CASE Bootstrap
  <2>1. PICK seed \in SUBSET collected : landmarks_' = seed /\ last_seen_' = [id \in seed |-> 0]
    BY <1>4 DEF Bootstrap
  <2>2. DOMAIN pending_' = {} /\ frame_' = 0
    BY <1>4 DEF Bootstrap, Empty
  <2>3. MaxUnseen \in Nat
    BY MapAssumption
  <2>4. DOMAIN last_seen_' = landmarks_' /\ \A id \in DOMAIN last_seen_' : last_seen_'[id] = 0
    BY <2>1
  <2> QED
    BY <2>2, <2>3, <2>4 DEF RoleInv, Consistent
<1>5. CASE Reset
  <2>1. landmarks_' = {} /\ DOMAIN pending_' = {} /\ DOMAIN last_seen_' = {} /\ frame_' = 0
    BY <1>5 DEF Reset
  <2> QED
    BY <2>1 DEF RoleInv, Consistent
<1> QED
  BY <1>1, <1>2, <1>3, <1>4, <1>5 DEF Next

-------------------------------------------------------------------------------
(***************************************************************************)
(* What the window remembers.                                               *)
(***************************************************************************)
LEMMA WindowInit == Init => WindowInv
<1> SUFFICES ASSUME Init PROVE WindowInv
  OBVIOUS
<1>1. window_ = <<>> /\ DOMAIN pending_ = {} /\ frame_ = 0 /\ DOMAIN lastDrop = {}
  BY DEF Init
<1>2. Range(window_) = {}
  BY <1>1 DEF Range
<1> QED
  BY <1>1, <1>2 DEF WindowInv, Empty

LEMMA WithoutOutliers ==
  ASSUME NEW kf, kf = [frame |-> kf.frame, ids |-> kf.ids], NEW outliers
  PROVE  [kf EXCEPT !.ids = @ \ outliers] = [frame |-> kf.frame, ids |-> kf.ids \ outliers]
<1> DEFINE a == kf.frame
           b == kf.ids
           c == b \ outliers
<1>1. kf = [frame |-> a, ids |-> b] /\ [kf EXCEPT !.ids = @ \ outliers] = [kf EXCEPT !.ids = c]
  OBVIOUS
<1> HIDE DEF a, b, c
<1>2. [[frame |-> a, ids |-> b] EXCEPT !.ids = c] = [frame |-> a, ids |-> c]
  OBVIOUS
<1> QED
  BY <1>1, <1>2 DEF a, b, c

\* forget takes the outliers out of every keyframe, and nothing else.
LEMMA ForgottenViews ==
  ASSUME NEW window, window \in Seq(Range(window)),
         \A kf \in Range(window) : kf = [frame |-> kf.frame, ids |-> kf.ids],
         NEW outliers, NEW w, w = Forgotten(window, outliers)
  PROVE  /\ w \in Seq(Range(w)) /\ Len(w) = Len(window)
         /\ \A kf \in Range(w) :
              \E old \in Range(window) : kf = [frame |-> old.frame, ids |-> old.ids \ outliers]
<1> DEFINE Without(kf) == [frame |-> kf.frame, ids |-> kf.ids \ outliers]
<1>1. Len(window) \in Nat /\ DOMAIN window = 1 .. Len(window)
  OBVIOUS
<1>2. w = [i \in 1 .. Len(window) |-> [window[i] EXCEPT !.ids = @ \ outliers]]
  BY <1>1 DEF Forgotten
<1>3. DOMAIN w = 1 .. Len(window) /\ \A i \in DOMAIN w : w[i] = Without(window[i])
  <2>1. \A i \in 1 .. Len(window) : window[i] \in Range(window)
    BY <1>1 DEF Range
  <2>2. \A i \in 1 .. Len(window) : [window[i] EXCEPT !.ids = @ \ outliers] = Without(window[i])
    BY <2>1, WithoutOutliers
  <2>3. w = [i \in 1 .. Len(window) |-> Without(window[i])]
    BY <1>2, <2>2
  <2> QED
    BY <2>3
<1>4. \A i \in 1 .. Len(window) : w[i] \in Range(w) /\ window[i] \in Range(window)
  BY <1>1, <1>3 DEF Range
<1>5. w \in Seq(Range(w)) /\ Len(w) = Len(window)
  <2> DEFINE n == Len(window)
             R == Range(w)
  <2>1. n \in Nat /\ w = [i \in 1 .. n |-> w[i]] /\ \A i \in 1 .. n : w[i] \in R
    <3>1. DOMAIN w = 1 .. n /\ w = [i \in DOMAIN w |-> w[i]]
      BY <1>2, <1>3
    <3> QED
      BY <3>1, <1>1, <1>4
  <2> HIDE DEF n, R
  <2>2. w \in Seq(R) /\ Len(w) = n
    BY <2>1
  <2> QED
    BY <2>2 DEF n, R
<1>6. \A kf \in Range(w) : \E i \in 1 .. Len(window) : kf = Without(window[i])
  BY <1>3 DEF Range
<1> QED
  BY <1>4, <1>5, <1>6

\* push adds the keyframe and perhaps lets the oldest go.
LEMMA PushedViews ==
  ASSUME NEW window, window \in Seq(Range(window)), NEW kf, NEW w, w = Pushed(window, kf)
  PROVE  w \in Seq(Range(w)) /\ w # <<>> /\ Range(w) \subseteq Range(window) \cup {kf}
<1> DEFINE S == Range(window) \cup {kf}
           all == Append(window, kf)
<1>1. window \in Seq(S) /\ kf \in S
  OBVIOUS
<1>2. MaxKeyframes \in Nat
  BY MapAssumption
<1>3. w = IF Len(all) > MaxKeyframes + 1 THEN Tail(all) ELSE all
  BY DEF Pushed
<1> HIDE DEF S
<1>4. all \in Seq(S) /\ Len(all) = Len(window) + 1 /\ Len(window) \in Nat
  BY <1>1
<1> HIDE DEF all
<1>5. w \in Seq(S) /\ Len(w) > 0
  BY <1>2, <1>3, <1>4
<1>6. DOMAIN w = 1 .. Len(w) /\ Len(w) \in Nat /\ \A i \in DOMAIN w : w[i] \in S
  BY <1>5
<1>7. Range(w) \subseteq S
  BY <1>6 DEF Range
<1>8. w \in Seq(Range(w))
  <2> DEFINE R == Range(w)
  <2>1. \A i \in 1 .. Len(w) : w[i] \in R
    BY <1>6 DEF Range
  <2> HIDE DEF R
  <2>2. w \in Seq(R)
    BY <2>1, <1>5, <1>6
  <2> QED
    BY <2>2 DEF R
<1> QED
  BY <1>5, <1>7, <1>8 DEF S

\* A frame leaves a keyframe of its own, or views of what it did not drop.
LEMMA FrameRemembered ==
  ASSUME WindowInv, NEW features, NEW outliers, NEW matured, NEW m, NEW fresh,
         m = Inserted(features, outliers, matured), Become(m, outliers, fresh),
         window_ # <<>>, window_' \in Seq(Range(window_')), window_' # <<>>,
         \A kf \in Range(window_') :
           /\ kf = [frame |-> kf.frame, ids |-> kf.ids]
           /\ \/ kf.frame = m.frame
              \/ \E old \in Range(window_) : kf.frame = old.frame /\ kf.ids = old.ids \ outliers
  PROVE  WindowInv'
<1>1. m.frame = frame_ + 1 /\ frame_ \in Nat
  BY DEF Inserted, WindowInv
<1>2. frame_' = m.frame
  BY DEF Become
<1>3. /\ DOMAIN lastDrop' = DOMAIN lastDrop \cup outliers
      /\ \A id \in outliers : lastDrop'[id] = frame_ + 1
      /\ \A id \in DOMAIN lastDrop \ outliers : lastDrop'[id] = lastDrop[id]
  BY <1>1 DEF Become
<1>4. \A id \in DOMAIN lastDrop' : lastDrop'[id] \in Nat /\ lastDrop'[id] <= frame_'
  BY <1>1, <1>2, <1>3 DEF WindowInv
<1>5. \A kf \in Range(window_') :
        /\ kf.frame \in Nat /\ kf.frame <= frame_'
        /\ \A id \in kf.ids \cap DOMAIN lastDrop' : kf.frame >= lastDrop'[id]
  <2> SUFFICES ASSUME NEW kf \in Range(window_')
               PROVE  /\ kf.frame \in Nat /\ kf.frame <= frame_'
                      /\ \A id \in kf.ids \cap DOMAIN lastDrop' : kf.frame >= lastDrop'[id]
    OBVIOUS
  <2>1. CASE kf.frame = m.frame
    BY <2>1, <1>1, <1>2, <1>4
  <2>2. CASE \E old \in Range(window_) : kf.frame = old.frame /\ kf.ids = old.ids \ outliers
    <3>1. PICK old \in Range(window_) : kf.frame = old.frame /\ kf.ids = old.ids \ outliers
      BY <2>2
    <3>2. /\ old.frame \in Nat /\ old.frame <= frame_
          /\ \A id \in old.ids \cap DOMAIN lastDrop : old.frame >= lastDrop[id]
      BY DEF WindowInv
    <3>3. \A id \in kf.ids \cap DOMAIN lastDrop' :
            id \in old.ids \cap DOMAIN lastDrop /\ lastDrop'[id] = lastDrop[id]
      BY <3>1, <1>3
    <3> QED
      BY <3>1, <3>2, <3>3, <1>1, <1>2
  <2> QED
    BY <2>1, <2>2
<1> QED
  BY <1>1, <1>2, <1>4, <1>5 DEF WindowInv, Empty

LEMMA WindowStep == WindowInv /\ [Next]_vars => WindowInv'
<1> SUFFICES ASSUME WindowInv, [Next]_vars PROVE WindowInv'
  OBVIOUS
<1>1. CASE NotInserted \/ UNCHANGED vars
  BY <1>1 DEF NotInserted, vars, map, past, WindowInv, Empty
<1>2. CASE InsertFrame
  <2>1. PICK outliers \in SUBSET (Live' \cap landmarks_), matured \in SUBSET Maturing(Live') :
          /\ Become(Inserted(Live', outliers, matured), outliers, {})
          /\ window_' = Forgotten(window_, outliers)
    BY <1>2 DEF InsertFrame
  <2>2. /\ window_ # <<>> /\ window_ \in Seq(Range(window_))
        /\ \A kf \in Range(window_) : kf = [frame |-> kf.frame, ids |-> kf.ids]
    BY <1>2 DEF InsertFrame, Track, WindowInv
  <2>3. /\ window_' \in Seq(Range(window_')) /\ Len(window_') = Len(window_)
        /\ \A kf \in Range(window_') :
             \E old \in Range(window_) : kf = [frame |-> old.frame, ids |-> old.ids \ outliers]
    BY <2>1, <2>2, ForgottenViews
  <2>4. window_' # <<>>
    BY <2>2, <2>3
  <2>5. \A kf \in Range(window_') : kf = [frame |-> kf.frame, ids |-> kf.ids] /\
          \E old \in Range(window_) : kf.frame = old.frame /\ kf.ids = old.ids \ outliers
    BY <2>3
  <2> QED
    BY <2>1, <2>2, <2>3, <2>4, <2>5, FrameRemembered
<1>3. CASE InsertKeyframe
  <2>1. PICK outliers \in SUBSET (Live' \cap landmarks_), matured \in SUBSET Maturing(Live') :
          LET m == Inserted(Live', outliers, matured)
          IN  /\ window_' = Pushed(Forgotten(window_, outliers), [frame |-> m.frame, ids |-> Live'])
              /\ \E fresh : Become(m, outliers, fresh)
    BY <1>3 DEF InsertKeyframe
  <2> DEFINE m == Inserted(Live', outliers, matured)
             left == Forgotten(window_, outliers)
             new == [frame |-> m.frame, ids |-> Live']
  <2>2. PICK fresh : Become(m, outliers, fresh)
    BY <2>1
  <2>3. /\ window_ # <<>> /\ window_ \in Seq(Range(window_))
        /\ \A kf \in Range(window_) : kf = [frame |-> kf.frame, ids |-> kf.ids]
    BY <1>3 DEF InsertKeyframe, Track, WindowInv
  <2>4. /\ left \in Seq(Range(left))
        /\ \A kf \in Range(left) :
             \E old \in Range(window_) : kf = [frame |-> old.frame, ids |-> old.ids \ outliers]
    BY <2>3, ForgottenViews
  <2>5. /\ window_' = Pushed(left, new) /\ new.frame = m.frame
        /\ new = [frame |-> new.frame, ids |-> new.ids]
    BY <2>1
  <2> HIDE DEF left, new
  <2>6. window_' \in Seq(Range(window_')) /\ window_' # <<>> /\ Range(window_') \subseteq Range(left) \cup {new}
    BY <2>4, <2>5, PushedViews
  <2> HIDE DEF m
  <2>7. \A kf \in Range(left) : kf = [frame |-> kf.frame, ids |-> kf.ids] /\
          \E old \in Range(window_) : kf.frame = old.frame /\ kf.ids = old.ids \ outliers
    BY <2>4
  <2>8. \A kf \in Range(window_') :
          /\ kf = [frame |-> kf.frame, ids |-> kf.ids]
          /\ \/ kf.frame = m.frame
             \/ \E old \in Range(window_) : kf.frame = old.frame /\ kf.ids = old.ids \ outliers
    BY <2>5, <2>6, <2>7
  <2> QED
    BY <2>2, <2>3, <2>6, <2>8, FrameRemembered DEF m
<1>4. CASE Bootstrap
  <2>1. PICK seen : window_' = <<[frame |-> 0, ids |-> seen]>>
    BY <1>4 DEF Bootstrap
  <2>2. frame_' = 0 /\ DOMAIN lastDrop' = {} /\ DOMAIN pending_' = {}
    BY <1>4 DEF Bootstrap, WindowInv, Empty, past
  <2>3. /\ DOMAIN window_' = {1} /\ window_'[1] = [frame |-> 0, ids |-> seen]
        /\ window_' # <<>>
    BY <2>1
  <2>4. Range(window_') = {[frame |-> 0, ids |-> seen]}
    BY <2>3 DEF Range
  <2>5. window_' \in Seq(Range(window_'))
    BY <2>1, <2>4
  <2> QED
    BY <2>2, <2>3, <2>4, <2>5 DEF WindowInv, Empty
<1>5. CASE Reset
  <2>1. window_' = <<>> /\ DOMAIN pending_' = {} /\ frame_' = 0 /\ DOMAIN lastDrop' = {}
    BY <1>5 DEF Reset
  <2>2. Range(window_') = {}
    BY <2>1 DEF Range
  <2> QED
    BY <2>1, <2>2 DEF WindowInv, Empty
<1> QED
  BY <1>1, <1>2, <1>3, <1>4, <1>5 DEF Next

-------------------------------------------------------------------------------
(***************************************************************************)
(* The views of a pending track.                                            *)
(***************************************************************************)
Baseline(views, f) ==
  /\ views \in Seq(Nat) /\ Len(views) > 0 /\ Len(views) <= MaxObservations
  /\ \A i \in DOMAIN views : views[i] <= f
  /\ \A i \in 1 .. Len(views) - 1 : views[i] < views[i + 1]

BaselineInv ==
  /\ frame_ \in Nat
  /\ DOMAIN pendingSince = DOMAIN pending_
  /\ \A id \in DOMAIN pending_ :
       Baseline(pending_[id], frame_) /\ pending_[id][1] = pendingSince[id]

\* A first view, or one more: the oldest stays, and the order.
LEMMA FirstView ==
  ASSUME NEW f \in Nat
  PROVE  Baseline(WithView(<<>>, f), f) /\ WithView(<<>>, f)[1] = f
<1>1. MaxObservations \in Nat /\ MaxObservations > 1
  BY MapAssumption
<1>2. Append(<<>>, f) = <<f>> /\ Len(<<f>>) = 1
  OBVIOUS
<1>3. ~(Len(Append(<<>>, f)) > MaxObservations)
  BY <1>1, <1>2
<1>4. WithView(<<>>, f) = <<f>>
  BY <1>2, <1>3 DEF WithView
<1>5. <<f>> \in Seq(Nat) /\ DOMAIN <<f>> = {1} /\ <<f>>[1] = f
  OBVIOUS
<1>6. 1 .. 1 - 1 = {}
  OBVIOUS
<1> DEFINE w == <<f>>
<1>7. w \in Seq(Nat) /\ Len(w) = 1 /\ DOMAIN w = {1} /\ w[1] = f /\ WithView(<<>>, f) = w
  BY <1>2, <1>4, <1>5
<1> HIDE DEF w
<1>8. Baseline(w, f)
  <2>1. \A i \in 1 .. Len(w) - 1 : w[i] < w[i + 1]
    BY <1>6, <1>7
  <2>2. \A i \in DOMAIN w : w[i] <= f
    BY <1>7
  <2> QED
    BY <2>1, <2>2, <1>1, <1>7 DEF Baseline
<1> QED
  BY <1>7, <1>8

LEMMA AnotherView ==
  ASSUME NEW g \in Nat, NEW f \in Nat, g < f, NEW views, Baseline(views, g)
  PROVE  Baseline(WithView(views, f), f) /\ WithView(views, f)[1] = views[1]
<1> DEFINE n == Len(views)
           all == Append(views, f)
           w == WithView(views, f)
<1>1. MaxObservations \in Nat /\ MaxObservations > 1
  BY MapAssumption
<1>2. /\ views \in Seq(Nat) /\ n \in Nat /\ n > 0 /\ n <= MaxObservations
      /\ \A i \in 1 .. n : views[i] \in Nat /\ views[i] <= g
      /\ \A i \in 1 .. n - 1 : views[i] < views[i + 1]
  BY DEF Baseline
<1>3. /\ all \in Seq(Nat) /\ Len(all) = n + 1 /\ all[n + 1] = f
      /\ \A i \in 1 .. n : all[i] = views[i]
  BY <1>2
<1>4. w = IF Len(all) > MaxObservations THEN <<all[1]>> \o SubSeq(all, 3, Len(all)) ELSE all
  BY DEF WithView
<1> HIDE DEF n, all, w
<1>5. \A i \in 1 .. n : all[i] < all[i + 1]
  <2> SUFFICES ASSUME NEW i \in 1 .. n PROVE all[i] < all[i + 1]
    OBVIOUS
  <2>1. CASE i = n
    <3>1. all[i] = views[i] /\ views[i] \in Nat /\ views[i] <= g /\ all[i + 1] = f
      BY <2>1, <1>2, <1>3
    <3> QED
      BY <3>1
  <2>2. CASE i < n
    <3>1. i \in 1 .. n - 1 /\ i + 1 \in 1 .. n
      BY <2>2, <1>2
    <3> QED
      BY <3>1, <1>2, <1>3
  <2> QED
    BY <2>1, <2>2, <1>2
<1>6. \A i \in 1 .. n + 1 : all[i] \in Nat /\ all[i] <= f
  <2> SUFFICES ASSUME NEW i \in 1 .. n + 1 PROVE all[i] \in Nat /\ all[i] <= f
    OBVIOUS
  <2>1. CASE i = n + 1
    BY <2>1, <1>3
  <2>2. CASE i \in 1 .. n
    <3>1. all[i] = views[i] /\ views[i] \in Nat /\ views[i] <= g
      BY <2>2, <1>2, <1>3
    <3> QED
      BY <3>1
  <2> QED
    BY <2>1, <2>2, <1>2
<1>7. CASE n + 1 <= MaxObservations
  <2>1. w = all
    BY <1>1, <1>2, <1>3, <1>4, <1>7
  <2>2. DOMAIN all = 1 .. n + 1
    BY <1>2, <1>3
  <2> QED
    BY <2>1, <2>2, <1>2, <1>3, <1>5, <1>6, <1>7 DEF Baseline, w, n
<1>8. CASE n = MaxObservations
  <2>1. w = <<all[1]>> \o SubSeq(all, 3, n + 1)
    BY <1>1, <1>2, <1>3, <1>4, <1>8
  <2>2. all[1] \in Nat
    BY <1>2, <1>6
  <2>3. /\ SubSeq(all, 3, n + 1) \in Seq(Nat) /\ Len(SubSeq(all, 3, n + 1)) = n - 1
        /\ \A i \in 1 .. n - 1 : SubSeq(all, 3, n + 1)[i] = all[i + 2]
    BY <1>1, <1>2, <1>3, <1>8
  <2>4. w \in Seq(Nat) /\ Len(w) = n
    BY <2>1, <2>2, <2>3, <1>2
  <2>5. w[1] = all[1] /\ \A i \in 2 .. n : w[i] = all[i + 1]
    BY <2>1, <2>2, <2>3, <1>2
  <2>6. \A i \in 1 .. n : w[i] <= f
    <3>1. \A i \in 2 .. n : i + 1 \in 1 .. n + 1
      BY <1>2
    <3>2. \A i \in 1 .. n : i = 1 \/ i \in 2 .. n
      BY <1>2
    <3>3. 1 \in 1 .. n + 1
      BY <1>2
    <3> QED
      BY <3>1, <3>2, <3>3, <2>5, <1>6
  <2>7. \A i \in 1 .. n - 1 : w[i] < w[i + 1]
    <3> SUFFICES ASSUME NEW i \in 1 .. n - 1 PROVE w[i] < w[i + 1]
      OBVIOUS
    <3>1. i + 1 \in 2 .. n /\ i \in 1 .. n /\ i + 2 \in 1 .. n + 1 /\ i + 1 \in 1 .. n /\ (i + 1) + 1 = i + 2
      BY <1>2
    <3>2. w[i + 1] = all[i + 2] /\ all[i + 1] < all[i + 2]
      BY <3>1, <2>5, <1>5
    <3>3. CASE i = 1
      <4>1. all[1] < all[2] /\ all[2] < all[3] /\ w[1] = all[1] /\ w[2] = all[3]
        BY <3>1, <3>2, <3>3, <2>5, <1>5
      <4>2. 1 \in 1 .. n + 1 /\ 2 \in 1 .. n + 1 /\ 3 \in 1 .. n + 1
        BY <3>1, <3>3, <1>2
      <4>3. all[1] \in Nat /\ all[2] \in Nat /\ all[3] \in Nat
        BY <4>2, <1>6
      <4> QED
        BY <4>1, <4>3, <3>3
    <3>4. CASE i \in 2 .. n
      BY <3>2, <3>4, <2>5
    <3> QED
      BY <3>1, <3>3, <3>4
  <2>8. DOMAIN w = 1 .. n
    BY <2>4
  <2> QED
    BY <2>4, <2>5, <2>6, <2>7, <2>8, <1>2, <1>3 DEF Baseline, w, n
<1> QED
  BY <1>1, <1>2, <1>7, <1>8

LEMMA BaselineInit == Init => BaselineInv
<1>1. Init => DOMAIN pending_ = {} /\ DOMAIN pendingSince = {} /\ frame_ = 0
  BY DEF Init
<1> QED
  BY <1>1 DEF BaselineInv

LEMMA BaselineFrame ==
  ASSUME BaselineInv, NEW features, NEW outliers, NEW matured, NEW fresh,
         Become(Inserted(features, outliers, matured), outliers, fresh)
  PROVE  BaselineInv'
<1> DEFINE m == Inserted(features, outliers, matured)
           f == frame_ + 1
           taken == {id \in features \ landmarks_ : TakenUp(id)}
           views == [id \in DOMAIN pending_ \cup taken |->
                       IF id \notin taken THEN pending_[id]
                       ELSE WithView(IF id \in DOMAIN pending_ THEN pending_[id] ELSE <<>>, f)]
<1>1. frame_ \in Nat /\ f \in Nat /\ frame_ < f
  BY DEF BaselineInv
<1>2. m.frame = f /\ \E left \in SUBSET DOMAIN views : m.pending = Restrict(views, left)
  BY DEF Inserted
<1>3. frame_' = f /\ \E gone : pending_' = Restrict(m.pending, DOMAIN m.pending \ gone)
  BY <1>2 DEF Become, NoLongerPending
<1>4. DOMAIN views = DOMAIN pending_ \cup taken
  OBVIOUS
<1>5. \A id \in DOMAIN views :
        /\ Baseline(views[id], f)
        /\ views[id][1] = IF id \in DOMAIN pending_ THEN pendingSince[id] ELSE f
  <2> SUFFICES ASSUME NEW id \in DOMAIN views
               PROVE  /\ Baseline(views[id], f)
                      /\ views[id][1] = IF id \in DOMAIN pending_ THEN pendingSince[id] ELSE f
    OBVIOUS
  <2>1. CASE id \in DOMAIN pending_ /\ id \notin taken
    <3>1. views[id] = pending_[id]
      BY <2>1
    <3> HIDE DEF views, taken, f
    <3>2. Baseline(pending_[id], frame_) /\ pending_[id][1] = pendingSince[id]
      BY <2>1 DEF BaselineInv
    <3>3. Baseline(pending_[id], f)
      BY <3>2, <1>1 DEF Baseline
    <3> QED
      BY <3>1, <3>2, <3>3, <2>1
  <2>2. CASE id \in DOMAIN pending_ /\ id \in taken
    <3>1. views[id] = WithView(pending_[id], f)
      BY <2>2
    <3> HIDE DEF views, taken, f
    <3>2. Baseline(pending_[id], frame_) /\ pending_[id][1] = pendingSince[id]
      BY <2>2 DEF BaselineInv
    <3> QED
      BY <3>1, <3>2, <2>2, <1>1, AnotherView
  <2>3. CASE id \notin DOMAIN pending_ /\ id \in taken
    <3>1. views[id] = WithView(<<>>, f)
      BY <2>3
    <3> HIDE DEF views, taken, f
    <3> QED
      BY <3>1, <2>3, <1>1, FirstView
  <2> QED
    BY <2>1, <2>2, <2>3, <1>4
<1> HIDE DEF views, taken, f
<1>6. DOMAIN pending_' \subseteq DOMAIN views /\ \A id \in DOMAIN pending_' : pending_'[id] = views[id]
  <2>1. PICK left \in SUBSET DOMAIN views : m.pending = Restrict(views, left)
    BY <1>2
  <2>2. PICK gone : pending_' = Restrict(m.pending, DOMAIN m.pending \ gone)
    BY <1>3
  <2> HIDE DEF m
  <2>3. DOMAIN m.pending \subseteq DOMAIN views /\ \A id \in DOMAIN m.pending : m.pending[id] = views[id]
    BY <2>1 DEF Restrict
  <2>4. /\ DOMAIN pending_' \subseteq DOMAIN m.pending
        /\ \A id \in DOMAIN pending_' : pending_'[id] = m.pending[id]
    BY <2>2 DEF Restrict
  <2> QED
    BY <2>3, <2>4
<1>7. pendingSince' = [id \in DOMAIN pending_' |->
                         IF id \in DOMAIN pending_ THEN pendingSince[id] ELSE f]
  BY <1>2 DEF Become
<1> HIDE DEF m
<1>8. /\ DOMAIN pendingSince' = DOMAIN pending_'
      /\ \A id \in DOMAIN pending_' :
           pendingSince'[id] = IF id \in DOMAIN pending_ THEN pendingSince[id] ELSE f
  BY <1>7
<1> QED
  BY <1>1, <1>3, <1>5, <1>6, <1>8 DEF BaselineInv

LEMMA BaselineStep == BaselineInv /\ Empty /\ [Next]_vars => BaselineInv'
<1> SUFFICES ASSUME BaselineInv, Empty, [Next]_vars PROVE BaselineInv'
  OBVIOUS
<1>1. CASE NotInserted \/ UNCHANGED vars
  BY <1>1 DEF NotInserted, vars, map, past, BaselineInv
<1>2. CASE InsertFrame
  BY <1>2, BaselineFrame DEF InsertFrame
<1>3. CASE InsertKeyframe
  BY <1>3, BaselineFrame DEF InsertKeyframe
<1>4. CASE Bootstrap
  BY <1>4 DEF Bootstrap, past, BaselineInv
<1>5. CASE Reset
  <2>1. DOMAIN pending_' = {} /\ DOMAIN pendingSince' = {} /\ frame_' = 0
    BY <1>5 DEF Reset
  <2> QED
    BY <2>1 DEF BaselineInv
<1> QED
  BY <1>1, <1>2, <1>3, <1>4, <1>5 DEF Next

-------------------------------------------------------------------------------
(***************************************************************************)
(* The tracker.                                                             *)
(***************************************************************************)
\* Tracks in the order of their ids, as many as fit, none of an id that is still free.
Ordered(tracks, free) ==
  /\ tracks \in Seq(Nat) /\ Len(tracks) <= MaxFeatures
  /\ \A i \in DOMAIN tracks : tracks[i] < free
  /\ \A i, j \in DOMAIN tracks : i < j => tracks[i] < tracks[j]

TrackerInv ==
  /\ next_id_ \in 0 .. MaxIds /\ flowing \in BOOLEAN
  /\ Ordered(ids_, next_id_)
  /\ \A id \in used : id \in Nat /\ id < next_id_

LEMMA TrackerStart == Init => TrackerInv
<1> SUFFICES ASSUME Init PROVE TrackerInv
  OBVIOUS
<1>1. ids_ = <<>> /\ next_id_ = 0 /\ flowing = FALSE /\ used = {}
  BY DEF Init, TrackerInit
<1>2. Ordered(<<>>, 0)
  BY TrackerAssumption DEF Ordered
<1>3. next_id_ \in 0 .. MaxIds /\ Ordered(ids_, next_id_)
  BY <1>1, <1>2, TrackerAssumption
<1> QED
  BY <1>1, <1>3, Zenon DEF TrackerInv

\* flow and mergeDuplicates: what is kept of the tracks is in order.
LEMMA KeptOrdered ==
  ASSUME NEW tracks, NEW free, Ordered(tracks, free), NEW n \in 0 .. Len(tracks),
         NEW at \in [1 .. n -> DOMAIN tracks], \A i, j \in 1 .. n : i < j => at[i] < at[j],
         NEW kept, kept = [i \in 1 .. n |-> tracks[at[i]]]
  PROVE  Ordered(kept, free) /\ \A i \in DOMAIN kept : \E j \in DOMAIN tracks : kept[i] = tracks[j]
<1>1. /\ tracks \in Seq(Nat) /\ Len(tracks) \in Nat /\ DOMAIN tracks = 1 .. Len(tracks)
      /\ Len(tracks) <= MaxFeatures /\ MaxFeatures \in Nat /\ n \in Nat
  BY TrackerAssumption DEF Ordered
<1>2. /\ \A i \in DOMAIN tracks : tracks[i] \in Nat /\ tracks[i] < free
      /\ \A i, j \in DOMAIN tracks : i < j => tracks[i] < tracks[j]
  BY <1>1 DEF Ordered
<1>3. \A i \in 1 .. n : at[i] \in DOMAIN tracks /\ kept[i] = tracks[at[i]]
  OBVIOUS
<1>4. kept \in Seq(Nat) /\ Len(kept) = n /\ DOMAIN kept = 1 .. n
  BY <1>1, <1>2, <1>3
<1>5. \A i \in 1 .. n : kept[i] < free
  BY <1>2, <1>3
<1>6. \A i, j \in 1 .. n : i < j => kept[i] < kept[j]
  BY <1>2, <1>3
<1>7. Len(kept) <= MaxFeatures
  BY <1>1, <1>4
<1>8. Ordered(kept, free)
  BY <1>4, <1>5, <1>6, <1>7, Zenon DEF Ordered
<1> QED
  BY <1>3, <1>4, <1>8, Zenon

\* detectInto: the new ids are the next ones, and so the order stays.
LEMMA DetectedOrdered ==
  ASSUME next_id_ \in Nat, NEW tracked, Ordered(tracked, next_id_),
         NEW n \in 0 .. MaxFeatures - Len(tracked), NEW all, all = Detected(tracked, n)
  PROVE  /\ Ordered(all, next_id_ + n)
         /\ \A i \in DOMAIN all : \/ \E j \in DOMAIN tracked : all[i] = tracked[j]
                                  \/ all[i] >= next_id_
<1> DEFINE k == Len(tracked)
           new == [i \in 1 .. n |-> next_id_ + i - 1]
<1>1. /\ tracked \in Seq(Nat) /\ k \in Nat /\ DOMAIN tracked = 1 .. k /\ k <= MaxFeatures
      /\ MaxFeatures \in Nat
  BY TrackerAssumption DEF Ordered
<1>2. /\ \A i \in 1 .. k : tracked[i] \in Nat /\ tracked[i] < next_id_
      /\ \A i, j \in 1 .. k : i < j => tracked[i] < tracked[j]
  BY <1>1 DEF Ordered
<1>3. n \in Nat /\ k + n <= MaxFeatures
  BY <1>1
<1>4. \A i \in 1 .. n : new[i] = next_id_ + i - 1 /\ new[i] \in Nat
  BY <1>3
<1>5. new \in Seq(Nat) /\ Len(new) = n
  BY <1>3, <1>4
<1>6. all = tracked \o new
  BY DEF Detected
<1> HIDE DEF k, new
<1>13. k = Len(tracked)
  BY DEF k
<1>7. /\ all \in Seq(Nat) /\ Len(all) = k + n /\ DOMAIN all = 1 .. k + n
      /\ \A i \in 1 .. k : all[i] = tracked[i]
      /\ \A i \in k + 1 .. k + n : all[i] = new[i - k]
  <2>5. Len(tracked \o new) = Len(tracked) + Len(new)
    BY <1>1, <1>5
  <2>6. tracked \o new \in Seq(Nat)
    BY <1>1, <1>5
  <2>1. all \in Seq(Nat) /\ Len(all) = k + n
    BY <2>5, <2>6, <1>5, <1>6, <1>13
  <2>2. DOMAIN all = 1 .. k + n
    BY <2>1
  <2>3. \A i \in 1 .. k : all[i] = tracked[i]
    BY <1>1, <1>3, <1>5, <1>6, <1>13
  <2>4. \A i \in k + 1 .. k + n : all[i] = new[i - k]
    BY <1>1, <1>3, <1>5, <1>6, <1>13
  <2> QED
    BY <2>1, <2>2, <2>3, <2>4
<1>8. \A i \in k + 1 .. k + n : all[i] = next_id_ + i - k - 1
  <2> SUFFICES ASSUME NEW i \in k + 1 .. k + n PROVE all[i] = next_id_ + i - k - 1
    OBVIOUS
  <2>1. i - k \in 1 .. n /\ i \in Nat
    BY <1>1, <1>3
  <2> QED
    BY <2>1, <1>1, <1>4, <1>7
<1>9. \A i \in 1 .. k + n : i \in 1 .. k \/ i \in k + 1 .. k + n
  BY <1>1, <1>3
<1>10. \A i \in 1 .. k + n : all[i] < next_id_ + n
  <2> SUFFICES ASSUME NEW i \in 1 .. k + n PROVE all[i] < next_id_ + n
    OBVIOUS
  <2>1. CASE i \in 1 .. k
    BY <2>1, <1>2, <1>3, <1>7
  <2>2. CASE i \in k + 1 .. k + n
    BY <2>2, <1>1, <1>3, <1>8
  <2> QED
    BY <2>1, <2>2, <1>9
<1>11. \A i, j \in 1 .. k + n : i < j => all[i] < all[j]
  <2> SUFFICES ASSUME NEW i \in 1 .. k + n, NEW j \in 1 .. k + n, i < j PROVE all[i] < all[j]
    OBVIOUS
  <2>1. CASE i \in 1 .. k /\ j \in 1 .. k
    BY <2>1, <1>2, <1>7
  <2>2. CASE i \in 1 .. k /\ j \in k + 1 .. k + n
    <3>1. all[i] \in Nat /\ all[i] < next_id_
      BY <2>2, <1>2, <1>7
    <3>2. all[j] = next_id_ + j - k - 1 /\ j >= k + 1
      BY <2>2, <1>1, <1>8
    <3> QED
      BY <3>1, <3>2, <1>1
  <2>3. CASE i \in k + 1 .. k + n /\ j \in k + 1 .. k + n
    <3>1. all[i] = next_id_ + i - k - 1 /\ all[j] = next_id_ + j - k - 1
      BY <2>3, <1>8
    <3> QED
      BY <3>1, <1>1
  <2>4. CASE i \in k + 1 .. k + n /\ j \in 1 .. k
    BY <2>4, <1>1
  <2> QED
    BY <2>1, <2>2, <2>3, <2>4, <1>9
<1>12. \A i \in k + 1 .. k + n : all[i] >= next_id_
  BY <1>1, <1>8
<1> QED
  BY <1>1, <1>3, <1>7, <1>9, <1>10, <1>11, <1>12 DEF Ordered

\* An image: the tracks stay in order, and an id that is new was never handed out.
LEMMA ImageTracked ==
  ASSUME TrackerInv, TrackImage
  PROVE  TrackerInv' /\ (Live' \ Live) \cap used = {}
<1>1. next_id_ \in Nat /\ next_id_ <= MaxIds /\ MaxIds \in Nat /\ Ordered(ids_, next_id_)
  BY TrackerAssumption DEF TrackerInv
<1>2. ASSUME NEW tracked, Ordered(tracked, next_id_), DetectInto(tracked),
             \A i \in DOMAIN tracked : \E j \in DOMAIN ids_ : tracked[i] = ids_[j]
      PROVE  /\ next_id_' \in 0 .. MaxIds /\ next_id_ <= next_id_' /\ Ordered(ids_', next_id_')
             /\ \A i \in DOMAIN ids_' : \/ \E j \in DOMAIN ids_ : ids_'[i] = ids_[j]
                                        \/ ids_'[i] >= next_id_
  <2>1. PICK n \in 0 .. MaxFeatures - Len(tracked) :
          /\ next_id_ + n <= MaxIds /\ ids_' = Detected(tracked, n) /\ next_id_' = next_id_ + n
    BY <1>2 DEF DetectInto
  <2>2. n \in Nat
    OBVIOUS
  <2>3. /\ Ordered(ids_', next_id_ + n)
        /\ \A i \in DOMAIN ids_' : \/ \E j \in DOMAIN tracked : ids_'[i] = tracked[j]
                                   \/ ids_'[i] >= next_id_
    BY <2>1, <1>1, <1>2, DetectedOrdered
  <2>4. next_id_' \in 0 .. MaxIds /\ next_id_ <= next_id_'
    BY <2>1, <2>2, <1>1
  <2> QED
    BY <2>1, <2>3, <2>4, <1>2
<1>3. /\ next_id_' \in 0 .. MaxIds /\ next_id_ <= next_id_' /\ Ordered(ids_', next_id_')
      /\ \A i \in DOMAIN ids_' : \/ \E j \in DOMAIN ids_ : ids_'[i] = ids_[j]
                                 \/ ids_'[i] >= next_id_
  <2>1. CASE ColdStart
    BY <2>1, <1>1, <1>2 DEF ColdStart
  <2>2. CASE Flow
    <3>1. PICK n \in 0 .. Len(ids_) : \E at \in Places(n) :
            LET tracked == [i \in 1 .. n |-> ids_[at[i]]]
            IN  IF n < MinFeatures
                THEN DetectInto(tracked)
                ELSE ids_' = tracked /\ UNCHANGED next_id_
      BY <2>2 DEF Flow
    <3>7. PICK at \in Places(n) :
            LET tracked == [i \in 1 .. n |-> ids_[at[i]]]
            IN  IF n < MinFeatures
                THEN DetectInto(tracked)
                ELSE ids_' = tracked /\ UNCHANGED next_id_
      BY <3>1
    <3> DEFINE tracked == [i \in 1 .. n |-> ids_[at[i]]]
    <3>2. at \in [1 .. n -> DOMAIN ids_] /\ \A i, j \in 1 .. n : i < j => at[i] < at[j]
      BY DEF Places
    <3>3. \/ DetectInto(tracked)
          \/ ids_' = tracked /\ next_id_' = next_id_
      BY <3>7
    <3> HIDE DEF tracked
    <3>4. /\ Ordered(tracked, next_id_)
          /\ \A i \in DOMAIN tracked : \E j \in DOMAIN ids_ : tracked[i] = ids_[j]
      BY <3>2, <1>1, KeptOrdered DEF tracked
    <3>5. CASE DetectInto(tracked)
      BY <3>4, <3>5, <1>2
    <3>6. CASE ids_' = tracked /\ next_id_' = next_id_
      BY <3>4, <3>6, <1>1
    <3> QED
      BY <3>3, <3>5, <3>6
  <2> QED
    BY <2>1, <2>2 DEF TrackImage
<1>4. used' = used \cup Live' /\ flowing' \in BOOLEAN
  BY DEF TrackImage, ColdStart, Flow, TrackerInv, Live
<1>5. next_id_' \in Nat /\ \A i \in DOMAIN ids_' : ids_'[i] \in Nat /\ ids_'[i] < next_id_'
  BY <1>1, <1>3 DEF Ordered
<1>6. \A id \in used' : id \in Nat /\ id < next_id_'
  <2>1. \A id \in used : id \in Nat /\ id < next_id_
    BY DEF TrackerInv
  <2>2. \A id \in used : id \in Nat /\ id < next_id_'
    BY <2>1, <1>1, <1>3, <1>5
  <2>3. \A id \in Live' : id \in Nat /\ id < next_id_'
    BY <1>5 DEF Live
  <2> QED
    BY <2>2, <2>3, <1>4
<1>7. \A id \in Live' \ Live : id \in Nat /\ id >= next_id_
  BY <1>3, <1>5 DEF Live
<1>8. (Live' \ Live) \cap used = {}
  <2>1. \A id \in used : id \in Nat /\ id < next_id_
    BY DEF TrackerInv
  <2>2. \A id \in Nat : ~(id < next_id_ /\ id >= next_id_)
    BY <1>1
  <2> QED
    BY <2>1, <2>2, <1>7
<1> QED
  BY <1>3, <1>4, <1>6, <1>8 DEF TrackerInv

LEMMA TrackerStep ==
  TrackerInv /\ [Next]_vars => TrackerInv' /\ (Live' \ Live) \cap used = {}
<1> SUFFICES ASSUME TrackerInv, [Next]_vars PROVE TrackerInv' /\ (Live' \ Live) \cap used = {}
  OBVIOUS
<1>1. CASE TrackImage
  BY <1>1, ImageTracked
<1>2. CASE UNCHANGED tracker
  BY <1>2 DEF tracker, TrackerInv, Live
<1>3. CASE ResetTracker
  <2>1. ids_' = <<>> /\ next_id_' = next_id_ /\ flowing' = FALSE /\ used' = used
    BY <1>3 DEF ResetTracker, NextAfterReset
  <2>2. Ordered(<<>>, next_id_)
    BY TrackerAssumption DEF Ordered
  <2>3. Live' = {}
    BY <2>1 DEF Live
  <2> QED
    BY <2>1, <2>2, <2>3 DEF TrackerInv
<1> QED
  BY <1>1, <1>2, <1>3
     DEF Next, NotInserted, InsertFrame, InsertKeyframe, Bootstrap, Reset, Track, vars

-------------------------------------------------------------------------------
(***************************************************************************)
(* The ranges: every id the map or the window knows was handed out.          *)
(***************************************************************************)
RangeInv ==
  /\ frame_ \in Frames
  /\ landmarks_ \subseteq Ids /\ dropped_outliers_ \subseteq Ids /\ collected \subseteq Ids
  /\ DOMAIN pending_ \subseteq Ids
  /\ last_seen_ = [id \in DOMAIN last_seen_ |-> last_seen_[id]]
  /\ Len(window_) <= MaxKeyframes + 1
  /\ \A kf \in Range(window_) : kf.ids \subseteq Ids

LEMMA RangeInit == Init => RangeInv
<1> SUFFICES ASSUME Init PROVE RangeInv
  OBVIOUS
<1>1. /\ landmarks_ = {} /\ dropped_outliers_ = {} /\ collected = {} /\ frame_ = 0
      /\ last_seen_ = <<>> /\ DOMAIN pending_ = {} /\ window_ = <<>>
  BY DEF Init
<1>2. Range(window_) = {} /\ Len(window_) = 0
  BY <1>1 DEF Range
<1>3. frame_ \in Frames /\ 0 <= MaxKeyframes + 1
  BY <1>1, MapAssumption DEF Frames
<1>4. <<>> = [id \in DOMAIN <<>> |-> <<>>[id]]
  OBVIOUS
<1> QED
  BY <1>1, <1>2, <1>3, <1>4 DEF RangeInv

LEMMA TracksInRange ==
  ASSUME NEW tracks, NEW free \in 0 .. MaxIds, Ordered(tracks, free)
  PROVE  tracks \in Seq(Ids) /\ \A i \in DOMAIN tracks : tracks[i] \in Ids
<1>1. /\ free \in Nat /\ free <= MaxIds /\ MaxIds \in Nat
      /\ tracks \in Seq(Nat) /\ \A i \in DOMAIN tracks : tracks[i] < free
  BY TrackerAssumption DEF Ordered
<1>2. \A id \in Nat : id < free => id \in Ids
  BY <1>1 DEF Ids
<1>3. \A i \in DOMAIN tracks : tracks[i] \in Ids
  BY <1>1, <1>2
<1> QED
  BY <1>1, <1>3

\* A frame brings no id into the map that it does not have itself.
LEMMA FrameInRange ==
  ASSUME RangeInv, frame_ < MaxFrames, NEW features, features \subseteq Ids,
         NEW outliers \in SUBSET (features \cap landmarks_),
         NEW matured \in SUBSET Maturing(features),
         NEW m, m = Inserted(features, outliers, matured),
         NEW fresh, fresh \subseteq Ids, Become(m, outliers, fresh)
  PROVE  /\ frame_' \in Frames /\ landmarks_' \subseteq Ids /\ dropped_outliers_' \subseteq Ids
         /\ DOMAIN pending_' \subseteq Ids
         /\ last_seen_' = [id \in DOMAIN last_seen_' |-> last_seen_'[id]]
<1>1. matured \subseteq Ids /\ outliers \subseteq Ids
  BY DEF Maturing
<1>2. /\ landmarks_ \subseteq Ids /\ dropped_outliers_ \subseteq Ids /\ DOMAIN pending_ \subseteq Ids
      /\ frame_ \in 0 .. MaxFrames /\ MaxFrames \in Nat
  BY MapAssumption DEF RangeInv, Frames
<1>3. m.frame = frame_ + 1
  BY DEF Inserted
<1>4. m.landmarks \subseteq (landmarks_ \ outliers) \cup matured
  BY DEF Inserted
<1>5. m.dropped \subseteq dropped_outliers_ \cup outliers
  BY DEF Inserted
<1>6. DOMAIN m.pending \subseteq DOMAIN pending_ \cup features
  BY DEF Inserted, Restrict
<1>7. /\ landmarks_' = m.landmarks \cup fresh /\ frame_' = m.frame /\ dropped_outliers_' = m.dropped
      /\ DOMAIN pending_' = DOMAIN m.pending \ fresh
  BY DEF Become, NoLongerPending, Restrict
<1>8. last_seen_' = [id \in DOMAIN last_seen_' |-> last_seen_'[id]]
  <2>1. last_seen_' = [id \in DOMAIN m.seen \cup fresh |-> IF id \in fresh THEN m.frame ELSE m.seen[id]]
    BY DEF Become
  <2> QED
    BY <2>1
<1>9. frame_' \in Frames
  BY <1>2, <1>3, <1>7 DEF Frames
<1>10. /\ landmarks_' \subseteq Ids /\ dropped_outliers_' \subseteq Ids
       /\ DOMAIN pending_' \subseteq Ids
  BY <1>1, <1>2, <1>4, <1>5, <1>6, <1>7
<1> QED
  BY <1>8, <1>9, <1>10

\* push: the window holds one keyframe more than it is set to, and no other.
LEMMA PushedLength ==
  ASSUME NEW window, window \in Seq(Range(window)), Len(window) <= MaxKeyframes + 1,
         NEW kf, NEW w, w = Pushed(window, kf)
  PROVE  Len(w) <= MaxKeyframes + 1
<1> DEFINE S == Range(window) \cup {kf}
           all == Append(window, kf)
<1>1. window \in Seq(S) /\ kf \in S
  OBVIOUS
<1>2. MaxKeyframes \in Nat
  BY MapAssumption
<1>3. w = IF Len(all) > MaxKeyframes + 1 THEN Tail(all) ELSE all
  BY DEF Pushed
<1> HIDE DEF S
<1>4. all \in Seq(S) /\ Len(all) = Len(window) + 1 /\ Len(window) \in Nat
  BY <1>1
<1> HIDE DEF all
<1>5. CASE Len(all) > MaxKeyframes + 1
  <2>1. w = Tail(all) /\ all # <<>>
    BY <1>2, <1>3, <1>4, <1>5
  <2>2. Len(w) = Len(all) - 1
    BY <2>1, <1>4
  <2> QED
    BY <2>2, <1>4
<1>6. CASE ~(Len(all) > MaxKeyframes + 1)
  BY <1>2, <1>3, <1>4, <1>6
<1> QED
  BY <1>5, <1>6

LEMMA RangeStep ==
  TrackerInv /\ TrackerInv' /\ WindowInv /\ WindowInv' /\ RangeInv /\ [Next]_vars => RangeInv'
<1> SUFFICES ASSUME TrackerInv, TrackerInv', WindowInv, WindowInv', RangeInv, [Next]_vars
             PROVE  RangeInv'
  OBVIOUS
<1>1. Live' \subseteq Ids
  <2>1. next_id_' \in 0 .. MaxIds /\ Ordered(ids_', next_id_')
    BY DEF TrackerInv
  <2>2. \A i \in DOMAIN ids_' : ids_'[i] \in Ids
    BY <2>1, TracksInRange
  <2> QED
    BY <2>2 DEF Live
<1>2. /\ window_ \in Seq(Range(window_))
      /\ \A kf \in Range(window_) : kf = [frame |-> kf.frame, ids |-> kf.ids]
  BY DEF WindowInv
<1>3. window_' \in Seq(Range(window_'))
  BY DEF WindowInv
<1>4. Len(window_) <= MaxKeyframes + 1 /\ \A kf \in Range(window_) : kf.ids \subseteq Ids
  BY DEF RangeInv
<1>5. CASE NotInserted
  <2>1. collected' = IF window_ = <<>> THEN collected \cup Live' ELSE {}
    BY <1>5 DEF NotInserted, Live
  <2>2. collected' \subseteq Ids
    BY <2>1, <1>1 DEF RangeInv
  <2> QED
    BY <1>5, <2>2 DEF NotInserted, map, RangeInv
<1>6. CASE InsertFrame
  <2>1. PICK outliers \in SUBSET (Live' \cap landmarks_) :
          \E matured \in SUBSET Maturing(Live') :
            /\ Become(Inserted(Live', outliers, matured), outliers, {})
            /\ window_' = Forgotten(window_, outliers)
    BY <1>6 DEF InsertFrame
  <2>2. PICK matured \in SUBSET Maturing(Live') :
          /\ Become(Inserted(Live', outliers, matured), outliers, {})
          /\ window_' = Forgotten(window_, outliers)
    BY <2>1
  <2>3. /\ Len(window_') = Len(window_)
        /\ \A kf \in Range(window_') :
             \E old \in Range(window_) : kf = [frame |-> old.frame, ids |-> old.ids \ outliers]
    BY <2>2, <1>2, ForgottenViews
  <2>4. \A kf \in Range(window_') : kf.ids \subseteq Ids
    BY <2>3, <1>4
  <2>5. frame_ < MaxFrames /\ collected' = collected
    BY <1>6 DEF InsertFrame, Track
  <2>6. /\ frame_' \in Frames /\ landmarks_' \subseteq Ids /\ dropped_outliers_' \subseteq Ids
        /\ DOMAIN pending_' \subseteq Ids
        /\ last_seen_' = [id \in DOMAIN last_seen_' |-> last_seen_'[id]]
    BY <2>2, <2>5, <1>1, FrameInRange
  <2> QED
    BY <2>3, <2>4, <2>5, <2>6, <1>4 DEF RangeInv
<1>7. CASE InsertKeyframe
  <2>1. PICK outliers \in SUBSET (Live' \cap landmarks_) :
          \E matured \in SUBSET Maturing(Live') :
            LET m == Inserted(Live', outliers, matured)
            IN  /\ window_' = Pushed(Forgotten(window_, outliers), [frame |-> m.frame, ids |-> Live'])
                /\ \E fresh \in SUBSET Unknown(window_', m.landmarks) : Become(m, outliers, fresh)
    BY <1>7 DEF InsertKeyframe
  <2>2. PICK matured \in SUBSET Maturing(Live') :
          LET m == Inserted(Live', outliers, matured)
          IN  /\ window_' = Pushed(Forgotten(window_, outliers), [frame |-> m.frame, ids |-> Live'])
              /\ \E fresh \in SUBSET Unknown(window_', m.landmarks) : Become(m, outliers, fresh)
    BY <2>1
  <2> DEFINE m == Inserted(Live', outliers, matured)
             left == Forgotten(window_, outliers)
             new == [frame |-> m.frame, ids |-> Live']
  <2>3. PICK fresh \in SUBSET Unknown(window_', m.landmarks) : Become(m, outliers, fresh)
    BY <2>2
  <2>4. /\ left \in Seq(Range(left)) /\ Len(left) = Len(window_)
        /\ \A kf \in Range(left) :
             \E old \in Range(window_) : kf = [frame |-> old.frame, ids |-> old.ids \ outliers]
    BY <1>2, ForgottenViews
  <2>5. window_' = Pushed(left, new) /\ new.ids = Live'
    BY <2>2
  <2> HIDE DEF left, new, m
  <2>6. window_' # <<>> /\ Range(window_') \subseteq Range(left) \cup {new}
    BY <2>4, <2>5, PushedViews
  <2>7. Len(window_') <= MaxKeyframes + 1
    BY <2>4, <2>5, <1>4, PushedLength
  <2>8. \A kf \in Range(left) : kf.ids \subseteq Ids
    BY <2>4, <1>4
  <2>9. \A kf \in Range(window_') : kf.ids \subseteq Ids
    BY <2>5, <2>6, <2>8, <1>1
  <2>10. fresh \subseteq Ids
    <3>1. Len(window_') \in DOMAIN window_'
      BY <2>6, <1>3
    <3>2. window_'[Len(window_')].ids \subseteq Ids
      BY <3>1, <2>9 DEF Range
    <3> QED
      BY <3>2 DEF Unknown
  <2>11. frame_ < MaxFrames /\ collected' = collected
    BY <1>7 DEF InsertKeyframe, Track
  <2>12. m = Inserted(Live', outliers, matured)
    BY DEF m
  <2>13. /\ frame_' \in Frames /\ landmarks_' \subseteq Ids /\ dropped_outliers_' \subseteq Ids
         /\ DOMAIN pending_' \subseteq Ids
         /\ last_seen_' = [id \in DOMAIN last_seen_' |-> last_seen_'[id]]
    BY <2>3, <2>10, <2>11, <2>12, <1>1, FrameInRange
  <2> QED
    BY <2>7, <2>9, <2>11, <2>13 DEF RangeInv
<1>8. CASE Bootstrap
  <2>1. PICK seed \in SUBSET collected : \E seen \in SUBSET collected :
          /\ landmarks_' = seed /\ last_seen_' = [id \in seed |-> 0]
          /\ window_' = <<[frame |-> 0, ids |-> seen]>>
    BY <1>8 DEF Bootstrap
  <2>2. PICK seen \in SUBSET collected : window_' = <<[frame |-> 0, ids |-> seen]>>
    BY <2>1
  <2>3. DOMAIN window_' = {1} /\ Len(window_') = 1 /\ window_'[1].ids = seen
    BY <2>2
  <2>4. \A kf \in Range(window_') : kf.ids \subseteq collected
    BY <2>3 DEF Range
  <2>5. /\ collected' = {} /\ DOMAIN pending_' = DOMAIN pending_ /\ frame_' = frame_
        /\ dropped_outliers_' = dropped_outliers_
    BY <1>8 DEF Bootstrap
  <2>6. Len(window_') <= MaxKeyframes + 1
    BY <2>3, MapAssumption
  <2>7. last_seen_' = [id \in DOMAIN last_seen_' |-> last_seen_'[id]]
    BY <2>1
  <2>8. collected \subseteq Ids
    BY DEF RangeInv
  <2>9. \A kf \in Range(window_') : kf.ids \subseteq Ids
    BY <2>4, <2>8
  <2>10. landmarks_' \subseteq Ids
    BY <2>1, <2>8
  <2> QED
    BY <2>5, <2>6, <2>7, <2>9, <2>10 DEF RangeInv
<1>9. CASE Reset
  <2>1. /\ landmarks_' = {} /\ dropped_outliers_' = {} /\ collected' = {} /\ frame_' = 0
        /\ last_seen_' = <<>> /\ DOMAIN pending_' = {} /\ window_' = <<>>
    BY <1>9 DEF Reset
  <2>2. Range(window_') = {} /\ Len(window_') = 0
    BY <2>1 DEF Range
  <2>3. frame_' \in Frames /\ 0 <= MaxKeyframes + 1
    BY <2>1, MapAssumption DEF Frames
  <2>4. <<>> = [id \in DOMAIN <<>> |-> <<>>[id]]
    OBVIOUS
  <2> QED
    BY <2>1, <2>2, <2>3, <2>4 DEF RangeInv
<1>10. CASE UNCHANGED vars
  BY <1>10 DEF vars, map, RangeInv
<1> QED
  BY <1>5, <1>6, <1>7, <1>8, <1>9, <1>10 DEF Next

-------------------------------------------------------------------------------
(***************************************************************************)
(* The theorems.                                                            *)
(***************************************************************************)
LEMMA AllThree == Spec => [](RoleInv /\ WindowInv /\ BaselineInv)
<1> DEFINE Inv == RoleInv /\ WindowInv /\ BaselineInv
<1>1. Init => Inv
  BY RoleInit, WindowInit, BaselineInit
<1>2. Inv /\ [Next]_vars => Inv'
  BY RoleStep, WindowStep, BaselineStep DEF WindowInv
<1> QED
  BY <1>1, <1>2, PTL DEF Spec

LEMMA TrackerAlways == Spec => []TrackerInv
<1>1. Init => TrackerInv
  BY TrackerStart
<1>2. TrackerInv /\ [Next]_vars => TrackerInv'
  BY TrackerStep
<1> QED
  BY <1>1, <1>2, PTL DEF Spec

LEMMA RangeAlways == Spec => []RangeInv
<1>1. Init => RangeInv
  BY RangeInit
<1>2. TrackerInv /\ TrackerInv' /\ WindowInv /\ WindowInv' /\ RangeInv /\ [Next]_vars
        => RangeInv'
  BY RangeStep
<1> QED
  BY <1>1, <1>2, TrackerAlways, AllThree, PTL DEF Spec

\* However tracks are dropped, recycled, matured, triangulated by the window and pruned
\* (LandmarkMap::insert and add), a track is a landmark or pending and not both, and
\* last_seen_ is kept for exactly those.
THEOREM OneRoleEach == Spec => []OneRole
<1>1. RoleInv => OneRole
  BY DEF RoleInv, Consistent, OneRole
<1> QED
  BY <1>1, AllThree, PTL

\* Whatever max_unseen_frames is, nothing that was unseen for longer than its grace is
\* left in the map after a frame.
THEOREM NothingLeaks == Spec => []SeenLately
<1>1. RoleInv => SeenLately
  BY DEF RoleInv, Consistent, SeenLately
<1> QED
  BY <1>1, AllThree, PTL

\* For every window size: no keyframe holds a view of an id from before its landmark was
\* last dropped, however often the id comes back.
THEOREM OldViewsForgotten == Spec => []WindowForgets
<1>1. WindowInv => WindowForgets
  BY DEF WindowInv, WindowForgets, Range
<1> QED
  BY <1>1, AllThree, PTL

\* For every max_observations of two or more: however often views made room, the first
\* view of a pending track is still there, and the others are in order.
THEOREM WidestBaseline == Spec => []WidestBaselineKept
<1>1. BaselineInv => WidestBaselineKept
  BY DEF BaselineInv, Baseline, WidestBaselineKept
<1> QED
  BY <1>1, AllThree, PTL

\* Whatever KLT, the border, a merge and the corner detector do to the tracks, and however
\* often the tracker is reset: they stay in the order of their age, and within their cap.
THEOREM TracksInOrder == Spec => []OldestFirst
<1>1. TrackerInv => OldestFirst
  BY DEF TrackerInv, Ordered, OldestFirst
<1> QED
  BY <1>1, TrackerAlways, PTL

\* ... and no id that was ever handed out comes back as a new track.
THEOREM IdsForGood == Spec => IdsNeverReused
<1>1. TrackerInv /\ [Next]_vars => [(Live' \ Live) \cap used = {}]_vars
  BY TrackerStep
<1> QED
  BY <1>1, TrackerAlways, PTL DEF Spec, IdsNeverReused

\* Every id in the tracker, the map and the window was handed out, every view is of a
\* frame the map has had, and the window holds one keyframe more than it is set to.
THEOREM TypeCorrect == Spec => []TypeOK
<1>1. ASSUME TrackerInv, RoleInv, WindowInv, BaselineInv, RangeInv PROVE TypeOK
  <2>1. next_id_ \in 0 .. MaxIds /\ flowing \in BOOLEAN /\ Ordered(ids_, next_id_)
    BY <1>1 DEF TrackerInv
  <2>9. ids_ \in Seq(Ids)
    BY <2>1, TracksInRange
  <2>10. used \subseteq Ids
    <3>1. \A id \in used : id \in Nat /\ id < next_id_
      BY <1>1 DEF TrackerInv
    <3> QED
      BY <2>1, <3>1, TrackerAssumption DEF Ids
  <2>2. /\ landmarks_ \subseteq Ids /\ dropped_outliers_ \subseteq Ids /\ collected \subseteq Ids
        /\ DOMAIN pending_ \subseteq Ids /\ frame_ \in Frames
        /\ Len(window_) <= MaxKeyframes + 1
    BY <1>1 DEF RangeInv
  <2>3. frame_ \in Nat /\ frame_ <= MaxFrames /\ MaxFrames \in Nat
    BY <2>2, MapAssumption DEF Frames
  <2>4. \A n \in Nat : n <= frame_ => n \in Frames
    BY <2>3 DEF Frames
  <2>5. last_seen_ \in [DOMAIN last_seen_ -> Frames]
    <3>1. \A id \in DOMAIN last_seen_ : last_seen_[id] \in Frames
      BY <1>1, <2>4 DEF RoleInv, Consistent
    <3>2. last_seen_ = [id \in DOMAIN last_seen_ |-> last_seen_[id]]
      BY <1>1 DEF RangeInv
    <3> QED
      BY <3>1, <3>2
  <2>6. DOMAIN pendingSince = DOMAIN pending_
    BY <1>1 DEF BaselineInv
  <2>7. \A id \in DOMAIN pending_ : pending_[id] \in Seq(Frames)
    <3> SUFFICES ASSUME NEW id \in DOMAIN pending_ PROVE pending_[id] \in Seq(Frames)
      OBVIOUS
    <3> DEFINE views == pending_[id]
    <3>1. views \in Seq(Nat) /\ \A i \in DOMAIN views : views[i] <= frame_
      BY <1>1 DEF BaselineInv, Baseline
    <3> HIDE DEF views
    <3>2. \A i \in DOMAIN views : views[i] \in Frames
      BY <3>1, <2>4
    <3>3. views \in Seq(Frames)
      BY <3>1, <3>2
    <3> QED
      BY <3>3 DEF views
  <2>8. window_ \in Seq([frame : Frames, ids : SUBSET Ids])
    <3>1. window_ \in Seq(Range(window_)) /\ \A i \in DOMAIN window_ : window_[i] \in Range(window_)
      BY <1>1 DEF WindowInv, Range
    <3>2. \A kf \in Range(window_) : kf \in [frame : Frames, ids : SUBSET Ids]
      <4> SUFFICES ASSUME NEW kf \in Range(window_)
                   PROVE  kf \in [frame : Frames, ids : SUBSET Ids]
        OBVIOUS
      <4>1. kf = [frame |-> kf.frame, ids |-> kf.ids] /\ kf.frame \in Nat /\ kf.frame <= frame_
        BY <1>1 DEF WindowInv
      <4>2. kf.frame \in Frames /\ kf.ids \in SUBSET Ids
        BY <4>1, <2>4, <1>1 DEF RangeInv
      <4> QED
        BY <4>1, <4>2
    <3> DEFINE R == Range(window_)
               K == [frame : Frames, ids : SUBSET Ids]
    <3>3. \A i \in DOMAIN window_ : window_[i] \in K
      BY <3>1, <3>2
    <3> HIDE DEF R, K
    <3>4. window_ \in Seq(R)
      BY <3>1 DEF R
    <3>5. window_ \in Seq(K)
      BY <3>3, <3>4
    <3> QED
      BY <3>5 DEF K
  <2> QED
    BY <2>1, <2>2, <2>5, <2>6, <2>7, <2>8, <2>9, <2>10, Zenon DEF TypeOK
<1> QED
  BY <1>1, TrackerAlways, AllThree, RangeAlways, PTL

===============================================================================
