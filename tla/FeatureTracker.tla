---------------------------- MODULE FeatureTracker ----------------------------
(***************************************************************************)
(* glassvio::FeatureTracker (include/glassvio/feature_tracker.hpp): which    *)
(* track ids an image hands on.  A track that KLT, the border or a merge      *)
(* costs is gone for good; a detection gets an id that was never used.  Where *)
(* a track is in the image is left out, and so which tracks are lost is free. *)
(***************************************************************************)
EXTENDS Naturals, Sequences

CONSTANTS
  MaxFeatures,     \* cap()
  MinFeatures,     \* the floor below which corners are detected again
  MaxIds           \* bound: ids handed out

ASSUME TrackerAssumption ==
  /\ MaxFeatures \in Nat \ {0} /\ MinFeatures \in Nat /\ MaxIds \in Nat

Ids == 0 .. MaxIds - 1

VARIABLES
  ids_, next_id_,
  flowing,         \* prev_gray_ holds an image
  used             \* every id handed out so far, for the properties

tracker == <<ids_, next_id_, flowing, used>>

TrackerInit == ids_ = <<>> /\ next_id_ = 0 /\ flowing = FALSE /\ used = {}

\* Seeded fault: the free ids start over with the tracks.
NumberedAgain == 0

NextAfterReset == next_id_

\* reset: a new image timeline; next_id_ goes on, since ids are still in flight.
ResetTracker ==
  /\ ids_' = <<>> /\ next_id_' = NextAfterReset /\ flowing' = FALSE
  /\ UNCHANGED used

\* Seeded fault: the strongest corners come first.
DetectedFirst(tracked, n) == [i \in 1 .. n |-> next_id_ + i - 1] \o tracked

Detected(tracked, n) == tracked \o [i \in 1 .. n |-> next_id_ + i - 1]

\* detectInto appends up to the limit; how many corners there are is the image's affair.
DetectInto(tracked) ==
  \E n \in 0 .. MaxFeatures - Len(tracked) :
    /\ next_id_ + n <= MaxIds
    /\ ids_' = Detected(tracked, n)
    /\ next_id_' = next_id_ + n

\* Nothing to flow: the first image after a start or a reset, or no track left.
ColdStart ==
  /\ ~flowing \/ ids_ = <<>>
  /\ DetectInto(ids_)
  /\ flowing' = TRUE

\* The places of n tracks, in their order.
Places(n) ==
  {at \in [1 .. n -> DOMAIN ids_] : \A i, j \in 1 .. n : i < j => at[i] < at[j]}

\* flow and mergeDuplicates keep some of the tracks, in their order.
Flow ==
  /\ flowing /\ ids_ # <<>>
  /\ \E n \in 0 .. Len(ids_) : \E at \in Places(n) :
       LET tracked == [i \in 1 .. n |-> ids_[at[i]]]
       IN  IF n < MinFeatures
           THEN DetectInto(tracked)
           ELSE ids_' = tracked /\ UNCHANGED next_id_
  /\ UNCHANGED flowing

TrackImage ==
  /\ ColdStart \/ Flow
  /\ used' = used \cup {ids_'[i] : i \in DOMAIN ids_'}

===============================================================================
