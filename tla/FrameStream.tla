------------------------------ MODULE FrameStream ------------------------------
(***************************************************************************)
(* What MeasureQueue promises the estimator, without mutex, synchroniser or  *)
(* buffers: frames in the order they were taken, each with every IMU sample  *)
(* since the frame handed out before it.  Under pressure the stream forgets  *)
(* its OLDEST frame, never a sample: `from` stays behind, so that the next   *)
(* hand-out reaches back over the gap.                                       *)
(***************************************************************************)
EXTENDS Naturals, Sequences, FiniteSets

CONSTANTS
  Capacity,   \* how many frames with complete IMU may wait before one is dropped
  Stamps,
  Timelines,
  Message     \* frames, with a stamp t and a timeline tl

VARIABLES
  pending,   \* frames accepted, neither handed out nor dropped
  samples,   \* stamps of the IMU samples of this timeline
  from,      \* where the next interval starts: <<stamp>>, or <<>> at the origin
  handed,    \* what the estimator is working on: <<[frame, imu]>> or <<>>
  timeline,
  closed

vars == <<pending, samples, from, handed, timeline, closed>>

Init ==
  /\ pending = <<>> /\ samples = {} /\ from = <<>> /\ handed = <<>>
  /\ timeline = 0 /\ closed = FALSE

\* The samples preintegration over [a, b] needs: a bracket on either side and all
\* that is in between.
Between(a, b) ==
  {s \in samples : \A r \in samples : (s < r => a < r) /\ (r < s => r < b)}

Covered(frame) == \E s \in samples : s >= frame.t

Sample(t) ==
  /\ ~closed
  /\ samples' = samples \cup {t}
  /\ UNCHANGED <<pending, from, handed, timeline, closed>>

Frame(f) ==
  /\ ~closed /\ f.tl = timeline
  /\ pending' = Append(pending, f)
  /\ UNCHANGED <<samples, from, handed, timeline, closed>>

HandOut ==
  /\ handed = <<>> /\ pending # <<>>
  /\ LET frame == Head(pending)
     IN  /\ Covered(frame)
         /\ handed' = <<[frame |-> frame,
                         imu   |-> IF from = <<>> THEN {} ELSE Between(from[1], frame.t)]>>
         /\ from' = <<frame.t>>
  /\ pending' = Tail(pending)
  /\ UNCHANGED <<samples, timeline, closed>>

\* The estimator is behind: more complete frames are waiting than there is room for.
DropOldest ==
  /\ Cardinality({i \in DOMAIN pending : Covered(pending[i])}) > Capacity
  /\ from' = IF from = <<>> THEN <<Head(pending).t>> ELSE from
  /\ pending' = Tail(pending)
  /\ UNCHANGED <<samples, handed, timeline, closed>>

Finish ==
  /\ handed # <<>> /\ handed' = <<>>
  /\ UNCHANGED <<pending, samples, from, timeline, closed>>

\* A new replay of the bag: what was waiting is worthless; what was handed out is not
\* taken back.
Restart ==
  /\ timeline' = timeline + 1
  /\ pending' = <<>> /\ samples' = {} /\ from' = <<>>
  /\ UNCHANGED <<handed, closed>>

Close ==
  /\ closed' = TRUE
  /\ UNCHANGED <<pending, samples, from, handed, timeline>>

Next ==
  \/ \E t \in Stamps : Sample(t)
  \/ \E f \in Message : Frame(f)
  \/ HandOut \/ DropOldest \/ Finish \/ Restart \/ Close

Spec == Init /\ [][Next]_vars

Ready == pending # <<>> /\ Covered(Head(pending))

\* A complete frame is handed out, dropped or swept away by a restart; it does not
\* wait for ever while the estimator is idle.
Served == (Ready /\ handed = <<>>) ~> (handed # <<>> \/ ~Ready)

===============================================================================
