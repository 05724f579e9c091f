------------------------------ MODULE MeasureSync ------------------------------
(***************************************************************************)
(* The buffers of glassvio::MeasureSync (include/glassvio/sync.hpp) as      *)
(* operators over two sequences: `imu`, the retained IMU samples, and       *)
(* `frames`, the tracked frames not yet released.  MeasureQueue owns the    *)
(* only instance and calls these under its mutex.                           *)
(*                                                                          *)
(* A message is its stamp `t`, in ticks, together with the timeline `tl` of *)
(* the bag it was recorded on.  The timeline is never read by these         *)
(* operators: it is there for properties to tell two replays apart.  What   *)
(* the tracker found in a frame travels with it untouched and is left out.  *)
(*                                                                          *)
(* t_prev_ is written and never read by the class; it is left out.          *)
(***************************************************************************)
EXTENDS Naturals, Sequences, SequencesExt

CONSTANTS
  MaxImuBuffer,  \* kMaxImuBuffer: how many samples are retained at most
  Stamps,        \* the instants a message can carry
  Timelines      \* the replays a message can belong to

ASSUME SyncAssumption ==
  /\ MaxImuBuffer \in Nat \ {0}
  /\ Stamps \subseteq Nat
  /\ Timelines \subseteq Nat

Message == [t : Stamps, tl : Timelines]

\* MeasureGroup: a frame and the samples that lead up to it.
Group == [frame : Message, imu : Seq(Message)]

-------------------------------------------------------------------------------
(***************************************************************************)
(* pushImu: the leak guard evicts the oldest sample, one per push.          *)
(***************************************************************************)
Overflows(imu) == Len(imu) >= MaxImuBuffer

BufferImu(imu, m) ==
  IF Overflows(imu) THEN Tail(Append(imu, m)) ELSE Append(imu, m)

\* Seeded fault: a frame whose stamp is exactly the newest sample's keeps waiting.
ReleasableLate(imu, frames) ==
  /\ frames # <<>>
  /\ imu # <<>>
  /\ Last(imu).t > Head(frames).t

\* The release rule: the oldest frame waits until the IMU has crossed its stamp.
Releasable(imu, frames) ==
  /\ frames # <<>>
  /\ imu # <<>>
  /\ Last(imu).t >= Head(frames).t

\* The samples next() copies out: all those retained, up to and including the
\* first one at or past the frame.
Interval(imu, t) ==
  SubSeq(imu, 1, SelectInSeq(imu, LAMBDA m : m.t >= t))

\* Seeded fault: consumed samples are dropped eagerly, the left edge with them.
TrimEager(imu, t) == SelectSeq(imu, LAMBDA m : m.t > t)

\* trim(): pop while the SECOND sample is still at or before t, so that the last
\* sample at or before t stays as the left edge of the next interval.
Trim(imu, t) ==
  LET later == SelectInSubSeq(imu, 2, Len(imu), LAMBDA m : m.t > t)
  IN  IF later = 0 THEN <<Last(imu)>> ELSE SubSeq(imu, later - 1, Len(imu))

\* The group next() hands out when a frame is releasable.  The first frame of a
\* timeline has no interval before it and takes no samples.
NextGroup(imu, frames, havePrev) ==
  [frame |-> Head(frames),
   imu   |-> IF havePrev THEN Interval(imu, Head(frames).t) ELSE <<>>]

-------------------------------------------------------------------------------
(***************************************************************************)
(* The overflow branch of MeasureQueue::release(): the IMU of a dropped     *)
(* group is put in front of the IMU of the group after it.  The two share   *)
(* the bracketing sample(s), so only what is strictly later than the        *)
(* dropped group's last sample is appended.                                 *)
(***************************************************************************)
After(imu, t) ==
  LET begin == SelectInSeq(imu, LAMBDA m : m.t > t)
  IN  IF begin = 0 THEN <<>> ELSE SubSeq(imu, begin, Len(imu))

\* Seeded fault: the dropped group takes its samples with it.
Discard(dropped, next) == next

Splice(dropped, next) ==
  IF dropped.imu = <<>>
  THEN next
  ELSE [next EXCEPT !.imu = dropped.imu \o After(next.imu, Last(dropped.imu).t)]

===============================================================================
