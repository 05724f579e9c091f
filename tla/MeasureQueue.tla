----------------------------- MODULE MeasureQueue -----------------------------
(***************************************************************************)
(* glassvio::MeasureQueue (include/glassvio/measure_queue.hpp): the single   *)
(* hand-off between the two callback threads, which push IMU samples and     *)
(* tracked frames, and the worker that runs the estimator.                   *)
(*                                                                          *)
(* One mutex guards the synchroniser, the queue, the stop flag and the       *)
(* epoch.  It is explicit here (`mutex_` holds its owner), and a push is     *)
(* several steps long: take the mutex and buffer the message, then go round  *)
(* the loop of release() one group at a time -- sync_.next() into a local,   *)
(* then push_back, overflow, notify -- until no frame is releasable.  The    *)
(* short critical sections (reset, stop, waitPop) are one step each, enabled *)
(* while the mutex is free.  The condition variable keeps one bit, whether   *)
(* the worker is asleep on it.                                               *)
(*                                                                          *)
(* Any thread may push, reset or stop at any time: the class promises more   *)
(* than its one client, GlassVioNode, needs.                                 *)
(***************************************************************************)
EXTENDS MeasureSync

CONSTANTS
  Capacity,   \* capacity_, the max_queue_size parameter
  MaxSamples, \* bound: IMU samples pushed per timeline
  MaxFrames,  \* bound: frames pushed per timeline
  MaxEpoch    \* bound: resets

ASSUME QueueAssumption ==
  /\ Capacity \in Nat \ {0}      \* the constructor throws otherwise
  /\ MaxSamples \in Nat
  /\ MaxFrames \in Nat
  /\ MaxEpoch \in Nat
  /\ Timelines = 0 .. MaxEpoch

Producers == {"imu", "image"}
Threads   == Producers \cup {"worker"}
Free      == "free"

VARIABLES
  imu_, frames_, havePrev_,        \* sync_
  queue_, stopped_, epoch_,
  mutex_,
  pc,        \* where each thread is
  group,     \* release()'s local: at most one group between next() and push_back
  out,       \* what the worker's last waitPop filled in: at most one group
  outEpoch,  \* ... and the epoch it returned with it
  \* History of the current timeline, for the properties.
  received,  \* the stamps of the samples pushed
  accepted,  \* how many frames were pushed
  newest,    \* the stamp of the last frame pushed
  taken,     \* how many groups the worker popped
  dropped,   \* the sum of what the pushes returned
  evicted,   \* whether the leak guard ever discarded a sample
  anchor,    \* stamp of the last frame popped; before any, of the first dropped
  outFrom    \* the anchor at the time `out` was popped

syncVars == <<imu_, frames_, havePrev_>>
outVars  == <<out, outEpoch, outFrom>>
history  == <<received, accepted, newest, taken, dropped, evicted, anchor>>
vars == <<syncVars, queue_, stopped_, epoch_, mutex_, pc, group, outVars, history>>

Init ==
  /\ imu_ = <<>> /\ frames_ = <<>> /\ havePrev_ = FALSE
  /\ queue_ = <<>> /\ stopped_ = FALSE /\ epoch_ = 0
  /\ mutex_ = Free
  /\ pc = [th \in Threads |-> IF th = "worker" THEN "calling" ELSE "idle"]
  /\ group = [p \in Producers |-> <<>>]
  /\ out = <<>> /\ outEpoch = 0 /\ outFrom = <<>>
  /\ received = <<>> /\ accepted = 0 /\ newest = 0 /\ taken = 0 /\ dropped = 0
  /\ evicted = FALSE /\ anchor = <<>>

-------------------------------------------------------------------------------
Goto(th, label) == pc' = [pc EXCEPT ![th] = label]

\* Seeded fault: every push holds a lock, but not the same one.
LockOwn(p) == mutex_' = p

\* std::lock_guard<std::mutex> lock(mutex_)
Lock(p) == mutex_ = Free /\ mutex_' = p

\* Seeded fault: pushes are not refused after stop().
AcceptAlways == TRUE

\* if (stopped_) {return 0;} -- a push after stop() changes nothing.
Accepting == ~stopped_

\* pushImu up to the call of release().  The callers hand over each stream in
\* stamp order within a timeline (GlassVioNode::acceptStamp).
PushImu(t) ==
  /\ pc["imu"] = "idle" /\ Lock("imu") /\ Accepting
  /\ Len(received) < MaxSamples
  /\ \A i \in DOMAIN received : received[i] <= t
  /\ imu_' = BufferImu(imu_, [t |-> t, tl |-> epoch_])
  /\ Goto("imu", "next")
  /\ received' = Append(received, t)
  /\ evicted' = (evicted \/ Overflows(imu_))
  /\ UNCHANGED <<frames_, havePrev_, queue_, stopped_, epoch_, group, outVars,
                 accepted, newest, taken, dropped, anchor>>

\* pushFrame up to the call of release().
PushFrame(t) ==
  /\ pc["image"] = "idle" /\ Lock("image") /\ Accepting
  /\ accepted < MaxFrames
  /\ newest <= t
  /\ frames_' = Append(frames_, [t |-> t, tl |-> epoch_])
  /\ Goto("image", "next")
  /\ accepted' = accepted + 1 /\ newest' = t
  /\ UNCHANGED <<imu_, havePrev_, queue_, stopped_, epoch_, group, outVars,
                 received, taken, dropped, evicted, anchor>>

\* while (sync_.next(group)): a frame is covered, so it leaves the synchroniser.
SyncNext(p) ==
  /\ pc[p] = "next"
  /\ Releasable(imu_, frames_)
  /\ group' = [group EXCEPT ![p] = <<NextGroup(imu_, frames_, havePrev_)>>]
  /\ frames_' = Tail(frames_)
  /\ imu_' = Trim(imu_, Head(frames_).t)
  /\ havePrev_' = TRUE
  /\ Goto(p, "enqueue")
  /\ UNCHANGED <<queue_, stopped_, epoch_, mutex_, outVars, history>>

\* Seeded fault: `if` where release() has `while`.
ReleaseOnce(p) ==
  /\ pc[p] = "next"
  /\ mutex_' = Free
  /\ Goto(p, "idle")
  /\ UNCHANGED <<syncVars, queue_, stopped_, epoch_, group, outVars, history>>

\* No frame is covered: release() returns and the lock_guard goes out of scope.
ReleaseReturns(p) ==
  /\ pc[p] = "next"
  /\ ~Releasable(imu_, frames_)
  /\ mutex_' = Free
  /\ Goto(p, "idle")
  /\ UNCHANGED <<syncVars, queue_, stopped_, epoch_, group, outVars, history>>

\* Seeded fault: the group is queued and nobody is told.
Unnoticed(label) == label

\* What notify_one() does to the worker: there is only one to wake.
Woken(label) == IF label = "asleep" THEN "calling" ELSE label

\* Seeded fault: one group too many.
FullLate(q) == Len(q) > Capacity + 1

\* if (queue_.size() > capacity_)
Full(q) == Len(q) > Capacity

\* Seeded fault: everything but the newest group is dropped, and counted as one.
DropToNewest(q) == <<Splice(q[1], q[Len(q)])>>

\* Past capacity the oldest group is dropped and its samples kept.
DropOldest(q) == <<Splice(q[1], q[2])>> \o SubSeq(q, 3, Len(q))

\* Seeded fault: the local still holds the group after it was queued.
StillHeld(p) == group

\* queue_.push_back(std::move(group))
MovedFrom(p) == [group EXCEPT ![p] = <<>>]

\* The body of the loop: push_back, overflow, notify_one.
Enqueue(p) ==
  LET pushed == queue_ \o group[p]
      full   == Full(pushed)
  IN  /\ pc[p] = "enqueue"
      /\ queue_' = IF full THEN DropOldest(pushed) ELSE pushed
      /\ dropped' = IF full THEN dropped + 1 ELSE dropped
      /\ anchor' = IF full /\ anchor = <<>> THEN <<pushed[1].frame.t>> ELSE anchor
      /\ group' = MovedFrom(p)
      /\ pc' = [pc EXCEPT ![p] = "next", !["worker"] = Woken(@)]
      /\ UNCHANGED <<syncVars, stopped_, epoch_, mutex_, outVars,
                     received, accepted, newest, taken, evicted>>

\* Seeded fault: the frames go, the samples of the old timeline stay.
ClearFrames == imu_' = imu_ /\ frames_' = <<>> /\ havePrev_' = FALSE

\* MeasureSync::clear()
Clear == imu_' = <<>> /\ frames_' = <<>> /\ havePrev_' = FALSE

\* reset(): everything from the previous timeline goes.
Reset(p) ==
  /\ pc[p] = "idle" /\ mutex_ = Free
  /\ epoch_ < MaxEpoch
  /\ Clear
  /\ queue_' = <<>>
  /\ epoch_' = epoch_ + 1
  /\ received' = <<>> /\ accepted' = 0 /\ newest' = 0 /\ taken' = 0 /\ dropped' = 0
  /\ evicted' = FALSE /\ anchor' = <<>>
  /\ UNCHANGED <<stopped_, mutex_, pc, group, outVars>>

\* Seeded fault: stop() sets the flag and wakes nobody.
NotifyNobody == UNCHANGED pc

\* ready_.notify_all()
NotifyAll == pc' = [pc EXCEPT !["worker"] = Woken(@)]

Stop ==
  /\ mutex_ = Free /\ ~stopped_
  /\ stopped_' = TRUE
  /\ NotifyAll
  /\ UNCHANGED <<syncVars, queue_, epoch_, mutex_, group, outVars, history>>

-------------------------------------------------------------------------------
(***************************************************************************)
(* The worker: waitPop, and the estimator between two calls of it.           *)
(***************************************************************************)
Calling == pc["worker"] = "calling" /\ mutex_ = Free

\* ready_.wait: the predicate is false, so release the mutex and sleep.
Sleep ==
  /\ Calling /\ ~stopped_ /\ queue_ = <<>>
  /\ Goto("worker", "asleep")
  /\ UNCHANGED <<syncVars, queue_, stopped_, epoch_, mutex_, group, outVars, history>>

\* A condition variable may wake its waiter for no reason.
SpuriousWake ==
  /\ pc["worker"] = "asleep"
  /\ Goto("worker", "calling")
  /\ UNCHANGED <<syncVars, queue_, stopped_, epoch_, mutex_, group, outVars, history>>

Pop ==
  /\ Calling /\ queue_ # <<>>
  /\ out' = <<Head(queue_)>>
  /\ queue_' = Tail(queue_)
  /\ outEpoch' = epoch_
  /\ outFrom' = anchor
  /\ Goto("worker", "processing")
  /\ taken' = taken + 1
  /\ anchor' = <<Head(queue_).frame.t>>
  /\ UNCHANGED <<syncVars, stopped_, epoch_, mutex_, group,
                 received, accepted, newest, dropped, evicted>>

\* waitPop returns false and the worker's loop ends.
ReturnFalse ==
  /\ Calling /\ stopped_ /\ queue_ = <<>>
  /\ Goto("worker", "done")
  /\ UNCHANGED <<syncVars, queue_, stopped_, epoch_, mutex_, group, outVars, history>>

\* The estimator is done with `out`, which nothing reads again before the next
\* pop overwrites it, and the loop calls waitPop again.
Processed ==
  /\ pc["worker"] = "processing"
  /\ Goto("worker", "calling")
  /\ out' = <<>> /\ outFrom' = <<>>
  /\ UNCHANGED <<syncVars, queue_, stopped_, epoch_, mutex_, group, outEpoch, history>>

\* The worker was joined, and nothing can be pushed any more.
Terminated ==
  /\ stopped_ /\ pc["worker"] = "done"
  /\ UNCHANGED vars

-------------------------------------------------------------------------------
Produce(p) == SyncNext(p) \/ ReleaseReturns(p) \/ Enqueue(p)
Work       == Sleep \/ Pop \/ ReturnFalse \/ Processed

Next ==
  \/ \E t \in Stamps : PushImu(t) \/ PushFrame(t)
  \/ \E p \in Producers : Produce(p) \/ Reset(p)
  \/ Stop
  \/ Work
  \/ SpuriousWake
  \/ Terminated

\* A thread inside release() keeps running.  The worker's every attempt on the
\* mutex competes with the producers', so it needs strong fairness: a mutex a
\* producer never lets it have would starve it.  Nobody has to push, reset or
\* stop, and a spurious wake-up is never owed.
Fairness ==
  /\ \A p \in Producers : WF_vars(Produce(p))
  /\ SF_vars(Work)

Safety == Init /\ [][Next]_vars
Spec   == Safety /\ Fairness

-------------------------------------------------------------------------------
(***************************************************************************)
(* Properties.                                                              *)
(***************************************************************************)
AtMostOne(S) == {s \in Seq(S) : Len(s) <= 1}

\* The range of every variable.  A thread holds a group exactly between next()
\* and push_back, and the mutex exactly while it is inside release().
TypeOK ==
  /\ imu_ \in Seq(Message) /\ frames_ \in Seq(Message) /\ havePrev_ \in BOOLEAN
  /\ queue_ \in Seq(Group) /\ stopped_ \in BOOLEAN /\ epoch_ \in Timelines
  /\ mutex_ \in Producers \cup {Free}
  /\ pc \in [Threads ->
               {"idle", "next", "enqueue", "calling", "asleep", "processing", "done"}]
  /\ pc["worker"] \in {"calling", "asleep", "processing", "done"}
  /\ \A p \in Producers : pc[p] \in {"idle", "next", "enqueue"}
  /\ group \in [Producers -> AtMostOne(Group)]
  /\ \A p \in Producers : group[p] # <<>> <=> pc[p] = "enqueue"
  /\ out \in AtMostOne(Group) /\ outEpoch \in Timelines
  /\ outFrom \in AtMostOne(Stamps)
  /\ received \in Seq(Stamps) /\ accepted \in Nat /\ newest \in Nat
  /\ taken \in Nat /\ dropped \in Nat /\ evicted \in BOOLEAN
  /\ anchor \in AtMostOne(Stamps)

\* The mutex belongs to the thread inside release(), and to nobody else.
MutualExclusion ==
  \A p \in Producers : pc[p] # "idle" <=> mutex_ = p

\* release() drops before it returns to its loop, so the queue never holds more
\* than max_queue_size groups: the latency the worker can build up is bounded.
QueueBounded == Len(queue_) <= Capacity

Stamp(m)   == m.t
FrameOf(g) == g.frame
StampsOf(messages) == [i \in DOMAIN messages |-> Stamp(messages[i])]
FramesOf(groups)   == [i \in DOMAIN groups |-> FrameOf(groups[i])]

\* Every frame pushed in this timeline and not yet handed to the worker or
\* dropped, in the order in which the worker will see them.
Backlog ==
  FramesOf(queue_) \o FramesOf(group["imu"]) \o FramesOf(group["image"]) \o frames_

\* "One mutex covers release AND enqueue; separate locks allow producers to swap
\* frames": the worker is handed frames in the order the camera took them.
FramesInOrder == IsSorted(anchor \o StampsOf(Backlog), <=)

\* The samples of this timeline that preintegration over [from, to] needs: those
\* in between, the last one at or before `from`, the first one at or after `to`.
Span(from, to) ==
  {s \in ToSet(received) : \A r \in ToSet(received) : (s < r => from < r) /\ (r < s => r < to)}

\* "Dropping observations must not punch a hole in the IMU chain": whatever was
\* dropped in between, a group reaches from the frame the worker had before it up
\* to its own frame without a missing, repeated-out-of-order or surplus sample.
\* The first group of a timeline has no interval.  The leak guard of MeasureSync
\* is outside the promise: a sample it discarded is gone.
ImuComplete ==
  (out # <<>> /\ outEpoch = epoch_ /\ ~evicted) =>
    LET g         == out[1]
        handedImu == StampsOf(g.imu)
    IN  /\ \E s \in ToSet(received) : s >= g.frame.t
        /\ IsSorted(handedImu, <=)
        /\ ToSet(handedImu) = IF outFrom = <<>> THEN {} ELSE Span(outFrom[1], g.frame.t)

\* release() loops until nothing is ready: a frame whose IMU has arrived is never
\* left in the synchroniser to wait for another message.
NothingReadyIsHeld == mutex_ = Free => ~Releasable(imu_, frames_)

\* What the pushes report as dropped is exactly what is missing: every frame is
\* waiting for its IMU, being released, queued, handed to the worker or counted.
FramesConserved ==
  accepted = Len(frames_) + Len(group["imu"]) + Len(group["image"])
               + Len(queue_) + taken + dropped

OfTimeline(messages, tl) == \A i \in DOMAIN messages : messages[i].tl = tl
GroupOf(g, tl) == g.frame.tl = tl /\ OfTimeline(g.imu, tl)

\* "Discard all observations from the previous bag timeline": after a reset
\* nothing of it is left, not even in a release() that another thread had begun,
\* and the epoch waitPop returns is that of the group it returns.
TimelinePure ==
  /\ OfTimeline(imu_, epoch_) /\ OfTimeline(frames_, epoch_)
  /\ \A i \in DOMAIN queue_ : GroupOf(queue_[i], epoch_)
  /\ \A p \in Producers : \A i \in DOMAIN group[p] : GroupOf(group[p][i], epoch_)
  /\ \A i \in DOMAIN out : GroupOf(out[i], outEpoch)

\* "Return false once shutdown has drained the queue": when the worker's loop has
\* ended nothing released is left behind, and nothing can be released any more.
ShutdownDrained ==
  pc["worker"] = "done" =>
    /\ stopped_ /\ queue_ = <<>>
    /\ \A p \in Producers : pc[p] = "idle"

\* "Samples covering [previous frame, this frame]... The first is at or before the
\* previous frame's stamp" (include/glassvio/types.hpp).
LeftBracketed ==
  \A i \in DOMAIN out :
    (outFrom # <<>> /\ out[i].imu # <<>>) => out[i].imu[1].t <= outFrom[1]

\* The destructor joins the worker after stop(): the worker's loop must end.
ShutdownTerminates == stopped_ ~> pc["worker"] = "done"

\* No lost wake-up: the worker comes for a queued group.
NoGroupStranded == (queue_ # <<>>) ~> (queue_ = <<>> \/ pc["worker"] = "processing")

\* MeasureQueue implements a stream that drops its oldest frame under pressure and
\* never a sample.
Stream == INSTANCE FrameStream
  WITH pending  <- Backlog,
       samples  <- ToSet(received),
       from     <- anchor,
       handed   <- [i \in DOMAIN out |-> [frame |-> out[i].frame,
                                          imu   |-> {m.t : m \in ToSet(out[i].imu)}]],
       timeline <- epoch_,
       closed   <- stopped_

ImplementsStream == Stream!Spec
StreamServed     == Stream!Served

===============================================================================
