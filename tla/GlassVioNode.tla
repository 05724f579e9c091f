----------------------------- MODULE GlassVioNode -----------------------------
(***************************************************************************)
(* glassvio::GlassVioNode (src/glassvio_node.cpp): two callbacks, each       *)
(* serialised with itself by its callback group, and the worker thread.      *)
(* state_mutex_ guards the gate that tells a stale message from a replay      *)
(* that was started over; the image callback lets go of it while it tracks,   *)
(* the worker while it estimates, and both look at the epoch again before     *)
(* they act on what they computed.                                           *)
(*                                                                          *)
(* The measurement queue is its promise, FrameStream, which MeasureQueue is  *)
(* shown to implement.  The player and the transport are the environment:    *)
(* each topic is delivered once and in order (RELIABLE QoS), the two topics   *)
(* independently, and a replay can be started over at any time.  Stamps are   *)
(* ticks, Jump of them to kRestartJumpSec, and start at 1: the code takes 0   *)
(* for "nothing seen".  Logs and the throttled gap warning are left out.      *)
(***************************************************************************)
EXTENDS Naturals, Sequences, FiniteSets

CONSTANTS
  Capacity,        \* max_queue_size
  Jump,            \* kRestartJumpSec
  RestartOnLoss,   \* restart_on_loss_
  Settled,         \* whether replays are started over only when both callbacks are
                   \* at least Jump into the current one
  Length,          \* bound: stamps of a replay
  MaxReplay,       \* bound: how often a replay is started over
  MaxTransit,      \* bound: messages of a topic between player and callback
  MaxStale,        \* bound: stale messages
  MaxUnreadable    \* bound: images in an encoding cv_bridge refuses

ASSUME NodeAssumption ==
  /\ Capacity \in Nat \ {0} /\ Jump \in Nat \ {0}
  /\ RestartOnLoss \in BOOLEAN /\ Settled \in BOOLEAN
  /\ Length \in Nat /\ MaxReplay \in Nat /\ MaxTransit \in Nat
  /\ MaxStale \in Nat /\ MaxUnreadable \in Nat

Streams == {"imu", "image"}
Other(s) == CHOOSE o \in Streams : o # s
Ticks   == 1 .. Length
Replays == 0 .. MaxReplay
Epochs  == 0 .. (2 * MaxReplay + 2)
Free    == "free"

\* What the player publishes, and what the image callback makes of it: `tl` is the
\* epoch it was tracked in, `apart` whether its tracks come from its own replay only.
Message == [t : Ticks, replay : Replays, stale : BOOLEAN]
Tracked == [t : Ticks, tl : Epochs, replay : Replays, apart : BOOLEAN]

VARIABLES
  clock, replay, stale, unreadable, channel,     \* the player and the transport
  last, waiting,                     \* the gate: *_last_t_, *_waiting_for_restart_
  tracker_reset_pending_, state_mutex_,
  pc,
  inHand,                            \* the message each callback works on
  epoch, reset_tracker,              \* imageCallback's locals
  tracker,                           \* replays tracker_'s previous image comes from
  pending, samples, from, handed, timeline, closed,   \* measurements_
  worker_epoch,
  estimator,                         \* replays estimator_ has seen since its last reset
  odom,                              \* the last pose published
  origin,                            \* replays pushed in the current epoch
  pushed,                            \* stamps last pushed in the current epoch, by topic
  lastReplay                         \* the replay `last` belongs to, by topic

player   == <<clock, replay, stale, unreadable, channel>>
gate     == <<last, waiting, lastReplay>>
locals   == <<inHand, epoch, reset_tracker>>
queue    == <<pending, samples, from, handed, timeline, closed>>
worker   == <<worker_epoch, estimator, odom>>
history  == <<origin, pushed>>
vars == <<player, gate, tracker_reset_pending_, state_mutex_, pc, locals, tracker,
          queue, worker, history>>

Queue == INSTANCE FrameStream WITH Stamps <- Ticks, Timelines <- Epochs, Message <- Tracked

Init ==
  /\ clock = 0 /\ replay = 0 /\ stale = 0 /\ unreadable = 0
  /\ channel = [s \in Streams |-> <<>>]
  /\ last = [s \in Streams |-> 0] /\ waiting = [s \in Streams |-> FALSE]
  /\ lastReplay = [s \in Streams |-> 0]
  /\ tracker_reset_pending_ = FALSE /\ state_mutex_ = Free
  /\ pc = [imu |-> "idle", image |-> "idle", worker |-> "waiting"]
  /\ inHand = [s \in Streams |-> <<>>] /\ epoch = 0 /\ reset_tracker = FALSE
  /\ tracker = {}
  /\ Queue!Init
  /\ worker_epoch = 0 /\ estimator = {} /\ odom = <<>>
  /\ origin = {} /\ pushed = [s \in Streams |-> 0]

-------------------------------------------------------------------------------
(***************************************************************************)
(* The player and the transport.                                            *)
(***************************************************************************)
Send(s, m) == channel' = [channel EXCEPT ![s] = Append(@, m)]

Publish ==
  /\ clock < Length
  /\ \A s \in Streams : Len(channel[s]) < MaxTransit
  /\ clock' = clock + 1
  /\ channel' = [s \in Streams |-> Append(channel[s],
                   [t |-> clock + 1, replay |-> replay, stale |-> FALSE])]
  /\ UNCHANGED <<replay, stale, unreadable, gate, tracker_reset_pending_, state_mutex_, pc, locals,
                 tracker, queue, worker, history>>

\* A message that was overtaken by newer ones of its own topic.
PublishStale(s) ==
  /\ stale < MaxStale /\ Len(channel[s]) < MaxTransit
  /\ stale' = stale + 1
  /\ \E t \in Ticks : /\ t < clock /\ clock < t + Jump
                      /\ Send(s, [t |-> t, replay |-> replay, stale |-> TRUE])
  /\ UNCHANGED <<clock, replay, unreadable, gate, tracker_reset_pending_, state_mutex_, pc, locals,
                 tracker, queue, worker, history>>

StartOver ==
  /\ replay < MaxReplay /\ clock > 0
  /\ Settled => \A s \in Streams : lastReplay[s] = replay /\ last[s] > Jump + MaxUnreadable
  /\ replay' = replay + 1 /\ clock' = 0
  /\ UNCHANGED <<stale, unreadable, channel, gate, tracker_reset_pending_, state_mutex_, pc, locals,
                 tracker, queue, worker, history>>

-------------------------------------------------------------------------------
(***************************************************************************)
(* acceptStamp: called with state_mutex_ held.                               *)
(***************************************************************************)
\* Seeded fault: a rewind of exactly kRestartJumpSec does not count.
RewoundLate(s, t) == t + Jump < last[s]

\* last - t >= kRestartJumpSec
Rewound(s, t) == t + Jump <= last[s]

\* Seeded fault: a small inversion passes.
NeverOutOfOrder(s, t) == FALSE

OutOfOrder(s, t) == t < last[s] /\ ~Rewound(s, t)

\* Seeded fault: a topic that has to join a new timeline takes what comes.
AcceptsWhileWaiting(s, t) == waiting[s] \/ ~OutOfOrder(s, t)

Accepts(s, t) == IF waiting[s] THEN Rewound(s, t) ELSE ~OutOfOrder(s, t)

Restarts(s, t) == ~waiting[s] /\ Rewound(s, t)

\* Seeded fault: having joined the new timeline, the topic goes on waiting.
StaysWaiting(s, t) ==
  IF Restarts(s, t) THEN [waiting EXCEPT ![Other(s)] = last[Other(s)] > 0] ELSE waiting

\* Having joined or restarted, a topic no longer waits.  On a restart the other one
\* has to join, unless nothing was ever received on it.
WaitingAfter(s, t) ==
  [waiting EXCEPT ![s] = FALSE,
                  ![Other(s)] = IF Restarts(s, t) THEN last[Other(s)] > 0 ELSE @]

\* An accepted stamp: the restart resets the queue on the spot.
Accept(s, m) ==
  /\ Accepts(s, m.t)
  /\ last' = [last EXCEPT ![s] = m.t]
  /\ lastReplay' = [lastReplay EXCEPT ![s] = m.replay]
  /\ waiting' = WaitingAfter(s, m.t)
  /\ IF Restarts(s, m.t)
     THEN Queue!Restart /\ origin' = {} /\ pushed' = [x \in Streams |-> 0]
     ELSE UNCHANGED <<queue, history>>

\* A refused one changes nothing.
Refuse(s) ==
  /\ ~Accepts(s, Head(channel[s]).t)
  /\ UNCHANGED <<gate, tracker_reset_pending_, state_mutex_, pc, locals, queue, history>>

\* Seeded fault: a restart leaves the tracker alone.
PendingForgotten(s, t) == tracker_reset_pending_

PendingAfter(s, t) == tracker_reset_pending_ \/ Restarts(s, t)

-------------------------------------------------------------------------------
(***************************************************************************)
(* The callbacks.                                                           *)
(***************************************************************************)
\* The executor takes the next message of a topic for an idle callback.
Dispatch(s) ==
  /\ ~closed /\ pc[s] = "idle" /\ channel[s] # <<>>
  /\ channel' = [channel EXCEPT ![s] = Tail(@)]
  /\ UNCHANGED <<clock, replay, stale>>

\* imuCallback keeps state_mutex_ from the gate to the end of pushImu.
ImuGate ==
  /\ Dispatch("imu") /\ state_mutex_ = Free
  /\ \/ LET m == Head(channel["imu"])
        IN  /\ Accept("imu", m)
            /\ tracker_reset_pending_' = PendingAfter("imu", m.t)
            /\ inHand' = [inHand EXCEPT !["imu"] = <<m>>]
            /\ state_mutex_' = "imu"
            /\ pc' = [pc EXCEPT !["imu"] = "push"]
            /\ UNCHANGED <<epoch, reset_tracker>>
     \/ Refuse("imu")
  /\ UNCHANGED <<unreadable, tracker, worker>>

\* Seeded fault: the lock outlives the callback.
KeepLocked == UNCHANGED state_mutex_

Unlock == state_mutex_' = Free

Push(s, m) ==
  /\ origin' = origin \cup {m.replay}
  /\ pushed' = [pushed EXCEPT ![s] = m.t]
  /\ inHand' = [inHand EXCEPT ![s] = <<>>]
  /\ pc' = [pc EXCEPT ![s] = "idle"]

ImuPush ==
  /\ pc["imu"] = "push"
  /\ LET m == inHand["imu"][1] IN Queue!Sample(m.t) /\ Push("imu", m)
  /\ Unlock
  /\ UNCHANGED <<player, gate, tracker_reset_pending_, epoch, reset_tracker, tracker, worker>>

\* imageCallback, under its first lock: gate, epoch, and the tracker's pending reset.
ImageGate ==
  /\ Dispatch("image") /\ state_mutex_ = Free
  /\ \/ LET m == Head(channel["image"])
        IN  /\ Accept("image", m)
            /\ epoch' = timeline'
            /\ reset_tracker' = PendingAfter("image", m.t)
            /\ tracker_reset_pending_' = FALSE
            /\ inHand' = [inHand EXCEPT !["image"] = <<m>>]
            /\ pc' = [pc EXCEPT !["image"] = "track"]
            /\ UNCHANGED state_mutex_
     \/ Refuse("image")
  /\ UNCHANGED <<unreadable, tracker, worker>>

\* cv_bridge refuses the encoding before anything else happens.
ImageUnreadable ==
  /\ Dispatch("image") /\ unreadable < MaxUnreadable
  /\ unreadable' = unreadable + 1
  /\ UNCHANGED <<gate, tracker_reset_pending_, state_mutex_, pc, locals, tracker, queue,
                 worker, history>>

\* What the tracker still knows when it is given the image in hand.
Remembered == IF reset_tracker THEN {} ELSE tracker

\* Without a lock: reset the tracker if asked to, and track.
Track ==
  /\ pc["image"] = "track"
  /\ LET m == inHand["image"][1]
     IN  inHand' = [inHand EXCEPT !["image"] =
           <<[t |-> m.t, tl |-> epoch, replay |-> m.replay,
              apart |-> Remembered \subseteq {m.replay}]>>]
  /\ tracker' = {inHand["image"][1].replay}
  /\ pc' = [pc EXCEPT !["image"] = "push"]
  /\ UNCHANGED <<player, gate, tracker_reset_pending_, state_mutex_, epoch, reset_tracker,
                 queue, worker, history>>

\* Under its second lock: what was tracked before a restart is not pushed after it.
ImagePush ==
  /\ pc["image"] = "push" /\ state_mutex_ = Free
  /\ IF epoch # timeline
     THEN /\ tracker_reset_pending_' = TRUE
          /\ inHand' = [inHand EXCEPT !["image"] = <<>>]
          /\ pc' = [pc EXCEPT !["image"] = "idle"]
          /\ UNCHANGED <<queue, history>>
     ELSE /\ Queue!Frame(inHand["image"][1])
          /\ Push("image", inHand["image"][1])
          /\ UNCHANGED tracker_reset_pending_
  /\ UNCHANGED <<player, gate, state_mutex_, epoch, reset_tracker, tracker, worker>>

-------------------------------------------------------------------------------
(***************************************************************************)
(* The worker: workerLoop and handleFrame.                                   *)
(***************************************************************************)
\* Seeded fault: the estimator goes on across a restart.
EstimatorKept(e) == estimator

EstimatorFor(e) == IF e # worker_epoch THEN {} ELSE estimator

\* waitPop returns a group and its epoch; estimator_->process runs without a lock.
PopAndProcess ==
  /\ pc["worker"] = "waiting"
  /\ Queue!HandOut
  /\ worker_epoch' = timeline
  /\ estimator' = EstimatorFor(timeline) \cup {Head(pending).replay}
  /\ pc' = [pc EXCEPT !["worker"] = "handling"]
  /\ UNCHANGED <<player, gate, tracker_reset_pending_, state_mutex_, locals, tracker,
                 odom, history>>

\* Seeded fault: the epoch is not looked at again.
NeverOutdated == FALSE

\* if (epoch != measurements_->epoch()) {return;}
Outdated == worker_epoch # timeline

\* The estimator's verdict is arbitrary here; poses come from Bootstrapped and
\* Tracking alone, and not from all of them.
Handle ==
  /\ pc["worker"] = "handling" /\ state_mutex_ = Free
  /\ LET pose == [replay |-> handed[1].frame.replay, t |-> handed[1].frame.t]
     IN  \/ UNCHANGED <<estimator, odom>>                     \* outdated, collecting, untrusted
         \/ ~Outdated /\ odom' = <<pose>> /\ UNCHANGED estimator
         \/ ~Outdated /\ RestartOnLoss /\ estimator' = {} /\ UNCHANGED odom
  /\ Queue!Finish
  /\ pc' = [pc EXCEPT !["worker"] = "waiting"]
  /\ UNCHANGED <<player, gate, tracker_reset_pending_, state_mutex_, locals, tracker,
                 worker_epoch, history>>

\* A frame leaves the queue on its own account when the worker is behind.
QueueDrops ==
  /\ Queue!DropOldest
  /\ UNCHANGED <<player, gate, tracker_reset_pending_, state_mutex_, pc, locals, tracker,
                 worker, history>>

\* spin() has returned, so no callback is running; the destructor calls stop().
Shutdown ==
  /\ pc["imu"] = "idle" /\ pc["image"] = "idle" /\ ~closed
  /\ Queue!Close
  /\ UNCHANGED <<player, gate, tracker_reset_pending_, state_mutex_, pc, locals, tracker,
                 worker, history>>

\* Seeded fault: the worker waits for frames whose samples will never come.
NothingPending == pending = <<>>

\* waitPop has drained what was complete.
Drained == ~Queue!Ready

WorkerReturns ==
  /\ pc["worker"] = "waiting" /\ closed /\ Drained
  /\ pc' = [pc EXCEPT !["worker"] = "done"]
  /\ UNCHANGED <<player, gate, tracker_reset_pending_, state_mutex_, locals, tracker,
                 queue, worker, history>>

Joined == pc["worker"] = "done" /\ UNCHANGED vars

-------------------------------------------------------------------------------
Callback == ImuGate \/ ImuPush \/ ImageGate \/ Track \/ ImagePush
Work     == PopAndProcess \/ Handle \/ WorkerReturns

Next ==
  \/ Publish \/ StartOver \/ \E s \in Streams : PublishStale(s)
  \/ Callback \/ ImageUnreadable
  \/ Work \/ QueueDrops
  \/ Shutdown \/ Joined

\* The executor's threads and the worker run; a thread that wants state_mutex_ gets
\* it in the end, however often the others take it first.
Fairness ==
  /\ SF_vars(ImuGate) /\ WF_vars(ImuPush)
  /\ SF_vars(ImageGate) /\ WF_vars(Track) /\ SF_vars(ImagePush)
  /\ SF_vars(Work)

Safety == Init /\ [][Next]_vars
Spec   == Safety /\ Fairness

-------------------------------------------------------------------------------
(***************************************************************************)
(* Properties.                                                              *)
(***************************************************************************)
\* The range of every variable.  state_mutex_ is held across a step by imuCallback
\* alone, and exactly from its gate to the end of its push.
TypeOK ==
  /\ channel \in [Streams -> Seq(Message)]
  /\ last \in [Streams -> Ticks \cup {0}] /\ waiting \in [Streams -> BOOLEAN]
  /\ lastReplay \in [Streams -> Replays]
  /\ tracker_reset_pending_ \in BOOLEAN /\ reset_tracker \in BOOLEAN
  /\ state_mutex_ \in {Free, "imu"}
  /\ state_mutex_ = "imu" <=> pc["imu"] = "push"
  /\ pc["imu"] \in {"idle", "push"} /\ pc["image"] \in {"idle", "track", "push"}
  /\ pc["worker"] \in {"waiting", "handling", "done"}
  /\ pc["worker"] = "handling" <=> handed # <<>>
  /\ \A s \in Streams : inHand[s] = <<>> <=> pc[s] = "idle"
  /\ epoch \in Epochs /\ timeline \in Epochs /\ worker_epoch \in Epochs
  /\ tracker \subseteq Replays /\ estimator \subseteq Replays /\ origin \subseteq Replays
  /\ pending \in Seq(Tracked) /\ samples \subseteq Ticks
  /\ pushed \in [Streams -> Ticks \cup {0}]

\* No epoch mixes two replays: what the topic that has not restarted yet still
\* delivers of the old replay is kept out of the new one.
TimelinesApart == Cardinality(origin) <= 1

\* The queue relies on each topic's stamps not going back within an epoch.
QueueFedInOrder == [][timeline' = timeline => \A s \in Streams : pushed'[s] >= pushed[s]]_vars

\* "smaller inversions are stale messages and must not disturb the estimator or KLT",
\* and neither does a restart: no frame is queued or estimated whose tracks were
\* followed from an image of another replay.
TracksApart ==
  /\ \A i \in DOMAIN pending : pending[i].apart
  /\ \A i \in DOMAIN handed : handed[i].frame.apart

\* A state estimated on one replay never meets a measurement of another.
EstimatorApart == Cardinality(estimator) <= 1

\* "A restart happened while the estimator was processing this frame": a pose is
\* published only while its replay is the one being received, so that the published
\* poses never go back to an earlier replay, or back in time within one.
PosesInOrder ==
  [][odom' # odom =>
       /\ origin \subseteq {odom'[1].replay}
       /\ odom # <<>> => \/ odom[1].replay < odom'[1].replay
                         \/ /\ odom[1].replay = odom'[1].replay
                            /\ odom[1].t < odom'[1].t]_vars

\* "neither stream may be lossy": a message of the replay being received, unless it was
\* overtaken, is not thrown away at the gate.
NeitherStreamLossy ==
  \A s \in Streams :
    LET next == Head(channel[s])
    IN  (channel[s] # <<>> /\ origin = {next.replay} /\ ~next.stale) => Accepts(s, next.t)

\* Once a message of a new replay is under way, the node gets to receiving that replay.
RestartNoticed ==
  \A r \in Replays :
    (\E s \in Streams : \E i \in DOMAIN channel[s] : channel[s][i].replay = r)
      ~> (origin = {r} \/ replay > r \/ closed)

\* The destructor returns: the worker comes out of its loop.
NodeTerminates == closed ~> pc["worker"] = "done"

===============================================================================
