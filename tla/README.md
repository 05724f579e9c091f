# Verification of glass-vio

TLA+ modules, TLC configurations and TLAPS proofs for glass-vio, a monocular
visual-inertial odometry node: two ROS callbacks feed a queue, a worker thread runs an
estimator on it. Most of the code is floating point linear algebra, which is left
free here ("the solve succeeds or it does not"). What is modelled is everything the code
*decides* from those verdicts and everything its threads do to each other: who may touch
what, what is kept, what is thrown away, and what a restart, a loss, a hole or an overflow
leaves behind; and, inside the bootstrap, which frames, tracks and samples reach each solve
and in which units its result is.

Paths below are relative to the repository. `tlc -config X.cfg M` runs a configuration,
`tlapm M.tla` checks the proofs of a module.

## 1. Inventory

| Part | Source | State | Operations | Talks to |
|---|---|---|---|---|
| MeasureSync | `include/glassvio/sync.hpp` | buffered IMU samples, waiting frames, whether there was a frame before | pushImu, pushFrame, next, trim, clear | owned by MeasureQueue, always under its mutex |
| MeasureQueue | `include/glassvio/measure_queue.hpp` | queue of groups, stop flag, epoch, mutex, condition variable | pushImu, pushFrame, release, waitPop, reset, stop | two callbacks push, the worker pops |
| GlassVioNode | `src/glassvio_node.cpp` | last stamps, waiting flags, pending tracker reset, `state_mutex_` | imuCallback, imageCallback, acceptStamp, workerLoop, handleFrame, destructor | everything |
| FeatureTracker | `include/glassvio/feature_tracker.hpp` | previous image, track ids, next id | track (flow, merge, top up), reset | image callback only |
| VioEstimator | `src/vio/vio_estimator.cpp` | collected frames, IMU, map, state, keyframe window, visual init, grace | process, reset | worker only |
| LandmarkMap | `src/vio/landmark_map.cpp` | landmarks, pending tracks, last seen, dropped outliers | seed, refine, add, insert, clear | estimator |
| KeyframeWindow | `src/vio/keyframe_window.cpp` | keyframes and their views | push, forget, optimize, triangulate, clear | estimator, map |
| VioInitializer | `src/vio/vio_initializer.cpp` | the result under construction: bias pairs, aligned frames, intervals | run, estimateGyroBias, align | estimator, SfM, ImuBuffer |
| SfM window and bundle | `src/sfm/` | the SfmWindow: base pair, poses, landmarks | buildSfmWindow (base pair, PnP, window tracks), bundleAdjust | initializer |
| ImuBuffer | `include/glassvio/dataset.hpp` | samples | add, continuous, preintegrate | estimator, initializer, window |
| Registration, reprojection, calibration | `src/vio/visual_registration.cpp`, `include/glassvio/` | none | solves and projections | estimator |
| Checks, launch, scripts | `src/checks/`, `launch/`, `scripts/` | files | offline harnesses, start-up, download | - |

What is hard here:

* **Interleaving.** Three threads and two mutexes. The image callback lets go of
  `state_mutex_` while it tracks, the worker while it estimates, and both trust an epoch
  number to tell them that the world has changed in between.
* **Restarts.** A bag that is played again makes the stamps jump back, on each topic at
  its own time, with messages of the old replay still on their way.
* **Pressure.** The bootstrap takes longer than a frame, so the queue overflows in normal
  operation. A dropped frame must not cost an IMU sample: a hole fails preintegration.
* **Long sequences.** The estimator has fifteen ways through `process()`, over a dozen
  counters and flags that several of them touch; the map moves an id between four tables.
* **Boundaries.** Equal stamps, a frame exactly on a sample or between two, a first frame
  without a sample before it, intervals of no length.
* **Units.** The reconstruction invents a ruler, hands it on from landmarks to poses and
  back, may stretch it while it is refined and gives it up for the metre at the end. Nothing
  in the types says which ruler a number is in.

What makes each part correct is stated in its module, next to the definitions; the list of
hazards, with the line each bites at and the properties that cover it, is in
`PROJECT.json`.

## 2. Modules

```
FrameStream <---- refined by ---- MeasureQueue ---- EXTENDS ----> MeasureSync
     ^                                 ^
     | the node's queue                +-- MeasureQueueProofs <-- MeasureStreamProofs
GlassVioNode <-- GlassVioNodeProofs

EstimatorLifecycle <---- refined by ---- VioEstimator <-- VioEstimatorProofs --> StridesProofs
                                             |                                       |
                                             +-- EXTENDS --> BootstrapOutcomes --> Strides
                                                                ^                    ^
                                               results allowed by                    |
                                                                |                    |
VioInitializerProofs --> VioInitializer --------+----- EXTENDS ----------------------+
                              ^                 +--> SfmBundle --> SfmWindow
                       MCVioInitializer         +--> ImuBuffer <-- ImuBufferProofs

LandmarkMapProofs --> LandmarkMap ---- EXTENDS ----> FeatureTracker
```

Operators whose comment begins with "Seeded fault" are never used by a specification.
Each is a plausible mistake in the definition that follows it; put in its place, it makes a
property fail. They are kept as evidence that the properties see such mistakes.

**MeasureSync** has the synchroniser's two deques as operators on sequences: the release
rule, the interval, `trim`, and the splice of the overflow branch. A message is its stamp
and, for the properties only, the replay it belongs to. `kMaxImuBuffer` is a constant.

**MeasureQueue** is the class under its mutex. The mutex is a variable that holds its owner
and a push is several steps: lock and buffer, then `sync_.next` and `push_back` in turn, as
often as `release()` loops. `waitPop`, `reset` and `stop` are one step each, possible while
the mutex is free. The condition variable keeps whether the worker is asleep on it, wakes
it on notify, and may wake it for no reason. History variables remember what was pushed,
popped and dropped in the current timeline.

**FrameStream** is what the queue promises the estimator, with no mutex, buffer or
synchroniser in it: frames in order, each with all samples since the last one handed out,
the oldest frame forgotten under pressure. MeasureQueue implements it
(`ImplementsStream`, `StreamServed`), and GlassVioNode uses it for its queue, which keeps
the node's state space small and composes the two results.

**GlassVioNode** has one action per section of a callback between two lock operations. The
gate (`acceptStamp`) is split into predicates on the stamp. The player and the transport
are the environment: each topic in order and without loss, as the RELIABLE subscriptions
ask for, the two topics independent, plus messages overtaken on their way and images
that cv_bridge refuses. A message carries the replay it is really from, which the code
cannot see and the properties compare.

**VioEstimator** has one action per way through `process()`, and `reset()`. A frame is its
stamp, in ticks of a frame period; a frame may be repeated, dropped before it arrives, or
come with a hole in its samples. Whether PnP, the frame's solve and the window's solve
succeed is free; the result of a bootstrap is taken from BootstrapOutcomes, and
preintegration fails exactly where `ImuBuffer::continuous` says. Landmarks are reduced to
their units and the state to the frame it is the state at.

**BootstrapOutcomes** is what `VioInitializer::run` may answer, as a set: given the stamps of
the frames and the ticks the samples cover, which frames a reconstruction can pose, how many
gyro pairs there can be, how many intervals the alignment has, and which verdicts on the
metre are possible then. VioEstimator chooses its bootstrap results from it.

**VioInitializer** is `run` itself, one step per turn of each of the code's loops: a base
pair candidate, a frame given to PnP, an iteration of the bundle adjustment, a pair of the
gyro bias, an interval of the alignment. It works on track ids and on samples finer than the
frames, so that neither is on the other's grid. `OutcomeAllowed` says that whatever it
answers is in BootstrapOutcomes: the estimator's model is an abstraction of the pipeline.
The part of the world the IMU shows is chosen when the buffer is first read, which leaves
out no behaviour and keeps the states few. **MCVioInitializer** has the small world it is
checked in.

**SfmWindow** and **SfmBundle** are `buildSfmWindow` and `bundleAdjust` on the fields of the
SfmWindow. A pose and a landmark are reduced to the ruler they are measured in: the base
pair that invented it, and the factor, as an exponent, it was stretched by since. A step of
the bundle adjustment with a free partner may stretch what it moves, as reprojection errors
do not see it, and the code's last step scales everything back by one factor.

**ImuBuffer** has `add`, `continuous` and `preintegrate` as operators on a sequence of
samples: which samples the loops visit and for which instants each is held. `Exact` is what
that ought to be, said without loops or brackets: every instant once, with the reading in
force. **Strides** has the thinning of posed frames that alignment and keyframes use.

**EstimatorLifecycle** is what the caller is told of the stages.

**FeatureTracker** and **LandmarkMap** follow the track ids: from detection through the
pending tracks to landmarks, outliers, recycled landmarks and the views keyframes hold.
Pixels and positions are left out, so which tracks are lost, mature or fit no more is
free. One step is one image; `NotInserted` stands for an image whose group the queue
drops, the estimator only collects, or a coast keeps out of the map.

## 3. Runs

| Run | Question | Bounds |
|---|---|---|
| `queue_intervals` | Does an overflow ever lose a sample or an order? Does the queue implement the stream? | capacity 2, 4 stamps, 5 samples, 4 frames, one timeline: two overflows in a row, frames on samples and between them, skipped and repeated stamps |
| `queue_timelines` | What is left of a timeline after a reset, of a queue after a stop? Is a wake-up lost? | capacity 1, one reset, a leak guard of 2 samples, so that it does evict |
| `queue_left_bracket` | Does every interval start at or before the previous frame? *It does not.* | capacity 1 |
| `node_restarts` | Are replays kept apart, down to the poses? | 3 replays of 5 ticks, a restart jump of 2, 2 messages in transit per topic, one stale message, one unreadable image |
| `node_liveness` | Is a restart taken up, does the destructor return? | 2 replays of 4 ticks |
| `node_early_restart` | The same gate when a bag is restarted early. *A topic is shut out.* | 2 replays of 4 ticks |
| `estimator_stages` | Units, time base, window, buffer, pacing, life cycle | bootstrap over 4 frames, retry every 2nd, grace 2, keyframe every 2nd, window of 2 + anchor, 10 ticks, two odd inputs (repeat, drop or hole), visual init from 4 to 6 ticks |
| `estimator_pose_stamp` | Is a pose the pose at its frame? *Not always at the bootstrap.* | 8 ticks |
| `estimator_diagnosis` | Does a failure name its stage? *Not with 2 to 4 poses.* | 8 ticks |
| `bootstrap_run` | Does the pipeline stay in one ruler, integrate exactly, and answer only what the estimator reckons with? | 3 and 6 frames, a window of 4, 3 tracks of any contiguous lifetimes, at least 2 landmarks, 1 shared track and 1 PnP point, 2 iterations with a free partner, gyro pairs 2 frames apart; samples every 2 units and frames every 3; a whole stream, one that starts late, one with any sample lost or any reading bad; 800 000 states |
| `map_tracks` | Do tracker, map and window agree on what an id is? | 2 ids, views of 3, grace 1 (4 when pending), 7 frames: enough for a pending track to age out and to let go of views, for an outlier to be recycled under its id while a keyframe still holds it |
| `map_outliers` | Is a lost outlier forgotten? *Not if it never became pending again.* | 6 frames |

`bootstrap_run` has frames on samples and between them, because 2 and 3 have no common
divisor; 6 frames with a window of 4 put two frames before the reconstruction, which only
the gyro bias sees; a track may end before the window, cover it, or be seen by one posed
frame only.

The bounds are the smallest at which each branch happens and one interval, overflow or
retry is followed by another. All constants of the code appear scaled down
(`bootstrap_frames` 120 to 4, five poses to three, `max_unseen_frames` to 1): only
comparisons between them matter, and their order is kept, as are the cases that it leaves
open (more frames than the window, fewer than it needs). Only what grows without end in
the code is bounded in a guard: stamps, samples, frames, epochs and ids.

Deadlock checking is on in every run. Queue and node end in a state they say is final
(`Terminated`, `Joined`); estimator and map can always be reset.

No symmetry is used: stamps, ids and epochs are ordered.

### Fairness

*MeasureQueue.* A thread inside `release()` goes on (weak fairness). The worker has strong
fairness, because each of its attempts on the mutex competes with the producers'. Nobody
has to push, reset or stop; a spurious wake-up is never owed.

*GlassVioNode.* The executor runs a callback whose topic has a message and whose group is
free, and the worker runs. Both need strong fairness where they take `state_mutex_`, as a
fair mutex gives. The player owes nothing, not even the next message.

*VioEstimator and LandmarkMap* are passive objects called by one thread; they have safety
properties only. That a visual init ends is therefore stated as a bound on frames.

## 4. What the runs found

Five statements of the code's own comments do not hold; each has a run and an entry under
`findings`.

* **A topic can be shut out by an early restart** (`src/glassvio_node.cpp:173`). After a
  rewind on one topic the other is let in only when it is at least a second behind its own
  last stamp. If it was not yet a second past the stamp the replay restarts at, no message
  of the new replay ever qualifies, and the node receives nothing on it. Starting the replay
  over again does not help, as the topic still waits with the same last stamp. `node_restarts` shows that the gate is right once both topics are that far.
* **An interval may have no left edge** (`include/glassvio/sync.hpp:87`): when the first
  frame of a timeline is earlier than the first sample.
* **The bootstrap's pose may be older than its frame** (`src/vio/vio_estimator.cpp:141`):
  it belongs to the newest frame SfM *posed*.
* **The reported stage is not always the one that failed**
  (`src/vio/vio_estimator.cpp:82`).
* **Ids of lost outliers stay** (`src/vio/landmark_map.cpp:208`), which the comment there
  says must not happen.

## 5. Proofs

Every theorem below is about all values of the constants that the modules' named
assumptions admit, and is checked by `tlapm` to the last leaf.

**The queue** (`MeasureQueueProofs`, `MeasureStreamProofs`): every capacity, buffer limit,
set of stamps and number of pushes and resets, from `SyncAssumption` and `QueueAssumption`.

| Theorem | Property | Inductive invariant |
|---|---|---|
| `TypeCorrect` | `TypeOK` | itself: that a thread holds a group exactly at `enqueue` is what makes `MovedFrom` and `SyncNext` type-correct |
| `Exclusion` | `MutualExclusion` | `TypeOK` with it |
| `NothingHeld` | `NothingReadyIsHeld` | the mutex is given up only where nothing is releasable, so a free mutex implies it |
| `Bounded` | `QueueBounded` | each pass of the loop adds one group and drops one if that was too many |
| `Conserved` | `FramesConserved` | with exclusion: at most one group is in flight, in the thread that holds the mutex |
| `Drained` | `ShutdownDrained` | once the worker is done the stop flag is up, the queue empty and nobody inside `release()` |
| `Pure` | `TimelinePure` | type correctness over the messages of one timeline, with exclusion to keep `reset()` out of a half-finished release |
| `InOrder` | `FramesInOrder` | `OrderInv`: the whole backlog, the frames queued, in a thread's hands and still in the synchroniser, rises from the last frame handed out to the last one pushed. With exclusion, since two groups in two hands could be queued in either order |
| `ImuChained` | `ImuComplete` | `ChainInv`: each group in the backlog has all the samples received since the frame before it (`Linked`), a sample at or after the last frame released has been received (`Reached`), and the synchroniser retains all those received since then (`Retained`); all of it as long as the leak guard has evicted nothing. Dropping the oldest group splices its samples into the next one, which keeps the chain linked across the gap |
| `StreamImplemented` | `ImplementsStream` | each step maps to one of FrameStream or to none, from `OrderInv` and `ChainInv` before and after it: a release that drops is `DropOldest`, a pop `HandOut`, and what a thread does between its lock and its unlock is a stutter but for the push itself |
| `RoomyQueueImplements` | `ImplementsStream` | `RoomInv`: the buffer never holds more than was received |

The refinement has a condition, since the leak guard throws samples away and the promise is
then not kept: `StreamImplemented` says it of the behaviour (`[]~evicted`), `RoomyQueueImplements`
of the constants (no timeline has more samples than the buffer holds), without which
`evicted` can be true. The run `queue_intervals` takes such constants, and the run
`queue_timelines`, where it does evict, does not check the refinement.

**The node** (`GlassVioNodeProofs`): every restart jump, length of a replay, number of replays
and amount of messages in transit, stale or unreadable, from `NodeAssumption`. All but `FedInOrder`
also assume `Settled`: a replay is started over only once both topics are further than the jump and
the unreadable images. Without it `ReplaysApart`, `TracksOfOneReplay`, `EstimatorOfOneReplay` and
`NothingThrownAway` do not hold: each property is violated in the instance that the run
`node_early_restart` takes.

| Theorem | Property | What the invariant says for it |
|---|---|---|
| `ReplaysApart` | `TimelinesApart` | `GateOK`: a topic waits exactly while the other one is a replay ahead. It is kept because of what a channel can hold (`Flow`): messages of at most two replays, those of one never so far apart that one looks like a rewind, and, until a topic's restart is seen, a split into the old replay's messages and the new one's, the first of which is early enough to look like one (`Split`). `OriginOK`: what the queue's epoch was made of is the replay of the topic ahead |
| `TracksOfOneReplay` | `TracksApart` | `TracksOK`: the tracker holds tracks of the image topic's replay, or its reset is still owed, pending in the node or in the hands of the callback that goes on to do it. `HandsOK`: what a callback carries is of its topic's replay |
| `EstimatorOfOneReplay` | `EstimatorApart` | `QueueOK` and `EstimatorOK`: queued frames and, if the worker's epoch is current, the state are of the epoch's one replay |
| `FedInOrder` | `QueueFedInOrder` | `FedInv`: what a callback carries into the current epoch is its topic's last accepted stamp, nothing pushed is later than that, and a waiting topic has pushed nothing |
| `TypeCorrect` | `TypeOK` | `TypeInv`, with `AheadInv`: the queue's epoch number is the replay of the topic ahead, which bounds how often the gate can start an epoch |
| `NothingThrownAway` | `NeitherStreamLossy` | `FreshInv`: in a channel, a message that was not overtaken is later than all before it of its replay, and than the last one accepted if that is of its replay too. So what is left to refuse is stale or waited for, and `AheadInv` excludes the latter |
| `PosesNeverGoBack` | `PosesInOrder` | `PoseInv`: the stamps rise from the last pose over the frame the worker has to the queued ones and the last one pushed, as far as they are of the current epoch; with `AheadInv`, poses of an earlier epoch are of an earlier replay |
| `QueueIsAStream` | (`Queue!Spec`) | each step of the node is one of FrameStream's on the queue's variables or leaves them alone, `TypeInv` giving the types of what is pushed: the queue may be replaced by its promise, as this module does |

**The estimator** (`VioEstimatorProofs`): every grace, retry period, window, keyframe spacing and
visual-init limit, from `EstimatorAssumption` and `BootstrapAssumption`. `Shape`, a type
invariant in seven named parts with what each part needs to be inductive (a visual init has
had at most `visual_init_max_misses` misses, collected and visual frames are not newer than the
last stamp), is proved first and used in all the others.

| Theorem | Property | What the invariant adds to `Shape` |
|---|---|---|
| `TypeCorrect` | `TypeOK` | - |
| `RulerDies` | `UnitsApart` | itself |
| `PacedAttempts` | `AttemptsPaced` | `Pace`: `since_attempt_` never runs ahead of the frames really seen since the last attempt |
| `WorldDefinedAfresh` | `NothingInherited` | itself |
| `StateAtItsTime` | `StateAtTPrev` | `StateInv`: the state, its time base, the window's order and its newest keyframe together, since a window solve moves the state to the newest keyframe |
| `WindowOrdered` | `WindowInOrder` | `StateInv`, with `NothingInherited` for the time before the bootstrap |
| `LifecycleKept` | `KeepsLifecycle` | `LifeInv`: while tracking, `warmup_` and the frames vision did not solve add up to the grace. Each step is then a step of EstimatorLifecycle or a stutter |
| `VisualInitEnds` | `VisualInitGivesUp` | `Overdue`: the frames since a visual init is too long are at most its poses since the last keyframe times one more than the misses allowed, and the misses since. It assumes `visual_init_seconds <= visual_init_max_seconds`, as any setting that can ever succeed has it |

`StridesProofs` is about `Strided`, the thinning that the alignment and the keyframes share, for
every set and stride. `StridedMembers`: its members are members of the set, strictly in order, and
the first is the set's first. `StridedIsTheLoop`: they are what the code's loop over the sorted
frames takes, at positions 0, n, 2n and so on. Both rest on how many members of the set are below
each one (`StridedRanks`).

**The bootstrap** (`VioInitializerProofs`, `ImuBufferProofs`): every sequence of frames, every
stream of samples, every minimum and number of iterations.

| Theorem | Property | Argument |
|---|---|---|
| `PreintegratedExactly` | (`Exact`) | for any samples in order, as `add` keeps them: the visited samples are exactly those in force somewhere in the interval, their portions tile it, and the gap and finiteness tests refuse exactly an instant without a good reading |
| `IntervalsChain` | - | an interval is whole exactly when its two parts are. This is what lets VioEstimator keep a set of covered ticks instead of samples |
| `IntegratedExactly` | `IntervalsExact` | the buffer is always in strict order, then `PreintegratedExactly` |
| `StaysInOneRuler` | `OneRuler` | every pose but the base's and every landmark has the stretch of the partner's pose, during the bundle adjustment too; so one factor takes all of it back |
| `AllSeenTwice` | `SeenTwice` | a base pair landmark is seen by both, a window landmark by its first and last view, and poses are only added |
| `OutcomesAllowed` | `OutcomeAllowed` | `OutcomeInv`: which frames can be posed at each stage (`PosedInv`), and the loops' counts as cardinalities: the gyro pairs are some of the whole intervals a gap apart behind the loop's index, the alignment's intervals all those between aligned frames behind it (`CountInv`). An interval between two frames is whole when each tick in it is (`WholeByTicks`), so samples finer than the frames and the estimator's set of covered ticks agree |

`OutcomesAllowed` is what licenses VioEstimator to take its bootstrap results from a set: the
theorems about the estimator hold of every answer in it, and the pipeline has no other.

**The map** (`LandmarkMapProofs`): every number of tracks, grace, bound on views and window, from
`MapAssumption`.

| Theorem | Property | Inductive invariant |
|---|---|---|
| `OneRoleEach` | `OneRole` | `RoleInv`: with the domains of the three tables, and that what a frame leaves is within its grace |
| `NothingLeaks` | `SeenLately` | the same |
| `OldViewsForgotten` | `WindowForgets` | `WindowInv`: also that no keyframe is of a frame to come and a drop is never later than now |
| `WidestBaseline` | `WidestBaselineKept` | `BaselineInv`: the first view of a pending track is the one it began with and its views are in strict order; `MaxObservations` of two or more keeps it |
| `TracksInOrder` | `OldestFirst` | `TrackerInv`: the ids rise and all are below the next one; flow and merge keep an order that detection appends to |
| `IdsForGood` | `IdsNeverReused` | the same: whatever was ever tracked is below the next id, which a reset does not take back |
| `TypeCorrect` | `TypeOK` | `RangeInv`: with `RoleInv`, for the tables' domains, and that every id in a table has been tracked |

The lemmas under these say what the helpers return (`Trim`, `Interval`, `NextGroup`, `Pushed`,
`WithView`, `Strided` and so on), over any arguments. A few about a least or greatest element
use well-founded induction on the naturals.

Only model-checked: what needs fairness, since the prover handles neither it nor ENABLED
(`StreamServed`, `NoGroupStranded`, `ShutdownTerminates`, `RestartNoticed`, `NodeTerminates`),
and that no run but a final state stops (deadlock). Every safety invariant and action property of
a passing run is stated by a theorem. The five runs that end in a violation refute what they
check, so nothing of it is proved. `ImplementsStream` and `QueueIsAStream` meet in FrameStream:
the queue implements it, and the node does nothing else to its queue than FrameStream allows. That
the two give FrameStream's frames different fields is not looked at by either.
No module uses RECURSIVE operators.

## 6. Not modelled

* The numerical solves: registration, reprojection, essential matrix, PnP, triangulation,
  the gyro and alignment least squares, the bundle's and the window's normal equations,
  calibration. A model checker cannot evaluate them; they appear as free choices at the
  point where their verdict is used. In particular, whether the alignment's system has full
  rank is not modelled: an interval with a hole leaves its equations out, and the last frame's
  velocity unobserved when it is the last interval (`src/vio/vio_initializer.cpp:154`). The
  code's gates on what the solve says are part of the free verdict.
* That an accepted step of the bundle adjustment might stretch some of what it moves and not the
  rest, leave a landmark with two observations where it was, or collapse the partner onto the base,
  where the code skips the rescaling (`src/sfm/sfm_bundle.cpp:242`). The model's accepted steps
  stretch all that is free by one factor; `OneRuler` compares what is moved with what is rescaled.
* What the tracker does in an image, and publishing of annotated images.
* The offline checks, the loaders of data sets they read, and the regression scoring:
  sequential programs over files.
* Launch files, container and download script: process start-up and file transfer.
* Switches only tests use (`map.triangulate = false`, the oracles).

## 7. Plan

1. Done: queue (model, refinement, proofs), node (model, proofs), estimator
   (model, refinement, proofs), bootstrap pipeline (model, abstraction, proofs), tracker and map
   (model, proofs).
2. Done: a theorem for every safety property of the passing runs, and for both refinements.
3. Left: a model of KeyframeWindow's own solve loop (which landmarks it marginalises, when it
   gives up) in place of the free choice VioEstimator makes.
