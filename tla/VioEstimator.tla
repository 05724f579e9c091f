----------------------------- MODULE VioEstimator -----------------------------
(***************************************************************************)
(* glassvio::VioEstimator (src/vio/vio_estimator.cpp) with the parts of      *)
(* VioInitializer, KeyframeWindow::push and ImuBuffer that decide which way   *)
(* a frame goes.  One action per way through process(), and reset().         *)
(*                                                                          *)
(* A frame is its stamp, in ticks of one frame period.  What the linear      *)
(* algebra decides - which frames SfM poses, how many rotations agree, what   *)
(* the alignment says of the scale, whether PnP, the frame's solve and the    *)
(* window's solve succeed - is chosen freely; what the code decides from it   *)
(* is not.  Preintegration fails exactly as ImuBuffer::continuous says.       *)
(* Landmarks are the units they are in; a state is the stamp it belongs to.   *)
(***************************************************************************)
EXTENDS BootstrapOutcomes

CONSTANTS
  BootstrapFrames,    \* bootstrap_frames
  RetryEvery,         \* bootstrap_retry_every
  WarmupFrames,       \* warmup_frames
  VisualInitSeconds, VisualInitMaxSeconds,   \* in ticks; 0 = no visual init
  VisualInitMaxMisses,
  WindowEnabled, KeyframeEvery, MaxKeyframes, EstimateGravity,   \* window.*
  Length,             \* bound: the last stamp
  MaxOdd              \* bound: repeated stamps, dropped frames and holes in the IMU, together

ASSUME EstimatorAssumption ==
  /\ {BootstrapFrames, RetryEvery, KeyframeEvery} \subseteq Nat \ {0}
  /\ {WarmupFrames, VisualInitSeconds, VisualInitMaxSeconds, VisualInitMaxMisses,
      MaxKeyframes, Length, MaxOdd} \subseteq Nat
  /\ {WindowEnabled, EstimateGravity} \subseteq BOOLEAN

Ticks  == 1 .. Length
Stages == {"None", "Collecting", "Bootstrapped", "Tracking", "Lost"}
Units  == {"ruler", "metre"}

Failures  == {"", "[2]", "[3]", "[4] intervals", "[4] gravity", "[4] s <= 0", "[4] uncertain",
              "[V] refused", "[V] s <= 0", "[V] uncertain"}

VARIABLES
  now, odd,                     \* stamp of the last frame processed, or 0; the odd inputs so far
  imu_,                         \* covered: ticks the samples span without a hole; upto: the last
  frames_, since_attempt_,      \* the frames collected
  initialized_, lost_, warmup_,
  x_, t_prev_,                  \* the frame x_ is the state at, and the stamp kept beside it
  map_,                         \* the units of its landmarks
  window_, since_keyframe_, gravity_world_,
  vis_active_, vis_frames_, vis_t0_, vis_since_kf_, vis_misses_,
  last_failure_,
  out,                          \* the last FrameResult: its stage, and the frame its pose is of
  unsolved,                     \* frames since vision last solved one
  reached,                      \* the stage the last bootstrap attempt got to
  sinceSfm, overdue             \* frames since the last SfM, and since a visual init was too long

collected == <<frames_, since_attempt_>>
state     == <<initialized_, lost_, warmup_, x_, t_prev_>>
window    == <<window_, since_keyframe_, gravity_world_>>
visual    == <<vis_active_, vis_frames_, vis_t0_, vis_since_kf_, vis_misses_>>
diagnosis == <<last_failure_, reached>>
counts    == <<unsolved, sinceSfm, overdue>>
vars == <<now, odd, imu_, collected, state, map_, window, visual, diagnosis, out, counts>>

NoImu == [covered |-> {}, upto |-> 0]

Init ==
  /\ now = 0 /\ odd = 0 /\ imu_ = NoImu
  /\ frames_ = <<>> /\ since_attempt_ = 0
  /\ initialized_ = FALSE /\ lost_ = FALSE /\ warmup_ = 0 /\ x_ = 0 /\ t_prev_ = 0
  /\ map_ = {}
  /\ window_ = <<>> /\ since_keyframe_ = 0 /\ gravity_world_ = "nominal"
  /\ vis_active_ = FALSE /\ vis_frames_ = <<>> /\ vis_t0_ = 0
  /\ vis_since_kf_ = 0 /\ vis_misses_ = 0
  /\ last_failure_ = "" /\ reached = "[2]"
  /\ out = [stage |-> "None", t |-> 0, pose |-> 0]
  /\ unsolved = 0 /\ sinceSfm = RetryEvery /\ overdue = 0

-------------------------------------------------------------------------------
(***************************************************************************)
(* ImuBuffer.                                                               *)
(***************************************************************************)
\* add ignores what is not newer than its last sample, the brackets that groups share.
Buffered(t, hole) ==
  IF t <= imu_.upto THEN imu_
  ELSE [covered |-> imu_.covered \cup (IF hole THEN {} ELSE now + 1 .. t), upto |-> t]

-------------------------------------------------------------------------------
(***************************************************************************)
(* What bootstrap() makes of the initializer's result r.                      *)
(***************************************************************************)
\* last_failure_ after bootstrap(), from what the result holds.
Diagnosis(r) ==
  CASE r.posed = {}                        -> "[2]"
    [] r.posed # {} /\ r.pairs < BiasMinPairs -> "[3]"
    [] OTHER ->
       IF r.intervals < AlignMinIntervals THEN "[4] intervals"
       ELSE CASE r.solution \in {"none", "refused"} -> "[4] gravity"
              [] r.solution = "negative"  -> "[4] s <= 0"
              [] r.solution = "uncertain" -> "[4] uncertain"
              [] OTHER                    -> ""

\* The stage that decided it.
StageReached(r) ==
  IF ~Valid(r.posed) THEN "[2]"
  ELSE IF r.pairs < BiasMinPairs THEN "[3]" ELSE "[4]"

-------------------------------------------------------------------------------
(***************************************************************************)
(* The pieces of process().                                                 *)
(***************************************************************************)
\* A frame arrives: with the next stamp, after dropped ones, with the same stamp, or
\* with a hole in its samples.
Frame(t, hole) ==
  /\ t \in Ticks
  /\ now = 0 => t = 1 /\ ~hole
  /\ LET strange == IF t # now + 1 \/ hole THEN 1 ELSE 0
     IN  odd + strange <= MaxOdd /\ odd' = odd + strange
  /\ imu_' = Buffered(t, hole)
  /\ now' = t

Output(stage, pose) == out' = [stage |-> stage, t |-> now', pose |-> pose]

\* frames_.erase(frames_.begin())
Slid(f) == Tail(f)

\* KeyframeWindow::push
Pushed(s, t) ==
  LET all == Append(s, t)
  IN  SubSeq(all, Max({1, Len(all) - MaxKeyframes}), Len(all))

\* Seeded fault: the metric landmarks join the reconstruction's.
SeededBeside(units) == map_ \cup {units}

\* map_->clear(); map_->seed(...)
Seeded(units) == {units}

\* adopt, at the stamp of the last frame aligned: a metric map, the state, a fresh window.
Adopt(stamp) ==
  /\ map_' = Seeded("metre")
  /\ x_' = stamp
  /\ t_prev_' = stamp
  /\ warmup_' = WarmupFrames
  /\ window_' = IF WindowEnabled THEN <<stamp>> ELSE <<>>
  /\ since_keyframe_' = 0
  /\ initialized_' = TRUE
  /\ Output("Bootstrapped", stamp)
  /\ UNCHANGED <<lost_, gravity_world_, unsolved>>

NotAdopted ==
  /\ Output("Collecting", 0)
  /\ UNCHANGED <<state, window, unsolved>>

-------------------------------------------------------------------------------
(***************************************************************************)
(* process() before the bootstrap.                                           *)
(***************************************************************************)
Collecting == ~initialized_ /\ Len(frames_) + 1 < BootstrapFrames
Attempting == ~initialized_ /\ Len(frames_) + 1 >= BootstrapFrames /\ ~vis_active_
Visual     == ~initialized_ /\ Len(frames_) + 1 >= BootstrapFrames /\ vis_active_

\* Seeded fault: an attempt at every frame.
DueAtOnce == TRUE

\* Seeded fault: an attempt is never due.
NeverDue == FALSE

Due == since_attempt_ + 1 >= RetryEvery

NoAttempt == sinceSfm' = Min({sinceSfm + 1, RetryEvery}) /\ UNCHANGED overdue

Collect(t, hole) ==
  /\ Collecting /\ Frame(t, hole)
  /\ frames_' = Append(frames_, t)
  /\ NotAdopted /\ NoAttempt
  /\ UNCHANGED <<since_attempt_, map_, visual, diagnosis>>

\* The window slides on; an attempt is made at every RetryEvery-th frame only.
Wait(t, hole) ==
  /\ Attempting /\ ~Due /\ Frame(t, hole)
  /\ frames_' = Slid(Append(frames_, t))
  /\ since_attempt_' = since_attempt_ + 1
  /\ NotAdopted /\ NoAttempt
  /\ UNCHANGED <<map_, visual, diagnosis>>

\* An attempt at this frame.
Attempt(t, hole) ==
  /\ Attempting /\ Due /\ Frame(t, hole)
  /\ since_attempt_' = 0
  /\ sinceSfm' = 0 /\ overdue' = 0

\* bootstrap() with the result r, up to its verdict.
Judge(r) == last_failure_' = Diagnosis(r) /\ reached' = StageReached(r)

\* Good in shape and gyro bias, but not in the metre.
OnlyTheMetreMissing(r) == Valid(r.posed) /\ r.pairs >= BiasMinPairs /\ r.solution # "metric"

BootstrapSucceeds(t, hole) ==
  LET f == Append(frames_, t)
  IN  /\ Attempt(t, hole)
      /\ \E r \in Results(f, imu_'.covered) :
        /\ Judge(r)
        /\ r.solution = "metric"
        /\ LET aligned == Strided(r.posed, AlignStride) IN Adopt(f[aligned[Len(aligned)]])
        /\ frames_' = f
        /\ UNCHANGED visual

BootstrapFails(t, hole) ==
  LET f == Append(frames_, t)
  IN  /\ Attempt(t, hole)
      /\ \E r \in Results(f, imu_'.covered) :
        /\ Judge(r)
        /\ r.solution # "metric"
        /\ ~(VisualInitSeconds > 0 /\ OnlyTheMetreMissing(r))
        /\ frames_' = Slid(f)
        /\ NotAdopted
        /\ UNCHANGED <<map_, visual>>

\* startVisualInit: the reconstruction becomes the map, every KeyframeEvery-th of its
\* frames a keyframe.
VisualInitStarts(t, hole) ==
  LET f == Append(frames_, t)
  IN  /\ Attempt(t, hole)
      /\ \E r \in Results(f, imu_'.covered) :
        /\ Judge(r)
        /\ VisualInitSeconds > 0 /\ OnlyTheMetreMissing(r)
        /\ frames_' = Slid(f)
        /\ map_' = Seeded("ruler")
        /\ vis_active_' = TRUE
        /\ vis_frames_' = Stamps(f, Strided(r.posed, KeyframeEvery))
        /\ vis_t0_' = f[Min(r.posed)]
        /\ vis_since_kf_' = 0 /\ vis_misses_' = 0
        /\ NotAdopted

-------------------------------------------------------------------------------
(***************************************************************************)
(* visualInitStep.                                                          *)
(***************************************************************************)
VisualStep(t, hole) ==
  /\ Visual /\ Frame(t, hole)
  /\ frames_' = Slid(Append(frames_, t))
  /\ sinceSfm' = Min({sinceSfm + 1, RetryEvery})

Timed(t) == overdue' = IF vis_active_' /\ t - vis_t0_ > VisualInitMaxSeconds THEN overdue + 1 ELSE 0

AbortVisualInit ==
  /\ vis_active_' = FALSE /\ vis_frames_' = <<>>
  /\ map_' = {}
  /\ since_attempt_' = 0

KeepsGoing ==
  /\ map_' = map_ \cup {"ruler"}
  /\ UNCHANGED <<vis_active_, since_attempt_>>

\* PnP finds no pose.
VisualMiss(t, hole) ==
  /\ VisualStep(t, hole)
  /\ \/ /\ vis_misses_ + 1 > VisualInitMaxMisses
        /\ AbortVisualInit
     \/ /\ vis_misses_ + 1 <= VisualInitMaxMisses
        /\ UNCHANGED <<vis_active_, vis_frames_, map_, since_attempt_>>
  /\ vis_misses_' = vis_misses_ + 1
  /\ Timed(t)
  /\ NotAdopted
  /\ UNCHANGED <<vis_t0_, vis_since_kf_, diagnosis>>

\* PnP finds a pose; the map grows.
VisualGrow(t, hole) ==
  /\ VisualStep(t, hole)
  /\ vis_since_kf_ + 1 < KeyframeEvery
  /\ KeepsGoing
  /\ vis_since_kf_' = vis_since_kf_ + 1 /\ vis_misses_' = 0
  /\ Timed(t)
  /\ NotAdopted
  /\ UNCHANGED <<vis_frames_, vis_t0_, diagnosis>>

KeyframeDue ==
  /\ vis_since_kf_ + 1 >= KeyframeEvery
  /\ vis_since_kf_' = 0 /\ vis_misses_' = 0 /\ UNCHANGED vis_t0_

\* Too early to ask for the metre.
VisualKeyframe(t, hole) ==
  /\ VisualStep(t, hole) /\ KeyframeDue /\ t - vis_t0_ < VisualInitSeconds
  /\ vis_frames_' = Append(vis_frames_, t)
  /\ KeepsGoing
  /\ Timed(t)
  /\ NotAdopted
  /\ UNCHANGED diagnosis

\* Seeded fault: a visual init is never too long.
NeverTooLong(t) == FALSE

TooLong(t) == t - vis_t0_ > VisualInitMaxSeconds

VisualGivesUp(t, hole) ==
  /\ VisualStep(t, hole) /\ KeyframeDue
  /\ t - vis_t0_ >= VisualInitSeconds /\ TooLong(t)
  /\ AbortVisualInit
  /\ Timed(t)
  /\ NotAdopted
  /\ UNCHANGED diagnosis

\* The alignment over every keyframe so far; in the end the map, the state and the
\* window are made metric, as by the bootstrap.
VisualAlign(t, hole) ==
  LET kfs     == Append(vis_frames_, t)
      aligned == Stamps(kfs, Strided(DOMAIN kfs, AlignStride))
  IN  /\ VisualStep(t, hole) /\ KeyframeDue
      /\ t - vis_t0_ >= VisualInitSeconds /\ ~TooLong(t)
      /\ \E a \in Alignments(aligned, imu_'.covered) :
           IF a.solution = "metric"
           THEN /\ vis_active_' = FALSE /\ vis_frames_' = <<>> /\ UNCHANGED since_attempt_
                /\ last_failure_' = ""
                /\ Timed(t)
                /\ Adopt(aligned[Len(aligned)])
           ELSE /\ KeepsGoing
                /\ vis_frames_' = kfs
                /\ last_failure_' = CASE a.solution = "negative"  -> "[V] s <= 0"
                                      [] a.solution = "uncertain" -> "[V] uncertain"
                                      [] OTHER                    -> "[V] refused"
                /\ Timed(t)
                /\ NotAdopted
      /\ reached' = "[V]"

-------------------------------------------------------------------------------
(***************************************************************************)
(* process() after the bootstrap.                                            *)
(***************************************************************************)
TrackStep(t, hole) ==
  /\ Frame(t, hole) /\ initialized_ /\ ~lost_
  /\ NoAttempt
  /\ UNCHANGED <<collected, initialized_, visual, diagnosis>>

Preintegrates == Continuous(imu_'.covered, t_prev_, now')

\* Seeded fault: a solved frame does not restore the grace.
NotRestored == warmup_

Restored == WarmupFrames

\* window_.optimize cannot work on fewer than three keyframes, or across a hole.
Optimizable ==
  /\ Len(window_') >= 3
  /\ \A i \in 1 .. Len(window_') - 1 : Continuous(imu_'.covered, window_'[i], window_'[i + 1])

\* Every KeyframeEvery-th solved frame enters the window, which is solved as a whole if
\* it can be; the state is then the newest keyframe's.
Keyframe(t) ==
  IF ~WindowEnabled THEN x_' = t /\ UNCHANGED window
  ELSE IF since_keyframe_ + 1 < KeyframeEvery
  THEN /\ x_' = t
       /\ since_keyframe_' = since_keyframe_ + 1 /\ UNCHANGED <<window_, gravity_world_>>
  ELSE /\ since_keyframe_' = 0
       /\ window_' = Pushed(window_, t)
       /\ \/ x_' = t /\ UNCHANGED gravity_world_
          \/ /\ Optimizable
             /\ x_' = window_'[Len(window_')]
             /\ gravity_world_' = IF EstimateGravity THEN "window" ELSE gravity_world_

Grown == map_' = map_ \cup {"metre"}

Solved(t, hole) ==
  /\ TrackStep(t, hole) /\ Preintegrates
  /\ t_prev_' = t
  /\ warmup_' = Restored
  /\ Grown
  /\ Keyframe(t)
  /\ Output("Tracking", x_')
  /\ unsolved' = 0
  /\ UNCHANGED lost_

Coasted(t) ==
  /\ warmup_ > 0 /\ warmup_' = warmup_ - 1
  /\ x_' = t
  /\ Output("Tracking", t)
  /\ unsolved' = unsolved + 1
  /\ UNCHANGED <<lost_, window>>

\* Seeded fault: after a hole the time base is not re-established.
TimeBaseKept(t) == t_prev_

TimeBase(t) == t

\* Velocity held over a hole in the IMU stream, or over a frame that brings no time.
CoastOverHole(t, hole) ==
  /\ TrackStep(t, hole) /\ ~Preintegrates
  /\ Coasted(t)
  /\ t_prev_' = TimeBase(t)
  /\ Grown

\* The IMU's prediction, for a frame that vision does not solve; a refused frame may be
\* kept out of the map.
CoastOnImu(t, hole) ==
  /\ TrackStep(t, hole) /\ Preintegrates
  /\ Coasted(t)
  /\ t_prev_' = t
  /\ Grown \/ UNCHANGED map_

\* The grace is used up: a hole, or a frame that vision does not solve.
Lose(t, hole) ==
  /\ TrackStep(t, hole)
  /\ warmup_ = 0
  /\ lost_' = TRUE
  /\ Output("Lost", 0)
  /\ UNCHANGED <<warmup_, x_, t_prev_, map_, window, unsolved>>

StayLost(t, hole) ==
  /\ Frame(t, hole) /\ initialized_ /\ lost_
  /\ NoAttempt
  /\ Output("Lost", 0)
  /\ UNCHANGED <<collected, state, map_, window, visual, diagnosis, unsolved>>

\* Seeded fault: the next run starts from the gravity the last one came to.
GravityKept == gravity_world_

GravityAfterReset == "nominal"

\* reset(), by a caller whose stamps go on (a loss) or start over (a new replay).
Reset ==
  /\ now' \in {now, 0}
  /\ imu_' = NoImu
  /\ frames_' = <<>> /\ since_attempt_' = 0
  /\ initialized_' = FALSE /\ lost_' = FALSE /\ warmup_' = 0 /\ x_' = 0 /\ t_prev_' = 0
  /\ map_' = {}
  /\ window_' = <<>> /\ since_keyframe_' = 0 /\ gravity_world_' = GravityAfterReset
  /\ vis_active_' = FALSE /\ vis_frames_' = <<>>
  /\ last_failure_' = "" /\ reached' = "[2]"
  /\ out' = [stage |-> "None", t |-> 0, pose |-> 0]
  /\ unsolved' = 0 /\ sinceSfm' = RetryEvery /\ overdue' = 0
  /\ UNCHANGED <<odd, vis_t0_, vis_since_kf_, vis_misses_>>

-------------------------------------------------------------------------------
Process(t, hole) ==
  \/ Collect(t, hole) \/ Wait(t, hole)
  \/ BootstrapSucceeds(t, hole) \/ BootstrapFails(t, hole) \/ VisualInitStarts(t, hole)
  \/ VisualMiss(t, hole) \/ VisualGrow(t, hole) \/ VisualKeyframe(t, hole)
  \/ VisualGivesUp(t, hole) \/ VisualAlign(t, hole)
  \/ Solved(t, hole) \/ CoastOverHole(t, hole) \/ CoastOnImu(t, hole)
  \/ Lose(t, hole) \/ StayLost(t, hole)

Next == Reset \/ \E gap \in 0 .. 2, hole \in BOOLEAN : Process(now + gap, hole)

Spec == Init /\ [][Next]_vars

-------------------------------------------------------------------------------
(***************************************************************************)
(* Properties.                                                              *)
(***************************************************************************)
\* The range of every variable; the frames collected never outgrow bootstrap_frames,
\* whichever way an attempt ends, and a visual init runs only before the bootstrap.
TypeOK ==
  /\ now \in Nat /\ odd \in Nat
  /\ imu_.covered \subseteq Ticks /\ imu_.upto \in Ticks \cup {0}
  /\ frames_ \in Seq(Ticks) /\ vis_frames_ \in Seq(Ticks) /\ window_ \in Seq(Ticks)
  /\ Len(frames_) <= BootstrapFrames
  /\ since_attempt_ \in 0 .. RetryEvery - 1 /\ warmup_ \in 0 .. WarmupFrames
  /\ since_keyframe_ \in 0 .. KeyframeEvery - 1 /\ vis_since_kf_ \in 0 .. KeyframeEvery - 1
  /\ vis_misses_ \in 0 .. VisualInitMaxMisses + 1
  /\ {initialized_, lost_, vis_active_} \subseteq BOOLEAN
  /\ lost_ => initialized_
  /\ vis_active_ => ~initialized_
  /\ {x_, t_prev_, vis_t0_} \subseteq Ticks \cup {0}
  /\ map_ \subseteq Units /\ gravity_world_ \in {"nominal", "window"}
  /\ last_failure_ \in Failures /\ out.stage \in Stages

\* "This is where the ruler finally dies": the tracker never sees a landmark in the
\* reconstruction's units, the visual init none in metres, and an SfM attempt starts
\* from no landmarks at all.
UnitsApart ==
  map_ \subseteq IF initialized_ THEN {"metre"} ELSE IF vis_active_ THEN {"ruler"} ELSE {}

\* The time the next preintegration starts at is the time of the state it starts from,
\* through every way a frame can be coasted, solved or re-solved by the window, and
\* no keyframe is newer.
StateAtTPrev ==
  initialized_ => /\ x_ = t_prev_
                  /\ \A i \in DOMAIN window_ : window_[i] <= t_prev_

\* Keyframes are strictly in time order, whatever repeated stamps come in, and no more
\* than max_keyframes and the anchor.
WindowInOrder ==
  /\ Len(window_) <= MaxKeyframes + 1
  /\ \A i \in 1 .. Len(window_) - 1 : window_[i] < window_[i + 1]

\* "The next bootstrap DEFINES the world afresh": until it succeeds there is no window,
\* the gravity is the nominal one, and the samples are those of this run up to the
\* last frame, however often the estimator was reset and wherever the stamps went.
NothingInherited ==
  /\ frames_ # <<>> => imu_.upto = now
  /\ ~initialized_ => /\ window_ = <<>> /\ since_keyframe_ = 0
                      /\ gravity_world_ = "nominal"
                      /\ \A i \in DOMAIN frames_ : frames_[i] <= now

\* "RETRY EVERY Nth FRAME": two reconstructions are RetryEvery frames apart, also with a
\* visual init given up in between.
AttemptsPaced == [][sinceSfm' = 0 => sinceSfm + 1 >= RetryEvery]_vars

\* A visual init that has had visual_init_max_seconds ends within a number of frames,
\* however its misses and its keyframes fall.
VisualInitGivesUp == overdue < KeyframeEvery * (VisualInitMaxMisses + 1)

\* What the caller is promised of the stages.
Promise == INSTANCE EstimatorLifecycle WITH Grace <- WarmupFrames, stage <- out.stage

KeepsLifecycle == Promise!Lifecycle

\* "The last solved frame IS the present": a pose handed out is the pose at the stamp
\* of the frame it is handed out with.
PoseIsOfItsFrame == out.stage \in {"Bootstrapped", "Tracking"} => out.pose = out.t

\* "WHICH STAGE FAILED": a reason names the stage that ended the attempt.
FailureNamesStage ==
  /\ last_failure_ = "[2]" => reached = "[2]"
  /\ last_failure_ = "[3]" => reached = "[3]"

===============================================================================
