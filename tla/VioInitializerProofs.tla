------------------------- MODULE VioInitializerProofs --------------------------
(***************************************************************************)
(* Proofs about VioInitializer, for every input, stream, window and stride:    *)
(* the reconstruction is in one ruler, its landmarks are all seen twice, every *)
(* interval is integrated exactly, and the answer is one of BootstrapOutcomes. *)
(***************************************************************************)
EXTENDS VioInitializer, ImuBufferProofs, StridesProofs

\* What every stage keeps: the ranges, and how far a loop has come.
LoopInv ==
  /\ frames \in Seq(SUBSET Ids) /\ frames # <<>>
  /\ k \in Nat
  /\ stage = "pair" => k >= FirstCandidate
  /\ stage = "pnp" => k >= Base
  /\ stage \in {"bias", "align"} => k >= 1
  /\ w = [second |-> w.second, pose |-> w.pose, landmark |-> w.landmark]
  /\ \A i \in Posed : i \in 1 .. Len(frames)

\* The window starts at one of the frames.
LEMMA BaseIsFrame ==
  ASSUME frames \in Seq(SUBSET Ids), frames # <<>>
  PROVE  Base \in 1 .. Len(frames) /\ Len(frames) \in Nat
<1> DEFINE L == Len(frames)  S == {1, L - WindowFrames + 1}
<1>1. L \in Nat /\ L >= 1 /\ WindowFrames \in Nat /\ WindowFrames >= 1
  BY SfmAssumption
<1> HIDE DEF L
<1>2. Max(S) \in S /\ \A x \in S : Max(S) >= x
  <2>1. \E x \in S : \A y \in S : x >= y
    BY <1>1
  <2> QED
    BY <2>1 DEF Max
<1> QED
  BY <1>1, <1>2 DEF Base, L

LEMMA LoopInit == Init => LoopInv
<1> SUFFICES ASSUME Init PROVE LoopInv
  OBVIOUS
<1> QED
  BY InitializerAssumption DEF Init, LoopInv, NoWindow, Posed

LEMMA LoopStep == LoopInv /\ [Next]_vars => LoopInv'
<1> SUFFICES ASSUME LoopInv, [Next]_vars PROVE LoopInv'
  OBVIOUS
<1> USE DEF LoopInv
<1>0. Base \in 1 .. Len(frames) /\ Len(frames) \in Nat
  BY BaseIsFrame
<1>1. frames' = frames /\ Base' = Base
  BY DEF Next, vars, reconstruction, TooFewFrames, Reconstruct, BasePair, RejectPair, AcceptPair,
     NoPair, PoseRemaining, LeaveUnposed, PoseFrame, WindowDone, FinishWindow, BundleAdjust,
     AcceptStep, RefuseStep, FinishBundle, StartBias, NoRotation, RotationPair, AtPair, SolveBias,
     AlignInterval, SolveAlign, Done, Base
<1> HIDE DEF LoopInv
<1>2. CASE TooFewFrames \/ Reconstruct
  BY <1>0, <1>1, <1>2 DEF TooFewFrames, Reconstruct, reconstruction, LoopInv, FirstCandidate, Posed
<1>3. CASE BasePair
  <2>1. CASE RejectPair
    BY <1>0, <1>1, <2>1 DEF RejectPair, LoopInv, FirstCandidate, Posed
  <2>2. CASE AcceptPair
    BY <1>0, <1>1, <2>2 DEF AcceptPair, LoopInv, FirstCandidate, Posed
  <2>3. CASE NoPair
    BY <1>0, <1>1, <2>3 DEF NoPair, LoopInv, FirstCandidate, Posed
  <2> QED
    BY <1>3, <2>1, <2>2, <2>3 DEF BasePair
<1>4. CASE PoseRemaining
  <2>1. CASE LeaveUnposed
    BY <1>0, <1>1, <2>1 DEF LeaveUnposed, LoopInv, Posed
  <2>2. CASE PoseFrame
    <3> DEFINE seen == Landmarks \cap frames[k]
               P(id) == [i \in Posed \cup {k} |-> IF i = k THEN w.landmark[id] ELSE w.pose[i]]
    <3>1. PICK id \in seen : w' = [w EXCEPT !.pose = P(id)]
      BY <2>2 DEF PoseFrame
    <3>2. DOMAIN P(id) = Posed \cup {k}
      OBVIOUS
    <3> HIDE DEF P, seen
    <3>3. w' = [second |-> w.second, pose |-> P(id), landmark |-> w.landmark]
      BY <3>1 DEF LoopInv
    <3>4. Posed' = Posed \cup {k}
      BY <3>2, <3>3 DEF Posed
    <3>5. k \in 1 .. Len(frames)
      BY <1>0, <2>2 DEF PoseFrame, LoopInv
    <3>6. stage' = "pnp" /\ k' = k + 1
      BY <2>2 DEF PoseFrame
    <3>7. w' = [second |-> w'.second, pose |-> w'.pose, landmark |-> w'.landmark]
      BY <3>3
    <3>8. \A i \in Posed' : i \in 1 .. Len(frames)
      BY <3>4, <3>5 DEF LoopInv
    <3>9. k' \in Nat /\ k' >= Base
      BY <1>0, <2>2, <3>6 DEF PoseFrame, LoopInv
    <3> QED
      BY <1>1, <3>6, <3>7, <3>8, <3>9 DEF LoopInv
  <2> QED
    BY <1>4, <2>1, <2>2 DEF PoseRemaining
<1>5. CASE WindowDone
  BY <1>0, <1>1, <1>5 DEF WindowDone, FinishWindow, LoopInv, Posed
<1>6. CASE BundleAdjust
  <2>1. CASE AcceptStep
    BY <1>0, <1>1, <2>1 DEF AcceptStep, Moved, LoopInv, Posed
  <2>2. CASE RefuseStep
    BY <1>0, <1>1, <2>2 DEF RefuseStep, LoopInv, Posed
  <2>3. CASE FinishBundle("buffer")
    BY <1>0, <1>1, <2>3 DEF FinishBundle, Rescaled, LoopInv, Posed
  <2> QED
    BY <1>6, <2>1, <2>2, <2>3 DEF BundleAdjust
<1>7. CASE StartBias \/ SolveBias \/ AlignInterval \/ SolveAlign
  BY <1>0, <1>1, <1>7 DEF StartBias, SolveBias, AlignInterval, SolveAlign, reconstruction, LoopInv,
     Posed
<1>8. CASE NoRotation \/ RotationPair
  BY <1>0, <1>1, <1>8, InitializerAssumption
     DEF NoRotation, RotationPair, AtPair, reconstruction, LoopInv, Posed
<1>9. CASE UNCHANGED vars
  BY <1>1, <1>9 DEF vars, LoopInv, Posed, FirstCandidate
<1> QED
  BY <1>2, <1>3, <1>4, <1>5, <1>6, <1>7, <1>8, <1>9 DEF Next, Done

-------------------------------------------------------------------------------
(***************************************************************************)
(* IntervalsExact: the samples are in order, and pre is what preintegrate      *)
(* makes of them.                                                           *)
(***************************************************************************)
IntervalInv ==
  /\ LoopInv
  /\ samples \in Buffers
  /\ stage \notin {"bias", "align"} => pre = NoInterval
  /\ \/ pre = NoInterval
     \/ \E t0, t1 \in Nat : pre = [t0 |-> t0, t1 |-> t1, held |-> Preintegrated(samples, t0, t1)]

LEMMA StampOfFrame == \A i \in Nat : Stamp(i) \in Nat
BY InitializerAssumption DEF Stamp

LEMMA AlignedAreFrames ==
  ASSUME LoopInv
  PROVE  Aligned \in Seq(Nat)
<1>1. Len(frames) \in Nat /\ \A i \in Posed : i \in 1 .. Len(frames)
  BY DEF LoopInv
<1>2. AlignStride \in Nat \ {0}
  BY InitializerAssumption
<1>3. Aligned \in Seq(Posed)
  BY <1>1, <1>2, StridedMembers DEF Aligned
<1>4. \A i \in Posed : i \in Nat
  BY <1>1
<1> QED
  BY <1>3, <1>4

LEMMA IntervalInit == Init => IntervalInv
<1> SUFFICES ASSUME Init PROVE IntervalInv
  OBVIOUS
<1>1. LoopInv
  BY LoopInit
<1>2. <<>> \in Buffers
  BY DEF Buffers, Increasing
<1> QED
  BY <1>1, <1>2 DEF Init, IntervalInv

LEMMA IntervalStep == IntervalInv /\ [Next]_vars => IntervalInv'
<1> SUFFICES ASSUME IntervalInv, [Next]_vars PROVE IntervalInv'
  OBVIOUS
<1>0. LoopInv /\ LoopInv'
  BY LoopStep DEF IntervalInv
<1>1. ASSUME UNCHANGED <<samples, pre>>, stage' \in {"bias", "align"} \/ pre = NoInterval
      PROVE  IntervalInv'
  BY <1>0, <1>1 DEF IntervalInv
<1>2. CASE TooFewFrames \/ Reconstruct \/ BasePair \/ PoseRemaining \/ WindowDone \/ BundleAdjust
  <2>1. UNCHANGED <<samples, pre>>
    BY <1>2 DEF TooFewFrames, Reconstruct, BasePair, PoseRemaining, WindowDone, BundleAdjust,
       Visually
  <2>2. stage \in {"run", "pair", "pnp", "bundle"}
    BY <1>2 DEF TooFewFrames, Reconstruct, BasePair, RejectPair, AcceptPair, NoPair, PoseRemaining,
       LeaveUnposed, PoseFrame, WindowDone, FinishWindow, BundleAdjust, AcceptStep, RefuseStep,
       FinishBundle
  <2> QED
    BY <1>1, <2>1, <2>2 DEF IntervalInv
<1>3. CASE StartBias
  <2>1. PICK s \in Streams : samples' = Buffered(s)
    BY <1>3 DEF StartBias, Buffer
  <2>2. s \in Seq(Sample)
    BY InitializerAssumption DEF Sample
  <2>3. samples' \in Buffers
    BY <2>1, <2>2, BufferedInOrder
  <2> QED
    BY <1>0, <1>3, <2>3 DEF StartBias, IntervalInv
<1>4. CASE NoRotation
  BY <1>1, <1>4 DEF NoRotation, AtPair
<1>5. CASE RotationPair
  <2>1. Stamp(k) \in Nat /\ Stamp(k + BiasGap) \in Nat
    BY <1>0, StampOfFrame, InitializerAssumption DEF LoopInv
  <2>2. samples' = samples /\ stage' = "bias"
    BY <1>5 DEF RotationPair, AtPair
  <2> QED
    BY <1>0, <1>5, <2>1, <2>2 DEF RotationPair, Integrate, IntervalInv
<1>6. CASE AlignInterval
  <2>1. k \in 1 .. Len(Aligned) /\ k + 1 \in 1 .. Len(Aligned)
    BY <1>0, <1>6, AlignedAreFrames DEF AlignInterval, LoopInv
  <2>2. Stamp(Aligned[k]) \in Nat /\ Stamp(Aligned[k + 1]) \in Nat
    <3>1. Aligned \in Seq(Nat)
      BY <1>0, AlignedAreFrames
    <3>2. Aligned[k] \in Nat /\ Aligned[k + 1] \in Nat
      BY <2>1, <3>1
    <3> QED
      BY <3>2, StampOfFrame
  <2>3. samples' = samples /\ stage' = "align"
    BY <1>6 DEF AlignInterval
  <2> QED
    BY <1>0, <1>6, <2>2, <2>3 DEF AlignInterval, Integrate, IntervalInv
<1>7. CASE SolveBias \/ SolveAlign
  BY <1>0, <1>7 DEF SolveBias, SolveAlign, IntervalInv
<1>8. CASE UNCHANGED vars
  BY <1>0, <1>8 DEF vars, IntervalInv
<1> QED
  BY <1>2, <1>3, <1>4, <1>5, <1>6, <1>7, <1>8 DEF Next, Done

\* Every interval the bias and the alignment integrate is exactly the time between its frames.
THEOREM IntegratedExactly == Spec => []IntervalsExact
<1>1. IntervalInv => IntervalsExact
  <2> SUFFICES ASSUME IntervalInv, pre # NoInterval PROVE Exact(samples, pre.t0, pre.t1, pre.held)
    BY DEF IntervalsExact
  <2>1. PICK t0, t1 \in Nat : pre = [t0 |-> t0, t1 |-> t1, held |-> Preintegrated(samples, t0, t1)]
    BY DEF IntervalInv
  <2>2. Exact(samples, t0, t1, Preintegrated(samples, t0, t1))
    BY PreintegratedExactly DEF IntervalInv
  <2>3. pre.t0 = t0 /\ pre.t1 = t1 /\ pre.held = Preintegrated(samples, t0, t1)
    BY <2>1
  <2> QED
    BY <2>2, <2>3
<1> QED
  BY <1>1, IntervalInit, IntervalStep, PTL DEF Spec

-------------------------------------------------------------------------------
(***************************************************************************)
(* OneRuler and SeenTwice.  While the bundle adjustment runs, everything but   *)
(* the base is off by one common factor; that it is common needs every         *)
(* landmark to be one the solve moves, which is SeenTwice.                     *)
(***************************************************************************)
Scaled(second, stretch) == [pair |-> second, stretch |-> stretch]

Ruled(second, pose, landmark, d) ==
  /\ \A i \in DOMAIN pose : pose[i] = Scaled(second, IF i = Base THEN 0 ELSE d)
  /\ \A id \in DOMAIN landmark : landmark[id] = Scaled(second, d)

SeenByTwo(id, posed) == \E i, j \in posed : i # j /\ id \in frames[i] /\ id \in frames[j]

RulerInv ==
  /\ LoopInv
  /\ stage \in {"pnp", "bundle"} => w.second \in Posed /\ w.second # Base
  /\ \A id \in Landmarks : SeenByTwo(id, Posed)
  /\ \E d \in Int : /\ stage # "bundle" \/ FixPairFrame => d = 0
                   /\ Ruled(w.second, w.pose, w.landmark, d)

\* Cardinality(Views(id)) >= 2, without the cardinality.
LEMMA TwoViews ==
  ASSUME LoopInv, NEW id
  PROVE  Cardinality(Views(id)) >= 2 <=> SeenByTwo(id, Posed)
<1> DEFINE V == Views(id)
<1>1. IsFiniteSet(V) /\ Cardinality(V) \in Nat
  <2>1. V \subseteq 1 .. Len(frames)
    BY DEF Views, LoopInv
  <2>2. IsFiniteSet(1 .. Len(frames))
    BY FS_Interval DEF LoopInv
  <2> HIDE DEF V
  <2> QED
    BY <2>1, <2>2, FS_Subset, FS_CardinalityType
<1>2. SeenByTwo(id, Posed) <=> \E i, j \in V : i # j
  BY DEF SeenByTwo, Views
<1> HIDE DEF V
<1>3. ASSUME \E i, j \in V : i # j
      PROVE  Cardinality(V) >= 2
  <2>1. PICK i \in V, j \in V : i # j
    BY <1>3
  <2>2. Cardinality({i, j}) = 2
    <3>1. {i, j} = {i} \cup {j} /\ j \notin {i}
      BY <2>1
    <3>2. IsFiniteSet({i}) /\ Cardinality({i}) = 1
      BY FS_Singleton
    <3>3. Cardinality({i} \cup {j}) = Cardinality({i}) + 1
      BY <3>1, <3>2, FS_AddElement
    <3> QED
      BY <3>1, <3>2, <3>3
  <2>3. {i, j} \subseteq V
    BY <2>1
  <2>4. Cardinality({i, j}) <= Cardinality(V)
    BY <1>1, <2>3, FS_Subset
  <2> QED
    BY <1>1, <2>2, <2>4
<1>4. ASSUME ~ \E i, j \in V : i # j
      PROVE  ~ (Cardinality(V) >= 2)
  <2>1. CASE V = {}
    BY <2>1, FS_EmptySet
  <2>2. CASE V # {}
    <3>1. PICK i \in V : TRUE
      BY <2>2
    <3>2. V = {i}
      BY <1>4, <3>1
    <3>3. Cardinality({i}) = 1
      BY FS_Singleton
    <3> QED
      BY <3>2, <3>3
  <2> QED
    BY <2>1, <2>2
<1> QED
  BY <1>2, <1>3, <1>4 DEF V

\* The first posed view of a track that has one.
LEMMA FirstView ==
  ASSUME LoopInv, NEW id, SeenByTwo(id, Posed)
  PROVE  Min(Views(id)) \in Posed
<1>1. Views(id) \in SUBSET Nat
  BY DEF Views, LoopInv
<1>2. Views(id) # {}
  BY DEF Views, SeenByTwo
<1>3. PICK m \in Views(id) : \A i \in Views(id) : m <= i
  BY <1>1, <1>2, LeastNatural
<1>4. Min(Views(id)) \in Views(id)
  BY <1>3 DEF Min
<1> QED
  BY <1>4 DEF Views

LEMMA RulerInit == Init => RulerInv
<1> SUFFICES ASSUME Init PROVE RulerInv
  OBVIOUS
<1>1. LoopInv
  BY LoopInit
<1>2. Posed = {} /\ Landmarks = {} /\ DOMAIN w.pose = {} /\ DOMAIN w.landmark = {} /\ stage = "run"
  BY DEF Init, NoWindow, Posed, Landmarks
<1>3. Ruled(w.second, w.pose, w.landmark, 0)
  BY <1>2 DEF Ruled
<1> QED
  BY <1>1, <1>2, <1>3 DEF RulerInv

\* The base pair invents the ruler.
LEMMA AcceptPairRules ==
  ASSUME RulerInv, LoopInv', AcceptPair
  PROVE  RulerInv'
<1>1. PICK trial \in SUBSET Shared(Base, k) :
        w' = [second   |-> k,
              pose     |-> [i \in {Base, k} |-> Ruler(k)],
              landmark |-> [id \in trial |-> Ruler(k)]]
  BY DEF AcceptPair, Triangulable
<1>2. frames' = frames /\ Base' = Base /\ stage' = "pnp"
  BY DEF AcceptPair, Base
<1>3. Base # k
  BY BaseIsFrame DEF AcceptPair, FirstCandidate, RulerInv, LoopInv
<1>4. Posed' = {Base, k} /\ Landmarks' = trial /\ w'.second = k
  BY <1>1 DEF Posed, Landmarks
<1>5. \A id \in trial : id \in frames[Base] /\ id \in frames[k]
  BY DEF Shared
<1>6. \A id \in Landmarks' : SeenByTwo(id, Posed)'
  BY <1>2, <1>3, <1>4, <1>5 DEF SeenByTwo
<1>7. Ruled(w.second, w.pose, w.landmark, 0)'
  BY <1>1, <1>2 DEF Ruled, Ruler, Scaled
<1> QED
  BY <1>2, <1>3, <1>4, <1>6, <1>7 DEF RulerInv

\* PnP hands it on to a frame.
LEMMA PoseFrameRules ==
  ASSUME RulerInv, LoopInv', PoseFrame
  PROVE  RulerInv'
<1> DEFINE P(id) == [i \in Posed \cup {k} |-> IF i = k THEN w.landmark[id] ELSE w.pose[i]]
<1>1. PICK id \in Landmarks : w' = [w EXCEPT !.pose = P(id)]
  BY DEF PoseFrame
<1>2. frames' = frames /\ Base' = Base /\ stage = "pnp" /\ stage' = "pnp" /\ k \notin Posed
  BY DEF PoseFrame, Base
<1>3. DOMAIN P(id) = Posed \cup {k} /\ P(id)[k] = w.landmark[id]
      /\ \A i \in Posed : P(id)[i] = w.pose[i]
  BY <1>2
<1>4. Ruled(w.second, w.pose, w.landmark, 0)
  BY <1>2 DEF RulerInv
<1> HIDE DEF P
<1>5. w' = [second |-> w.second, pose |-> P(id), landmark |-> w.landmark]
  BY <1>1 DEF RulerInv, LoopInv
<1>6. Posed' = Posed \cup {k} /\ Landmarks' = Landmarks /\ w'.second = w.second
  BY <1>3, <1>5 DEF Posed, Landmarks
<1>7. Ruled(w.second, w.pose, w.landmark, 0)'
  <2>1. P(id)[k] = Scaled(w.second, 0) /\ \A i \in Posed : P(id)[i] = Scaled(w.second, 0)
    BY <1>3, <1>4 DEF Ruled, Posed, Landmarks
  <2>2. \A i \in DOMAIN P(id) : P(id)[i] = Scaled(w.second, IF i = Base THEN 0 ELSE 0)
    BY <1>3, <2>1
  <2> QED
    BY <1>2, <1>4, <1>5, <2>2 DEF Ruled
<1>8. \A x \in Landmarks' : SeenByTwo(x, Posed)'
  BY <1>2, <1>6 DEF RulerInv, SeenByTwo
<1>9. w'.second \in Posed' /\ w'.second # Base'
  BY <1>2, <1>6 DEF RulerInv
<1> QED
  BY <1>2, <1>7, <1>8, <1>9 DEF RulerInv

\* A track of the window takes it from the first posed frame that sees it.
LEMMA FinishWindowRules ==
  ASSUME RulerInv, LoopInv', NEW next \in {"bundle", "buffer"}, FinishWindow(next)
  PROVE  RulerInv'
<1> DEFINE Q(more) == [id \in Landmarks \cup more |->
                         IF id \in more THEN w.pose[Min(Views(id))] ELSE w.landmark[id]]
<1>0. LoopInv
  BY DEF RulerInv
<1>1. PICK more \in SUBSET Spanned : w' = [w EXCEPT !.landmark = Q(more)]
  BY DEF FinishWindow, Triangulable
<1>2. frames' = frames /\ Base' = Base /\ stage = "pnp" /\ stage' \in {"bundle", "buffer", "done"}
  BY DEF FinishWindow, Base
<1>3. Ruled(w.second, w.pose, w.landmark, 0)
  BY <1>2 DEF RulerInv
<1>4. \A id \in more : SeenByTwo(id, Posed)
  BY <1>0, TwoViews DEF Spanned
<1>5. \A id \in more : w.pose[Min(Views(id))] = Scaled(w.second, 0)
  BY <1>0, <1>3, <1>4, FirstView DEF Ruled, Posed
<1>6. /\ DOMAIN Q(more) = Landmarks \cup more
      /\ \A id \in DOMAIN Q(more) : Q(more)[id] = Scaled(w.second, 0)
  BY <1>3, <1>5 DEF Ruled, Landmarks
<1> HIDE DEF Q
<1>7. w' = [second |-> w.second, pose |-> w.pose, landmark |-> Q(more)]
  BY <1>0, <1>1 DEF LoopInv
<1>8. Posed' = Posed /\ Landmarks' = Landmarks \cup more /\ w'.second = w.second
  BY <1>6, <1>7 DEF Posed, Landmarks
<1>9. Ruled(w.second, w.pose, w.landmark, 0)'
  BY <1>2, <1>3, <1>6, <1>7 DEF Ruled
<1>10. \A id \in Landmarks' : SeenByTwo(id, Posed)'
  BY <1>2, <1>4, <1>8 DEF RulerInv, SeenByTwo
<1> QED
  BY <1>2, <1>8, <1>9, <1>10 DEF RulerInv

\* An accepted step stretches all that is free by the same factor, and all but the base is.
LEMMA AcceptStepRules ==
  ASSUME RulerInv, LoopInv', AcceptStep
  PROVE  RulerInv'
<1>0. LoopInv /\ FixPairFrame \in BOOLEAN
  BY BundleAssumption DEF RulerInv
<1>1. PICK e \in IF FixPairFrame THEN {0} ELSE {0, 1} : w' = Moved(e)
  BY DEF AcceptStep
<1>2. frames' = frames /\ Base' = Base /\ stage = "bundle" /\ stage' = "bundle"
  BY DEF AcceptStep, Base
<1>3. PICK d \in Int : /\ FixPairFrame => d = 0
                      /\ Ruled(w.second, w.pose, w.landmark, d)
  BY <1>2 DEF RulerInv
<1>4. e \in Int /\ (FixPairFrame => e = 0)
  BY <1>0, <1>1
<1> DEFINE P == [i \in Posed |-> IF i \in FreeFrames THEN StretchedBy(w.pose[i], e) ELSE w.pose[i]]
           Q == [id \in Landmarks |-> IF id \in FreeLandmarks THEN StretchedBy(w.landmark[id], e)
                                                               ELSE w.landmark[id]]
<1>5. \A x \in Int : StretchedBy(Scaled(w.second, x), e) = Scaled(w.second, x + e)
  BY DEF StretchedBy, Scaled
<1>6. DOMAIN P = Posed /\ \A i \in Posed : P[i] = Scaled(w.second, IF i = Base THEN 0 ELSE d + e)
  <2> SUFFICES ASSUME NEW i \in Posed
               PROVE  P[i] = Scaled(w.second, IF i = Base THEN 0 ELSE d + e)
    OBVIOUS
  <2>1. w.pose[i] = Scaled(w.second, IF i = Base THEN 0 ELSE d)
    BY <1>3 DEF Ruled, Posed
  <2>2. CASE i \in FreeFrames
    <3>1. i # Base
      BY <2>2 DEF FreeFrames
    <3> QED
      BY <1>5, <2>1, <2>2, <3>1
  <2>3. CASE i \notin FreeFrames
    <3>1. i = Base \/ FixPairFrame
      BY <1>0, <2>3 DEF FreeFrames
    <3> QED
      BY <1>3, <1>4, <2>1, <2>3, <3>1
  <2> QED
    BY <2>2, <2>3
<1>7. DOMAIN Q = Landmarks /\ \A id \in Landmarks : Q[id] = Scaled(w.second, d + e)
  <2>1. \A id \in Landmarks : id \in FreeLandmarks
    BY <1>0, TwoViews DEF FreeLandmarks, RulerInv
  <2>2. \A id \in Landmarks : w.landmark[id] = Scaled(w.second, d)
    BY <1>3 DEF Ruled, Landmarks
  <2> QED
    BY <1>3, <1>5, <2>1, <2>2
<1>8. w' = [w EXCEPT !.pose = P, !.landmark = Q]
  BY <1>1 DEF Moved
<1> HIDE DEF P, Q
<1>9. w' = [second |-> w.second, pose |-> P, landmark |-> Q]
  BY <1>0, <1>8 DEF LoopInv
<1>10. Posed' = Posed /\ Landmarks' = Landmarks /\ w'.second = w.second
  BY <1>6, <1>7, <1>9 DEF Posed, Landmarks
<1>11. Ruled(w.second, w.pose, w.landmark, d + e)'
  BY <1>2, <1>6, <1>7, <1>9 DEF Ruled
<1>12. \A id \in Landmarks' : SeenByTwo(id, Posed)'
  BY <1>2, <1>10 DEF RulerInv, SeenByTwo
<1>13. d + e \in Int /\ (FixPairFrame => d + e = 0)
  BY <1>3, <1>4
<1>14. w'.second \in Posed' /\ w'.second # Base'
  BY <1>2, <1>10 DEF RulerInv
<1> QED
  BY <1>2, <1>11, <1>12, <1>13, <1>14 DEF RulerInv

\* Rescaling by the partner's pose undoes them all at once.
LEMMA FinishBundleRules ==
  ASSUME RulerInv, LoopInv', FinishBundle("buffer")
  PROVE  RulerInv'
<1>0. LoopInv /\ FixPairFrame \in BOOLEAN
  BY BundleAssumption DEF RulerInv
<1>1. /\ frames' = frames /\ Base' = Base /\ stage = "bundle" /\ stage' = "buffer"
      /\ w' = Rescaled
  BY DEF FinishBundle, Base
<1>2. PICK d \in Int : /\ FixPairFrame => d = 0
                      /\ Ruled(w.second, w.pose, w.landmark, d)
  BY <1>1 DEF RulerInv
<1>3. CASE FixPairFrame
  <2>1. w' = w
    BY <1>1, <1>3 DEF Rescaled
  <2> QED
    BY <1>1, <1>2, <1>3, <2>1 DEF RulerInv, Posed, Landmarks, SeenByTwo, Ruled
<1>4. CASE ~ FixPairFrame
  <2>1. w.pose[w.second] = Scaled(w.second, d)
    BY <1>1, <1>2 DEF RulerInv, Ruled, Posed
  <2> DEFINE q == w.pose[w.second]
             P == [i \in Posed |-> RescaledPose(i, q)]
             Q == [id \in Landmarks |-> RescaledLandmark(id, q)]
  <2>2. /\ q.stretch = d
        /\ \A x \in Int : StretchedBy(Scaled(w.second, x), -q.stretch) = Scaled(w.second, x - d)
    BY <2>1 DEF StretchedBy, Scaled
  <2>3. w' = [w EXCEPT !.pose = P, !.landmark = Q]
    BY <1>1, <1>4 DEF Rescaled
  <2> HIDE DEF q
  <2>4. DOMAIN P = Posed /\ \A i \in Posed : P[i] = Scaled(w.second, 0)
    <3>1. ASSUME NEW i \in Posed
          PROVE  RescaledPose(i, q) = Scaled(w.second, 0)
      <4>1. w.pose[i] = Scaled(w.second, IF i = Base THEN 0 ELSE d)
        BY <1>2 DEF Ruled, Posed
      <4>2. d - d = 0
        OBVIOUS
      <4> QED
        BY <2>2, <4>1, <4>2 DEF RescaledPose
    <3> QED
      BY <3>1
  <2>5. DOMAIN Q = Landmarks /\ \A id \in Landmarks : Q[id] = Scaled(w.second, 0)
    <3>1. ASSUME NEW id \in Landmarks
          PROVE  RescaledLandmark(id, q) = Scaled(w.second, 0)
      <4>1. w.landmark[id] = Scaled(w.second, d)
        BY <1>2 DEF Ruled, Landmarks
      <4>2. d - d = 0
        OBVIOUS
      <4> QED
        BY <2>2, <4>1, <4>2 DEF RescaledLandmark
    <3> QED
      BY <3>1
  <2> HIDE DEF P, Q
  <2>6. w' = [second |-> w.second, pose |-> P, landmark |-> Q]
    BY <1>0, <2>3 DEF LoopInv
  <2>7. Posed' = Posed /\ Landmarks' = Landmarks /\ w'.second = w.second
    BY <2>4, <2>5, <2>6 DEF Posed, Landmarks
  <2>8. Ruled(w.second, w.pose, w.landmark, 0)'
    BY <1>1, <2>4, <2>5, <2>6 DEF Ruled
  <2>9. \A id \in Landmarks' : SeenByTwo(id, Posed)'
    BY <1>1, <2>7 DEF RulerInv, SeenByTwo
  <2> QED
    BY <1>1, <2>8, <2>9 DEF RulerInv
<1> QED
  BY <1>0, <1>3, <1>4

LEMMA RulerStep == RulerInv /\ [Next]_vars => RulerInv'
<1> SUFFICES ASSUME RulerInv, [Next]_vars PROVE RulerInv'
  OBVIOUS
<1>0. LoopInv'
  BY LoopStep DEF RulerInv
<1>1. ASSUME UNCHANGED <<frames, w>>,
             stage' \in {"pnp", "bundle"} => stage' = stage,
             stage = "bundle" => stage' = "bundle"
      PROVE  RulerInv'
  <2>1. Posed' = Posed /\ Landmarks' = Landmarks /\ Base' = Base
    BY <1>1 DEF Posed, Landmarks, Base
  <2>2. PICK d \in Int : /\ stage # "bundle" \/ FixPairFrame => d = 0
                        /\ Ruled(w.second, w.pose, w.landmark, d)
    BY DEF RulerInv
  <2>3. Ruled(w.second, w.pose, w.landmark, d)'
    BY <1>1, <2>1, <2>2 DEF Ruled
  <2>4. \A id \in Landmarks' : SeenByTwo(id, Posed)'
    BY <1>1, <2>1 DEF RulerInv, SeenByTwo
  <2>5. stage' # "bundle" \/ FixPairFrame => d = 0
    BY <1>1, <2>2
  <2>6. stage' \in {"pnp", "bundle"} => w'.second \in Posed' /\ w'.second # Base'
    BY <1>1, <2>1 DEF RulerInv
  <2> QED
    BY <1>0, <2>3, <2>4, <2>5, <2>6 DEF RulerInv
<1>2. CASE TooFewFrames \/ Reconstruct \/ StartBias \/ NoRotation \/ RotationPair \/ SolveBias
           \/ AlignInterval \/ SolveAlign
  BY <1>1, <1>2 DEF TooFewFrames, Reconstruct, StartBias, NoRotation, RotationPair, AtPair,
     SolveBias,
     AlignInterval, SolveAlign, reconstruction
<1>3. CASE BasePair
  <2>1. CASE RejectPair \/ NoPair
    BY <1>1, <2>1 DEF RejectPair, NoPair
  <2>2. CASE AcceptPair
    BY <1>0, <2>2, AcceptPairRules
  <2> QED
    BY <1>3, <2>1, <2>2 DEF BasePair
<1>4. CASE PoseRemaining
  <2>1. CASE LeaveUnposed
    BY <1>1, <2>1 DEF LeaveUnposed
  <2>2. CASE PoseFrame
    BY <1>0, <2>2, PoseFrameRules
  <2> QED
    BY <1>4, <2>1, <2>2 DEF PoseRemaining
<1>5. CASE WindowDone
  BY <1>0, <1>5, FinishWindowRules DEF WindowDone
<1>6. CASE BundleAdjust
  <2>1. CASE RefuseStep
    BY <1>1, <2>1 DEF RefuseStep
  <2> QED
    BY <1>0, <1>6, <2>1, AcceptStepRules, FinishBundleRules DEF BundleAdjust
<1>7. CASE UNCHANGED vars
  BY <1>1, <1>7 DEF vars
<1> QED
  BY <1>2, <1>3, <1>4, <1>5, <1>6, <1>7 DEF Next, Done

\* Whatever PnP, the window's tracks and the bundle adjustment do, the reconstruction leaves
\* them in the ruler of its base pair.
THEOREM StaysInOneRuler == Spec => []OneRuler
<1>1. RulerInv => OneRuler
  BY DEF RulerInv, Ruled, OneRuler, Ruler, Scaled, Posed, Landmarks
<1> QED
  BY <1>1, RulerInit, RulerStep, PTL DEF Spec

\* Every landmark of a reconstruction is one that the bundle adjustment moves.
THEOREM AllSeenTwice == Spec => []SeenTwice
<1>1. RulerInv => SeenTwice
  BY TwoViews DEF RulerInv, SeenTwice
<1> QED
  BY <1>1, RulerInit, RulerStep, PTL DEF Spec

-------------------------------------------------------------------------------
(***************************************************************************)
(* OutcomeAllowed.  The loops count what BootstrapOutcomes counts: the gyro    *)
(* pairs are some of the whole intervals a gap apart that lie behind the loop,  *)
(* the alignment's are all those between aligned frames behind it; and an      *)
(* interval between two frames is whole when all the ticks in it are.          *)
(***************************************************************************)
\* The comparable pairs that begin before frame n, and the aligned intervals before the n-th.
PairsBefore(n) ==
  {i \in 1 .. Len(frames) - BiasGap : (i - 1) % BiasGap = 0 /\ i < n /\ Whole(i, i + BiasGap)}

WholeBefore(n) == {i \in 1 .. n - 1 : Whole(Aligned[i], Aligned[i + 1])}

\* Which frames can have a pose, and when there have to be enough of them.
PosedInv ==
  /\ stage \in {"run", "pair"} => Posed = {}
  /\ stage \notin {"run", "pair", "done"} => Posed # {}
  /\ Posed # {} => Base \in Posed /\ \E i \in Posed : i >= FirstCandidate
  /\ \A i \in Posed : i >= Base
  /\ stage \notin {"run", "done"} => Base + 3 <= Len(frames)
  /\ stage \in {"bundle", "buffer", "bias", "align"} => Cardinality(Posed) >= MinPosed

\* How far the two counts have come.
CountInv ==
  /\ pairs \in Nat
  /\ stage \notin {"bias", "align", "done"} => pairs = 0
  /\ stage \notin {"align", "done"} => intervals = 0 /\ solution = "none"
  /\ stage = "bias" => (k - 1) % BiasGap = 0 /\ pairs <= Cardinality(PairsBefore(k))
  /\ stage = "align" =>
       /\ BiasMinPairs <= pairs /\ pairs <= Cardinality(PairsBefore(Len(frames)))
       /\ Len(Aligned) >= 3 => k <= Len(Aligned) /\ intervals = Cardinality(WholeBefore(k))
       /\ Len(Aligned) < 3 => intervals = 0
       /\ solution = "none"

OutcomeInv == IntervalInv /\ PosedInv /\ CountInv /\ OutcomeAllowed

\* Arithmetic of the gaps: the loop's index stays on the grid the pairs are on.
LEMMA NextMultiple ==
  ASSUME NEW a \in Nat, NEW b \in Nat \ {0}, a % b = 0
  PROVE  (a + b) % b = 0
<1> DEFINE d == a \div b  e == (a + b) \div b  r == (a + b) % b
<1>1. d \in Int /\ a = b * d
  BY Z3
<1>2. e \in Int /\ r \in 0 .. b - 1 /\ a + b = b * e + r
  BY Z3
<1> HIDE DEF d, e, r
<1>3. r = b * (d + 1 - e)
  BY <1>1, <1>2, Z3
<1>4. \A x \in Int : x >= 1 => b * x >= b
  BY Z3
<1>5. \A x \in Int : x <= -1 => b * x <= -b
  BY Z3
<1>6. d + 1 - e = 0
  BY <1>1, <1>2, <1>3, <1>4, <1>5
<1>7. b * 0 = 0
  OBVIOUS
<1>8. r = 0
  BY <1>3, <1>6, <1>7
<1> QED
  BY <1>8 DEF r

\* Stamps are as the frames are.
LEMMA StampsRise ==
  ASSUME NEW i \in Nat, NEW j \in Nat
  PROVE  /\ Stamp(i) \in Nat
         /\ i < j => Stamp(i) < Stamp(j)
         /\ i <= j => Stamp(i) <= Stamp(j)
         /\ ~ (i < j) => ~ (Stamp(i) < Stamp(j))
<1>1. Period \in Nat /\ Period >= 1
  BY InitializerAssumption
<1>2. \A x, y \in Nat : x < y => x * Period < y * Period
  BY <1>1, Z3
<1> QED
  BY <1>1, <1>2, StampOfFrame DEF Stamp

\* An instant between two frames lies in the tick of one of them.
LEMMA InOneTick ==
  ASSUME NEW i \in Nat, NEW j \in Nat, NEW u \in Stamp(i) .. Stamp(j) - 1
  PROVE  \E m \in i + 1 .. j : u \in Stamp(m - 1) .. Stamp(m) - 1
<1> DEFINE I == {m \in Nat : u < Stamp(m)}
<1>0. Stamp(i) \in Nat /\ Stamp(j) \in Nat
  BY StampsRise
<1>1. I \in SUBSET Nat /\ j \in I
  BY <1>0
<1>2. PICK m \in I : \A n \in I : m <= n
  BY <1>1, LeastOf
<1>3. m \in Nat /\ u < Stamp(m) /\ m <= j
  BY <1>1, <1>2
<1>4. i < m
  BY <1>0, <1>3, StampsRise
<1>5. m - 1 \in Nat /\ m - 1 \notin I
  BY <1>2, <1>3, <1>4
<1>6. Stamp(m - 1) <= u
  BY <1>0, <1>5, StampsRise
<1>7. Stamp(m) \in Nat /\ Stamp(m - 1) \in Nat
  BY <1>3, <1>5, StampsRise
<1> QED
  BY <1>0, <1>3, <1>4, <1>6, <1>7

\* Between two frames the samples are whole when the ticks are.
LEMMA WholeByTicks ==
  ASSUME samples \in Buffers, Len(frames) \in Nat,
         NEW i \in 1 .. Len(frames), NEW j \in 1 .. Len(frames)
  PROVE  Whole(i, j) <=> Outcome!Continuous(Covered, i, j)
<1>1. CASE ~ (i < j)
  <2>1. ~ (Stamp(i) < Stamp(j))
    BY <1>1, StampsRise
  <2> QED
    BY <1>1, <2>1 DEF Whole, Continuous, Outcome!Continuous
<1>2. CASE i < j
  <2>0. Stamp(i) \in Nat /\ Stamp(j) \in Nat /\ Stamp(i) < Stamp(j)
    BY <1>2, StampsRise
  <2>1. Whole(i, j) <=> Measured(samples, Stamp(i), Stamp(j))
    BY <2>0, ContinuousIsMeasured DEF Whole
  <2>2. ASSUME NEW m \in i + 1 .. j
        PROVE  /\ m \in 2 .. Len(frames) /\ m - 1 \in Nat /\ m \in Nat
               /\ Whole(m - 1, m) <=> Measured(samples, Stamp(m - 1), Stamp(m))
    <3>1. m \in 2 .. Len(frames) /\ m - 1 \in Nat /\ m \in Nat /\ m - 1 < m
      OBVIOUS
    <3>2. Stamp(m - 1) \in Nat /\ Stamp(m) \in Nat /\ Stamp(m - 1) < Stamp(m)
      BY <3>1, StampsRise
    <3> QED
      BY <3>1, <3>2, ContinuousIsMeasured DEF Whole
  <2>3. Outcome!Continuous(Covered, i, j) <=> \A m \in i + 1 .. j : Whole(m - 1, m)
    BY <1>2, <2>2 DEF Outcome!Continuous, Covered
  <2>4. ASSUME Measured(samples, Stamp(i), Stamp(j)), NEW m \in i + 1 .. j
        PROVE  Whole(m - 1, m)
    <3>1. m - 1 \in Nat /\ m \in Nat /\ i <= m - 1 /\ m <= j
      OBVIOUS
    <3>2. Stamp(i) <= Stamp(m - 1) /\ Stamp(m) <= Stamp(j)
      BY <3>1, StampsRise
    <3>3. Stamp(m - 1) \in Nat /\ Stamp(m) \in Nat
      BY <3>1, StampsRise
    <3>4. \A u \in Stamp(m - 1) .. Stamp(m) - 1 : u \in Stamp(i) .. Stamp(j) - 1
      BY <2>0, <3>2, <3>3
    <3> QED
      BY <2>2, <2>4, <3>4 DEF Measured
  <2>5. ASSUME \A m \in i + 1 .. j : Whole(m - 1, m), NEW u \in Stamp(i) .. Stamp(j) - 1
        PROVE  \E s \in InForce(samples, u) : Good(samples, s)
    <3>1. PICK m \in i + 1 .. j : u \in Stamp(m - 1) .. Stamp(m) - 1
      BY InOneTick
    <3>2. Measured(samples, Stamp(m - 1), Stamp(m))
      BY <2>2, <2>5
    <3> QED
      BY <3>1, <3>2 DEF Measured
  <2>6. (\A m \in i + 1 .. j : Whole(m - 1, m)) => Measured(samples, Stamp(i), Stamp(j))
    BY <2>5 DEF Measured
  <2> QED
    BY <2>1, <2>3, <2>4, <2>6
<1> QED
  BY <1>1, <1>2

-------------------------------------------------------------------------------
\* What BootstrapOutcomes says of n frames whose stamps are their places.
Places(n)  == [i \in 1 .. n |-> i]
FirstOf(n) == Max({1, n - WindowFrames + 1})

Answer(P, c, m, s) == [posed |-> P, pairs |-> c, intervals |-> m, solution |-> s]

\* An instance has its own copy of what its module extends.
LEMMA SameCount == \A S : Outcome!Cardinality(S) = Cardinality(S)
BY Zenon DEF Outcome!Cardinality, Cardinality

LEMMA SameStrides == \A P, n : Outcome!Strided(P, n) = Strided(P, n)
BY Zenon DEF Outcome!Strided, Strided, Outcome!Cardinality, Cardinality

\* The window of n frames, as a set of places.
LEMMA WindowPlaces ==
  ASSUME NEW n \in Nat \ {0}
  PROVE  /\ FirstOf(n) \in 1 .. n
         /\ Outcome!SfmWindow(Places(n)) = FirstOf(n) .. n
         /\ Outcome!Min(FirstOf(n) .. n) = FirstOf(n)
         /\ Len(Places(n)) = n
         /\ Cardinality(FirstOf(n) .. n) = n - FirstOf(n) + 1
<1> DEFINE S == {1, n - WindowFrames + 1}
<1>0. WindowFrames \in Nat /\ WindowFrames >= 1
  BY SfmAssumption
<1>1. Max(S) \in S /\ \A x \in S : Max(S) >= x
  <2>1. \E x \in S : \A y \in S : x >= y
    BY <1>0
  <2> QED
    BY <2>1 DEF Max
<1>2. FirstOf(n) \in 1 .. n
  BY <1>0, <1>1 DEF FirstOf
<1>3. Len(Places(n)) = n
  BY DEF Places
<1>4. Outcome!SfmWindow(Places(n)) = FirstOf(n) .. n
  BY <1>3 DEF Outcome!SfmWindow, FirstOf, Outcome!Max, Max
<1>5. Outcome!Min(FirstOf(n) .. n) = FirstOf(n)
  <2> DEFINE f == FirstOf(n)
  <2>1. f \in Nat /\ f <= n
    BY <1>2
  <2> HIDE DEF f
  <2>2. \A x \in f .. n : (\A y \in f .. n : x <= y) <=> x = f
    BY <2>1
  <2>3. f \in f .. n
    BY <2>1
  <2>4. Outcome!Min(f .. n) = f
    BY <2>2, <2>3 DEF Outcome!Min
  <2> QED
    BY <2>4 DEF f
<1>6. Cardinality(FirstOf(n) .. n) = n - FirstOf(n) + 1
  BY <1>2, FS_Interval
<1> QED
  BY <1>2, <1>3, <1>4, <1>5, <1>6

\* The poses a reconstruction can have: none, or the base's and a partner's at least.
Reconstructed(n, P) ==
  \/ P = {}
  \/ /\ \A i \in P : i \in FirstOf(n) .. n
     /\ FirstOf(n) \in P
     /\ \E i \in P : i >= FirstOf(n) + 2

LEMMA PosesAllowed ==
  ASSUME NEW n \in Nat \ {0}, NEW P, Reconstructed(n, P)
  PROVE  P \in Outcome!Reconstructions(Places(n))
BY WindowPlaces DEF Outcome!Reconstructions, Reconstructed

\* Too few frames.
LEMMA EmptyAllowed ==
  ASSUME NEW n \in Nat \ {0}, NEW c, FirstOf(n) + 3 > n
  PROVE  Answer({}, 0, 0, "none") \in Outcome!Results(Places(n), c)
<1>1. Len(Places(n)) - Outcome!Cardinality(Outcome!SfmWindow(Places(n))) + 3 >= Len(Places(n))
  BY WindowPlaces, SameCount
<1> QED
  BY <1>1 DEF Outcome!Results, Answer

\* How many pairs of the gyro bias there are, at most.
LEMMA MeasurableCounted ==
  ASSUME NEW n \in Nat \ {0}, NEW c
  PROVE  Outcome!MeasurablePairs(Places(n), c) \in Nat
<1> DEFINE V == {i \in 1 .. Len(Places(n)) - BiasGap :
                   (i - 1) % BiasGap = 0
                   /\ Outcome!Continuous(c, Places(n)[i], Places(n)[i + BiasGap])}
<1>1. Len(Places(n)) = n /\ BiasGap \in Nat
  BY WindowPlaces, InitializerAssumption
<1>2. V \in SUBSET (1 .. n - BiasGap) /\ n - BiasGap \in Int
  BY <1>1
<1>3. Outcome!MeasurablePairs(Places(n), c) = Cardinality(V)
  BY SameCount DEF Outcome!MeasurablePairs
<1> HIDE DEF V
<1>4. IsFiniteSet(1 .. n - BiasGap)
  BY <1>2, FS_Interval
<1>5. IsFiniteSet(V)
  BY <1>2, <1>4, FS_Subset
<1> QED
  BY <1>3, <1>5, FS_CardinalityType

\* The answers that leave a reconstruction P unaligned, and those that align it.
Stopped(n, c, P) ==
  {[posed |-> P, pairs |-> m, intervals |-> 0, solution |-> "none"] :
     m \in IF Outcome!Valid(P) THEN 0 .. Outcome!MeasurablePairs(Places(n), c) ELSE {0}}

AlignedAs(n, c, P, r) ==
  {[r EXCEPT !.intervals = a.intervals, !.solution = a.solution] :
     a \in Outcome!Alignments(Outcome!Stamps(Places(n), Outcome!Strided(P, AlignStride)), c)}

LEMMA AnswersOf ==
  ASSUME NEW n \in Nat \ {0}, NEW c, FirstOf(n) + 3 <= n, NEW P, Reconstructed(n, P)
  PROVE  /\ Stopped(n, c, P) \subseteq Outcome!Results(Places(n), c)
         /\ \A r \in Stopped(n, c, P) :
              Outcome!Valid(P) /\ r.pairs >= BiasMinPairs
                => AlignedAs(n, c, P, r) \subseteq Outcome!Results(Places(n), c)
<1> DEFINE Aligns(Q) == UNION {AlignedAs(n, c, Q, r) :
                                 r \in {s \in Stopped(n, c, Q) :
                                          Outcome!Valid(Q) /\ s.pairs >= BiasMinPairs}}
           Answers(Q) == Stopped(n, c, Q) \cup Aligns(Q)
<1>1. ~ (Len(Places(n)) - Outcome!Cardinality(Outcome!SfmWindow(Places(n))) + 3 >= Len(Places(n)))
  BY WindowPlaces, SameCount
<1>2. P \in Outcome!Reconstructions(Places(n))
  BY PosesAllowed
<1>3. Outcome!Results(Places(n), c) = UNION {Answers(Q) : Q \in Outcome!Reconstructions(Places(n))}
  BY <1>1, Zenon DEF Outcome!Results, Stopped, AlignedAs
<1> HIDE DEF Answers, Aligns
<1>4. Answers(P) \subseteq Outcome!Results(Places(n), c)
  BY <1>2, <1>3
<1>5. Stopped(n, c, P) \subseteq Answers(P)
  BY DEF Answers
<1>6. ASSUME NEW r \in Stopped(n, c, P), Outcome!Valid(P), r.pairs >= BiasMinPairs
      PROVE  AlignedAs(n, c, P, r) \subseteq Answers(P)
  BY <1>6, Zenon DEF Answers, Aligns
<1> QED
  BY <1>4, <1>5, <1>6, Zenon

\* The end of an attempt before the alignment.
LEMMA StopAllowed ==
  ASSUME NEW n \in Nat \ {0}, NEW c, FirstOf(n) + 3 <= n, NEW P, Reconstructed(n, P),
         NEW m \in Nat, m # 0 => Cardinality(P) >= MinPosed,
         m <= Outcome!MeasurablePairs(Places(n), c)
  PROVE  /\ Answer(P, m, 0, "none") \in Stopped(n, c, P)
         /\ Answer(P, m, 0, "none") \in Outcome!Results(Places(n), c)
<1>1. m \in IF Outcome!Valid(P) THEN 0 .. Outcome!MeasurablePairs(Places(n), c) ELSE {0}
  BY MeasurableCounted, SameCount DEF Outcome!Valid
<1>2. Answer(P, m, 0, "none") \in Stopped(n, c, P)
  BY <1>1 DEF Stopped, Answer
<1> QED
  BY <1>2, AnswersOf

\* The end of one that got there.
LEMMA AlignAllowed ==
  ASSUME NEW n \in Nat \ {0}, NEW c, FirstOf(n) + 3 <= n, NEW P, Reconstructed(n, P),
         NEW m \in Nat, m <= Outcome!MeasurablePairs(Places(n), c),
         Cardinality(P) >= MinPosed, m >= BiasMinPairs, NEW x, NEW y,
         NEW a \in Outcome!Alignments(
                     Outcome!Stamps(Places(n), Outcome!Strided(P, AlignStride)), c),
         a.intervals = x, a.solution = y
  PROVE  Answer(P, m, x, y) \in Outcome!Results(Places(n), c)
<1> DEFINE r == Answer(P, m, 0, "none")
<1>1. r \in Stopped(n, c, P)
  BY StopAllowed
<1>2. Outcome!Valid(P) /\ r.pairs >= BiasMinPairs
  BY SameCount DEF Outcome!Valid, Answer
<1>3. [r EXCEPT !.intervals = x, !.solution = y] = Answer(P, m, x, y)
  <2> DEFINE e == [r EXCEPT !.intervals = x]
  <2>1. e = Answer(P, m, x, "none")
    BY DEF Answer
  <2>2. [Answer(P, m, x, "none") EXCEPT !.solution = y] = Answer(P, m, x, y)
    BY DEF Answer
  <2> HIDE DEF e
  <2>3. [e EXCEPT !.solution = y] = Answer(P, m, x, y)
    BY <2>1, <2>2
  <2> HIDE DEF r
  <2> QED
    BY <2>3 DEF e
<1> HIDE DEF r
<1>4. Answer(P, m, x, y) \in AlignedAs(n, c, P, r)
  BY <1>3 DEF AlignedAs
<1> QED
  BY <1>1, <1>2, <1>4, AnswersOf

-------------------------------------------------------------------------------
LEMMA BaseIsFirst == Base = FirstOf(Len(frames))
BY DEF Base, FirstOf

LEMMA FramesCounted ==
  ASSUME LoopInv
  PROVE  /\ Len(frames) \in Nat \ {0} /\ DOMAIN frames = 1 .. Len(frames)
         /\ [i \in DOMAIN frames |-> i] = Places(Len(frames))
         /\ Base \in 1 .. Len(frames)
<1>1. frames \in Seq(SUBSET Ids) /\ frames # <<>>
  BY DEF LoopInv
<1>2. Len(frames) \in Nat \ {0} /\ DOMAIN frames = 1 .. Len(frames)
  BY <1>1
<1> QED
  BY <1>1, <1>2, BaseIsFrame DEF Places

\* The poses the invariant admits are those of a reconstruction.
LEMMA PosedAsAllowed ==
  ASSUME LoopInv, PosedInv
  PROVE  Reconstructed(Len(frames), Posed)
<1>1. Base = FirstOf(Len(frames)) /\ Base \in Nat
  BY BaseIsFirst, FramesCounted
<1>2. \A i \in Posed : i \in Base .. Len(frames)
  BY <1>1 DEF LoopInv, PosedInv
<1> QED
  BY <1>1, <1>2 DEF PosedInv, Reconstructed, FirstCandidate

\* The pairs behind a loop that has ended are all there are.
LEMMA PairsMeasured ==
  ASSUME IntervalInv
  PROVE  /\ \A n \in Nat : IsFiniteSet(PairsBefore(n)) /\ Cardinality(PairsBefore(n)) \in Nat
         /\ \A n \in Nat : Cardinality(PairsBefore(n))
                             <= Outcome!MeasurablePairs(Places(Len(frames)), Covered)
<1> DEFINE N == Len(frames)
           V == {i \in 1 .. Len(Places(N)) - BiasGap :
                   (i - 1) % BiasGap = 0
                   /\ Outcome!Continuous(Covered, Places(N)[i], Places(N)[i + BiasGap])}
<1>0. LoopInv /\ samples \in Buffers /\ BiasGap \in Nat \ {0}
  BY InitializerAssumption DEF IntervalInv
<1>1. N \in Nat \ {0}
  BY <1>0, FramesCounted
<1>2. Len(Places(N)) = N
  BY <1>1, WindowPlaces
<1>3. Outcome!MeasurablePairs(Places(N), Covered) = Cardinality(V)
  BY SameCount DEF Outcome!MeasurablePairs
<1>4. ASSUME NEW i \in 1 .. N - BiasGap
      PROVE  /\ i \in 1 .. N /\ i + BiasGap \in 1 .. N
             /\ Places(N)[i] = i /\ Places(N)[i + BiasGap] = i + BiasGap
             /\ Whole(i, i + BiasGap) <=> Outcome!Continuous(Covered, i, i + BiasGap)
  <2>1. i \in 1 .. N /\ i + BiasGap \in 1 .. N
    BY <1>0, <1>1
  <2>2. Whole(i, i + BiasGap) <=> Outcome!Continuous(Covered, i, i + BiasGap)
    BY <1>0, <1>1, <2>1, WholeByTicks
  <2> QED
    BY <2>1, <2>2 DEF Places
<1> HIDE DEF N
<1>5. V = {i \in 1 .. N - BiasGap : (i - 1) % BiasGap = 0 /\ Whole(i, i + BiasGap)}
  BY <1>2, <1>4
<1> HIDE DEF V
<1>6. V \in SUBSET (1 .. N - BiasGap) /\ N - BiasGap \in Int
  BY <1>0, <1>1, <1>5
<1>7. IsFiniteSet(1 .. N - BiasGap)
  BY <1>6, FS_Interval
<1>8. IsFiniteSet(V)
  BY <1>6, <1>7, FS_Subset
<1>9. ASSUME NEW n \in Nat
      PROVE  PairsBefore(n) \in SUBSET V
  BY <1>5 DEF PairsBefore, N
<1>10. ASSUME NEW n \in Nat
       PROVE  /\ IsFiniteSet(PairsBefore(n)) /\ Cardinality(PairsBefore(n)) \in Nat
              /\ Cardinality(PairsBefore(n)) <= Cardinality(V)
  BY <1>8, <1>9, FS_Subset, FS_CardinalityType
<1> QED
  BY <1>3, <1>10 DEF N

\* What the next pair adds.
LEMMA NextPair ==
  ASSUME IntervalInv, stage = "bias", k + BiasGap <= Len(frames), (k - 1) % BiasGap = 0
  PROVE  /\ (k + BiasGap - 1) % BiasGap = 0
         /\ Cardinality(PairsBefore(k)) <= Cardinality(PairsBefore(k + BiasGap))
         /\ Whole(k, k + BiasGap)
              => Cardinality(PairsBefore(k)) + 1 <= Cardinality(PairsBefore(k + BiasGap))
<1>0. k \in Nat /\ k >= 1 /\ BiasGap \in Nat \ {0} /\ Len(frames) \in Nat
  BY FramesCounted, InitializerAssumption DEF IntervalInv, LoopInv
<1>1. (k + BiasGap - 1) % BiasGap = 0
  <2>1. k - 1 \in Nat /\ (k - 1) + BiasGap = k + BiasGap - 1
    BY <1>0
  <2>2. ((k - 1) + BiasGap) % BiasGap = 0
    BY <1>0, <2>1, NextMultiple, Zenon
  <2> QED
    BY <2>1, <2>2
<1>2. /\ IsFiniteSet(PairsBefore(k)) /\ IsFiniteSet(PairsBefore(k + BiasGap))
      /\ Cardinality(PairsBefore(k)) \in Nat
  BY <1>0, PairsMeasured
<1>3. PairsBefore(k) \in SUBSET PairsBefore(k + BiasGap)
  BY <1>0 DEF PairsBefore
<1>4. k \notin PairsBefore(k)
  BY <1>0 DEF PairsBefore
<1>5. Whole(k, k + BiasGap) => PairsBefore(k) \cup {k} \in SUBSET PairsBefore(k + BiasGap)
  BY <1>0, <1>3 DEF PairsBefore
<1>6. Cardinality(PairsBefore(k) \cup {k}) = Cardinality(PairsBefore(k)) + 1
  BY <1>2, <1>4, FS_AddElement
<1>7. Cardinality(PairsBefore(k)) <= Cardinality(PairsBefore(k + BiasGap))
  BY <1>2, <1>3, FS_Subset
<1>8. Whole(k, k + BiasGap)
        => Cardinality(PairsBefore(k) \cup {k}) <= Cardinality(PairsBefore(k + BiasGap))
  BY <1>2, <1>5, FS_Subset
<1> QED
  BY <1>1, <1>6, <1>7, <1>8

\* The alignment's frames are places in the window's sequence.
LEMMA AlignedPlaces ==
  ASSUME LoopInv
  PROVE  /\ Aligned \in Seq(1 .. Len(frames)) /\ Len(Aligned) \in Nat
         /\ Outcome!Stamps(Places(Len(frames)), Outcome!Strided(Posed, AlignStride)) = Aligned
<1>1. Len(frames) \in Nat /\ \A i \in Posed : i \in 1 .. Len(frames)
  BY DEF LoopInv
<1>2. AlignStride \in Nat \ {0}
  BY InitializerAssumption
<1>3. Aligned \in Seq(Posed)
  BY <1>1, <1>2, StridedMembers DEF Aligned
<1> DEFINE A == Aligned
<1>4. Outcome!Strided(Posed, AlignStride) = A
  BY SameStrides DEF Aligned
<1> HIDE DEF A
<1>5. A \in Seq(Posed)
  BY <1>3 DEF A
<1>6. Len(A) \in Nat /\ DOMAIN A = 1 .. Len(A) /\ \A i \in DOMAIN A : A[i] \in 1 .. Len(frames)
  BY <1>1, <1>5
<1>7. A = [i \in DOMAIN A |-> A[i]]
  BY <1>5
<1>8. A = [i \in 1 .. Len(A) |-> A[i]]
  BY <1>6, <1>7
<1>9. A \in Seq(1 .. Len(frames))
  BY <1>6, <1>8
<1>10. [i \in DOMAIN A |-> Places(Len(frames))[A[i]]] = A
  BY <1>6, <1>7 DEF Places
<1>11. Outcome!Stamps(Places(Len(frames)), A) = A
  BY <1>10 DEF Outcome!Stamps
<1> QED
  BY <1>4, <1>6, <1>9, <1>11 DEF A

\* What the next interval adds, and what all of them are in the end.
LEMMA NextInterval ==
  ASSUME IntervalInv, k >= 1, k < Len(Aligned)
  PROVE  /\ Cardinality(WholeBefore(k)) \in Nat
         /\ Cardinality(WholeBefore(k + 1)) = IF Whole(Aligned[k], Aligned[k + 1])
                                              THEN Cardinality(WholeBefore(k)) + 1
                                              ELSE Cardinality(WholeBefore(k))
<1>0. k \in Nat
  BY DEF IntervalInv, LoopInv
<1>1. IsFiniteSet(1 .. k - 1)
  BY <1>0, FS_Interval
<1>2. WholeBefore(k) \in SUBSET (1 .. k - 1)
  BY DEF WholeBefore
<1>3. IsFiniteSet(WholeBefore(k)) /\ Cardinality(WholeBefore(k)) \in Nat
  BY <1>1, <1>2, FS_Subset, FS_CardinalityType
<1>4. k \notin WholeBefore(k)
  BY <1>0, <1>2
<1>5. WholeBefore(k + 1) = IF Whole(Aligned[k], Aligned[k + 1]) THEN WholeBefore(k) \cup {k}
                                                                ELSE WholeBefore(k)
  <2>1. \A i : i \in 1 .. (k + 1) - 1 <=> i \in 1 .. k - 1 \/ i = k
    BY <1>0
  <2> QED
    BY <2>1 DEF WholeBefore
<1> QED
  BY <1>3, <1>4, <1>5, FS_AddElement

LEMMA IntervalsCounted ==
  ASSUME IntervalInv
  PROVE  Outcome!Intervals(Covered, Aligned) = Cardinality(WholeBefore(Len(Aligned)))
<1>0. LoopInv /\ samples \in Buffers
  BY DEF IntervalInv
<1>1. Aligned \in Seq(1 .. Len(frames)) /\ Len(Aligned) \in Nat /\ Len(frames) \in Nat
  BY <1>0, AlignedPlaces, FramesCounted
<1> DEFINE A == Aligned
           W == {i \in 1 .. Len(A) - 1 : Outcome!Continuous(Covered, A[i], A[i + 1])}
<1>2. Outcome!Intervals(Covered, Aligned) = Cardinality(W)
  BY SameCount DEF Outcome!Intervals
<1>3. ASSUME NEW i \in 1 .. Len(A) - 1
      PROVE  Whole(A[i], A[i + 1]) <=> Outcome!Continuous(Covered, A[i], A[i + 1])
  <2> HIDE DEF A
  <2>0. A \in Seq(1 .. Len(frames)) /\ Len(A) \in Nat
    BY <1>1 DEF A
  <2>1. A[i] \in 1 .. Len(frames) /\ A[i + 1] \in 1 .. Len(frames)
    BY <2>0
  <2> QED
    BY <1>0, <1>1, <2>1, WholeByTicks
<1>4. W = WholeBefore(Len(Aligned))
  BY <1>3 DEF WholeBefore
<1> QED
  BY <1>2, <1>4

-------------------------------------------------------------------------------
\* Only AcceptPair and PoseFrame change what is posed.
LEMMA PosedKept ==
  ASSUME LoopInv,
         \/ \E next \in {"bundle", "buffer", "done"} : FinishWindow(next)
         \/ AcceptStep \/ FinishBundle("buffer")
  PROVE  Posed' = Posed
<1>0. w = [second |-> w.second, pose |-> w.pose, landmark |-> w.landmark]
  BY DEF LoopInv
<1>1. ASSUME NEW next, FinishWindow(next)
      PROVE  Posed' = Posed
  BY <1>0, <1>1 DEF FinishWindow, Posed
<1>2. ASSUME AcceptStep
      PROVE  Posed' = Posed
  <2>1. PICK e : w' = Moved(e)
    BY <1>2 DEF AcceptStep
  <2> QED
    BY <1>0, <2>1 DEF Moved, Posed
<1>3. ASSUME FinishBundle("buffer")
      PROVE  Posed' = Posed
  BY <1>0, <1>3 DEF FinishBundle, Rescaled, Posed
<1> QED
  BY <1>1, <1>2, <1>3

LEMMA PosedStep == IntervalInv /\ PosedInv /\ [Next]_vars => PosedInv'
<1> SUFFICES ASSUME IntervalInv, PosedInv, [Next]_vars PROVE PosedInv'
  OBVIOUS
<1>0. LoopInv
  BY DEF IntervalInv
<1>1. frames' = frames /\ Base' = Base /\ FirstCandidate' = FirstCandidate
  BY DEF Next, vars, reconstruction, TooFewFrames, Reconstruct, BasePair, RejectPair, AcceptPair,
     NoPair, PoseRemaining, LeaveUnposed, PoseFrame, WindowDone, FinishWindow, BundleAdjust,
     AcceptStep, RefuseStep, FinishBundle, StartBias, NoRotation, RotationPair, AtPair, SolveBias,
     AlignInterval, SolveAlign, Done, Base, FirstCandidate
<1>2. ASSUME Posed' = Posed,
             \/ stage' \in {"done", stage}
             \/ stage = "run" /\ stage' = "pair" /\ Base + 3 <= Len(frames)
             \/ stage \in {"pnp", "bundle", "buffer", "bias", "align"}
                /\ stage' \in {"bundle", "buffer", "bias", "align"}
                /\ Cardinality(Posed) >= MinPosed
      PROVE  PosedInv'
  BY <1>1, <1>2 DEF PosedInv
<1>3. CASE TooFewFrames \/ Reconstruct
  BY <1>2, <1>3 DEF TooFewFrames, Reconstruct, reconstruction, Posed
<1>4. CASE BasePair
  <2>1. CASE RejectPair \/ NoPair
    BY <1>2, <2>1 DEF RejectPair, NoPair, Posed
  <2>2. CASE AcceptPair
    <3>1. Posed' = {Base, k} /\ stage = "pair" /\ stage' = "pnp"
      BY <2>2 DEF AcceptPair, Posed
    <3>2. k >= FirstCandidate /\ FirstCandidate = Base + 2 /\ Base \in Nat /\ k \in Nat
      BY <1>0, <3>1, FramesCounted DEF LoopInv, FirstCandidate
    <3> QED
      BY <1>1, <3>1, <3>2 DEF PosedInv
  <2> QED
    BY <1>4, <2>1, <2>2 DEF BasePair
<1>5. CASE PoseRemaining
  <2>1. CASE LeaveUnposed
    BY <1>2, <2>1 DEF LeaveUnposed, Posed
  <2>2. CASE PoseFrame
    <3> DEFINE P(id) == [i \in Posed \cup {k} |-> IF i = k THEN w.landmark[id] ELSE w.pose[i]]
    <3>1. PICK id : w' = [w EXCEPT !.pose = P(id)]
      BY <2>2 DEF PoseFrame
    <3>2. DOMAIN P(id) = Posed \cup {k}
      OBVIOUS
    <3> HIDE DEF P
    <3>3. Posed' = Posed \cup {k}
      BY <1>0, <3>1, <3>2 DEF LoopInv, Posed
    <3>4. stage = "pnp" /\ stage' = "pnp" /\ k >= Base
      BY <1>0, <2>2 DEF PoseFrame, LoopInv
    <3> QED
      BY <1>1, <3>3, <3>4 DEF PosedInv
  <2> QED
    BY <1>5, <2>1, <2>2 DEF PoseRemaining
<1>6. CASE WindowDone
  <2>1. PICK next \in {"bundle", "buffer"} : FinishWindow(next)
    BY <1>6 DEF WindowDone
  <2>2. Posed' = Posed
    BY <1>0, <2>1, PosedKept
  <2> QED
    BY <1>2, <2>1, <2>2 DEF FinishWindow
<1>7. CASE BundleAdjust
  <2>1. CASE AcceptStep
    BY <1>0, <1>2, <2>1, PosedKept DEF AcceptStep
  <2>2. CASE RefuseStep
    BY <1>2, <2>2 DEF RefuseStep, Posed
  <2>3. CASE FinishBundle("buffer")
    <3>1. Posed' = Posed
      BY <1>0, <2>3, PosedKept
    <3> QED
      BY <1>2, <2>3, <3>1 DEF FinishBundle, PosedInv
  <2> QED
    BY <1>7, <2>1, <2>2, <2>3 DEF BundleAdjust
<1>8. CASE StartBias \/ SolveBias
  BY <1>2, <1>8 DEF StartBias, SolveBias, reconstruction, Posed, PosedInv
<1>9. CASE NoRotation \/ RotationPair \/ AlignInterval \/ SolveAlign
  BY <1>2, <1>9 DEF NoRotation, RotationPair, AtPair, AlignInterval, SolveAlign, reconstruction,
     Posed
<1>10. CASE UNCHANGED vars
  BY <1>2, <1>10 DEF vars, Posed
<1> QED
  BY <1>3, <1>4, <1>5, <1>6, <1>7, <1>8, <1>9, <1>10 DEF Next, Done

\* What a step that leaves frames, poses and samples alone leaves alone with them.
LEMMA CountsKept ==
  ASSUME UNCHANGED <<frames, w, samples>>
  PROVE  /\ Posed' = Posed /\ Base' = Base /\ Aligned' = Aligned
         /\ Covered' = Covered
         /\ \A n : PairsBefore(n)' = PairsBefore(n)
         /\ \A n : WholeBefore(n)' = WholeBefore(n)
<1>1. Posed' = Posed /\ Base' = Base
  BY DEF Posed, Base
<1>2. Aligned' = Aligned
  BY <1>1 DEF Aligned
<1>3. \A i, j : Whole(i, j)' = Whole(i, j)
  BY DEF Whole
<1>4. Covered' = Covered
  BY <1>3 DEF Covered
<1>5. \A n : PairsBefore(n)' = PairsBefore(n)
  BY <1>3 DEF PairsBefore
<1>6. \A n : WholeBefore(n)' = WholeBefore(n)
  BY <1>2, <1>3 DEF WholeBefore
<1> QED
  BY <1>1, <1>2, <1>4, <1>5, <1>6

LEMMA CountStep == IntervalInv /\ CountInv /\ [Next]_vars => CountInv'
<1> SUFFICES ASSUME IntervalInv, CountInv, [Next]_vars PROVE CountInv'
  OBVIOUS
<1>0. LoopInv /\ Len(frames) \in Nat /\ Len(Aligned) \in Nat /\ BiasGap \in Nat \ {0}
  BY FramesCounted, AlignedPlaces, InitializerAssumption DEF IntervalInv
<1>1. ASSUME UNCHANGED <<pairs, intervals, solution>>, stage \notin {"bias", "align", "done"},
             stage' \notin {"bias", "align"}
      PROVE  CountInv'
  BY <1>1 DEF CountInv
<1>2. CASE TooFewFrames \/ Reconstruct \/ BasePair \/ PoseRemaining \/ WindowDone \/ BundleAdjust
  <2>1. UNCHANGED <<pairs, intervals, solution>>
    BY <1>2 DEF TooFewFrames, Reconstruct, BasePair, PoseRemaining, WindowDone, BundleAdjust,
       Visually
  <2>2. stage \in {"run", "pair", "pnp", "bundle"} /\ stage' \notin {"bias", "align"}
    BY <1>2 DEF TooFewFrames, Reconstruct, BasePair, RejectPair, AcceptPair, NoPair, PoseRemaining,
       LeaveUnposed, PoseFrame, WindowDone, FinishWindow, BundleAdjust, AcceptStep, RefuseStep,
       FinishBundle
  <2> QED
    BY <1>1, <2>1, <2>2
<1>3. CASE StartBias
  <2>1. /\ stage = "buffer" /\ stage' = "bias" /\ k' = 1 /\ frames' = frames
        /\ UNCHANGED <<pairs, intervals, solution>>
    BY <1>3 DEF StartBias, reconstruction
  <2>2. Cardinality(PairsBefore(k)') \in Nat
    <3>1. PairsBefore(k)' \in SUBSET (1 .. Len(frames) - BiasGap)
      BY <2>1 DEF PairsBefore
    <3>2. IsFiniteSet(1 .. Len(frames) - BiasGap)
      BY <1>0, FS_Interval
    <3> QED
      BY <3>1, <3>2, FS_Subset, FS_CardinalityType
  <2>3. (k' - 1) % BiasGap = 0
    BY <1>0, <2>1
  <2> QED
    BY <2>1, <2>2, <2>3 DEF CountInv
<1>4. CASE NoRotation \/ RotationPair
  <2>1. /\ stage = "bias" /\ stage' = "bias" /\ k' = k + BiasGap /\ k + BiasGap <= Len(frames)
        /\ UNCHANGED <<frames, w, samples, intervals, solution>>
        /\ \/ pairs' = pairs
           \/ Whole(k, k + BiasGap) /\ pairs' = pairs + 1
    BY <1>4 DEF NoRotation, RotationPair, AtPair, reconstruction
  <2>2. /\ pairs \in Nat /\ (k - 1) % BiasGap = 0 /\ pairs <= Cardinality(PairsBefore(k))
        /\ intervals = 0 /\ solution = "none"
    BY <2>1 DEF CountInv
  <2>3. k \in Nat /\ k + BiasGap \in Nat
    BY <1>0 DEF LoopInv
  <2>4. Cardinality(PairsBefore(k)) \in Nat /\ Cardinality(PairsBefore(k + BiasGap)) \in Nat
    BY <2>3, PairsMeasured
  <2>5. /\ (k + BiasGap - 1) % BiasGap = 0
        /\ Cardinality(PairsBefore(k)) <= Cardinality(PairsBefore(k + BiasGap))
        /\ Whole(k, k + BiasGap)
             => Cardinality(PairsBefore(k)) + 1 <= Cardinality(PairsBefore(k + BiasGap))
    BY <2>1, <2>2, NextPair
  <2>6. pairs' \in Nat /\ pairs' <= Cardinality(PairsBefore(k + BiasGap))
    BY <2>1, <2>2, <2>4, <2>5
  <2>7. (pairs <= Cardinality(PairsBefore(k)))'
    <3>1. PairsBefore(k)' = PairsBefore(k + BiasGap)
      BY <2>1 DEF PairsBefore, Whole
    <3> QED
      BY <2>6, <3>1
  <2>8. (k' - 1) % BiasGap = 0 /\ pairs' \in Nat
    <3>1. k' = k + BiasGap /\ k \in Nat /\ BiasGap \in Nat \ {0}
      BY <1>0, <2>1, <2>3
    <3>2. (k + BiasGap - 1) % BiasGap = 0
      BY <2>5
    <3>3. (k' - 1) % BiasGap = 0
      BY <3>1, <3>2
    <3> QED
      BY <2>6, <3>3
  <2>9. intervals' = 0 /\ solution' = "none" /\ stage' = "bias"
    BY <2>1, <2>2
  <2> QED
    BY <2>7, <2>8, <2>9, Zenon DEF CountInv
<1>5. CASE SolveBias
  <2>1. /\ stage = "bias" /\ k + BiasGap > Len(frames) /\ k' = 1
        /\ UNCHANGED <<frames, w, samples, pairs, intervals, solution>>
        /\ \/ stage' = "done"
           \/ stage' = "align" /\ pairs >= BiasMinPairs
    BY <1>5 DEF SolveBias, reconstruction
  <2>2. /\ pairs \in Nat /\ pairs <= Cardinality(PairsBefore(k))
        /\ intervals = 0 /\ solution = "none"
    BY <2>1 DEF CountInv
  <2>3. k \in Nat
    BY <1>0 DEF LoopInv
  <2>4. PairsBefore(k) \in SUBSET PairsBefore(Len(frames))
    BY <1>0, <2>1, <2>3 DEF PairsBefore
  <2>5. IsFiniteSet(PairsBefore(Len(frames))) /\ Cardinality(PairsBefore(Len(frames))) \in Nat
    BY <1>0, PairsMeasured
  <2>6. Cardinality(PairsBefore(k)) \in Nat
    BY <2>3, PairsMeasured
  <2>7. pairs <= Cardinality(PairsBefore(Len(frames)))
    <3>1. Cardinality(PairsBefore(k)) <= Cardinality(PairsBefore(Len(frames)))
      BY <2>4, <2>5, FS_Subset
    <3> QED
      BY <2>2, <2>5, <2>6, <3>1
  <2>8. (pairs <= Cardinality(PairsBefore(Len(frames))))'
    <3>1. PairsBefore(Len(frames))' = PairsBefore(Len(frames))
      BY <2>1 DEF PairsBefore, Whole
    <3> QED
      BY <2>1, <2>7, <3>1
  <2>9. Aligned' = Aligned
    BY <2>1, CountsKept
  <2>10. Cardinality(WholeBefore(1)') = 0
    <3>1. WholeBefore(1)' = {}
      BY DEF WholeBefore
    <3> QED
      BY <3>1, FS_EmptySet
  <2>11. Len(Aligned') >= 3 => 1 <= Len(Aligned')
    BY <1>0, <2>9
  <2>12. Cardinality(WholeBefore(k)') = 0
    BY <2>1, <2>10 DEF WholeBefore
  <2> QED
    BY <2>1, <2>2, <2>8, <2>11, <2>12 DEF CountInv
<1>6. CASE AlignInterval
  <2>1. /\ stage = "align" /\ stage' = "align" /\ Len(Aligned) >= 3 /\ k < Len(Aligned)
        /\ k' = k + 1
        /\ UNCHANGED <<frames, w, samples, pairs, solution>>
        /\ intervals' = IF Whole(Aligned[k], Aligned[k + 1]) THEN intervals + 1 ELSE intervals
    BY <1>6 DEF AlignInterval, reconstruction
  <2>2. /\ pairs \in Nat /\ BiasMinPairs <= pairs /\ pairs <= Cardinality(PairsBefore(Len(frames)))
        /\ intervals = Cardinality(WholeBefore(k)) /\ solution = "none"
    BY <2>1 DEF CountInv
  <2>3. k \in Nat /\ k >= 1
    BY <1>0, <2>1 DEF LoopInv
  <2>4. intervals' = Cardinality(WholeBefore(k + 1))
    BY <2>1, <2>2, <2>3, NextInterval
  <2>5. Aligned' = Aligned
    BY <2>1, CountsKept
  <2>6. WholeBefore(k)' = WholeBefore(k + 1)
    BY <2>1, <2>5 DEF WholeBefore, Whole
  <2>7. PairsBefore(Len(frames))' = PairsBefore(Len(frames))
    BY <2>1 DEF PairsBefore, Whole
  <2>8. k' <= Len(Aligned)
    BY <1>0, <2>1, <2>3
  <2> QED
    BY <2>1, <2>2, <2>4, <2>5, <2>6, <2>7, <2>8 DEF CountInv
<1>7. CASE SolveAlign
  BY <1>7 DEF SolveAlign, CountInv
<1>8. CASE UNCHANGED vars
  <2>1. UNCHANGED <<frames, w, samples, stage, k, pairs, intervals, solution>>
    BY <1>8 DEF vars
  <2>2. Aligned' = Aligned
    BY <2>1, CountsKept
  <2>3. PairsBefore(Len(frames))' = PairsBefore(Len(frames)) /\ PairsBefore(k)' = PairsBefore(k)
    BY <2>1 DEF PairsBefore, Whole
  <2>4. WholeBefore(k)' = WholeBefore(k)
    BY <2>1, <2>2 DEF WholeBefore, Whole
  <2> QED
    BY <2>1, <2>2, <2>3, <2>4 DEF CountInv
<1> QED
  BY <1>2, <1>3, <1>4, <1>5, <1>6, <1>7, <1>8 DEF Next, Done

\* An answer that BootstrapOutcomes has is one the run may end with.
LEMMA EndsAllowed ==
  ASSUME LoopInv, UNCHANGED <<frames, samples>>, Posed' = Posed,
         Answer(Posed, pairs', intervals', solution')
           \in Outcome!Results(Places(Len(frames)), Covered)
  PROVE  OutcomeAllowed'
<1>1. [i \in DOMAIN frames |-> i] = Places(Len(frames))
  BY FramesCounted
<1>2. Covered' = Covered
  BY DEF Covered, Whole
<1> QED
  BY <1>1, <1>2 DEF OutcomeAllowed, Answer

LEMMA OutcomeStep == OutcomeInv /\ [Next]_vars => OutcomeInv'
<1> SUFFICES ASSUME OutcomeInv, [Next]_vars PROVE OutcomeInv'
  OBVIOUS
<1> DEFINE N == Len(frames)
<1>0. IntervalInv /\ LoopInv /\ PosedInv /\ CountInv /\ OutcomeAllowed
  BY DEF OutcomeInv, IntervalInv
<1>1. IntervalInv' /\ PosedInv' /\ CountInv'
  BY <1>0, IntervalStep, PosedStep, CountStep
<1> SUFFICES OutcomeAllowed'
  BY <1>1 DEF OutcomeInv
<1>2. /\ N \in Nat \ {0} /\ Base = FirstOf(N) /\ Reconstructed(N, Posed)
      /\ Outcome!MeasurablePairs(Places(N), Covered) \in Nat
  BY <1>0, FramesCounted, BaseIsFirst, PosedAsAllowed, MeasurableCounted
<1> HIDE DEF N
<1>3. ASSUME stage' # "done"
      PROVE  OutcomeAllowed'
  BY <1>3 DEF OutcomeAllowed
<1>4. CASE TooFewFrames
  <2>1. /\ UNCHANGED <<frames, w, samples, pairs, intervals, solution>> /\ stage = "run"
        /\ Base + 3 > N
    BY <1>4 DEF TooFewFrames, Visually, reconstruction, N
  <2>2. Posed' = Posed /\ Posed = {} /\ pairs = 0 /\ intervals = 0 /\ solution = "none"
    BY <1>0, <2>1 DEF Posed, PosedInv, CountInv
  <2>3. Answer({}, 0, 0, "none") \in Outcome!Results(Places(N), Covered)
    BY <1>2, <2>1, EmptyAllowed
  <2>4. Answer(Posed, pairs', intervals', solution') \in Outcome!Results(Places(N), Covered)
    BY <2>1, <2>2, <2>3
  <2> QED
    BY <1>0, <2>1, <2>2, <2>4, EndsAllowed DEF N
<1>5. ASSUME UNCHANGED <<frames, samples, pairs, intervals, solution>>, Posed' = Posed,
             stage \notin {"run", "align", "done"}, pairs # 0 => stage = "bias"
      PROVE  OutcomeAllowed'
  <2>1. intervals = 0 /\ solution = "none" /\ pairs \in Nat /\ Base + 3 <= N
    BY <1>0, <1>5 DEF CountInv, PosedInv, N
  <2>2. pairs # 0 => Cardinality(Posed) >= MinPosed
    BY <1>0, <1>5 DEF PosedInv
  <2>3. pairs <= Outcome!MeasurablePairs(Places(N), Covered)
    <3>1. CASE pairs = 0
      BY <1>2, <3>1
    <3>2. CASE pairs # 0
      <4>1. stage = "bias" /\ k \in Nat
        BY <1>0, <1>5, <3>2 DEF LoopInv
      <4>2. /\ Cardinality(PairsBefore(k)) \in Nat
            /\ Cardinality(PairsBefore(k)) <= Outcome!MeasurablePairs(Places(N), Covered)
        BY <1>0, <4>1, PairsMeasured DEF N
      <4>3. pairs <= Cardinality(PairsBefore(k))
        BY <1>0, <4>1 DEF CountInv
      <4> QED
        BY <1>2, <2>1, <4>2, <4>3
    <3> QED
      BY <3>1, <3>2
  <2>4. FirstOf(N) + 3 <= N
    BY <1>2, <2>1
  <2>5. Answer(Posed, pairs, 0, "none") \in Outcome!Results(Places(N), Covered)
    BY <1>2, <2>1, <2>2, <2>3, <2>4, StopAllowed
  <2>6. Answer(Posed, pairs', intervals', solution') \in Outcome!Results(Places(N), Covered)
    BY <1>5, <2>1, <2>5
  <2> QED
    BY <1>0, <1>5, <2>6, EndsAllowed DEF N
<1>6. CASE Reconstruct \/ PoseRemaining \/ StartBias \/ NoRotation \/ RotationPair \/ AlignInterval
  <2>1. stage' # "done"
    BY <1>6 DEF Reconstruct, PoseRemaining, LeaveUnposed, PoseFrame, StartBias, NoRotation,
       RotationPair, AtPair, AlignInterval
  <2> QED
    BY <1>3, <2>1
<1>7. CASE BasePair
  <2>1. CASE RejectPair \/ AcceptPair
    BY <1>3, <2>1 DEF RejectPair, AcceptPair
  <2>2. CASE NoPair
    <3>1. /\ UNCHANGED <<frames, w, samples, pairs, intervals, solution>> /\ stage = "pair"
      BY <1>7, <2>2 DEF BasePair, NoPair, Visually
    <3>2. Posed' = Posed /\ pairs = 0
      BY <1>0, <3>1 DEF Posed, CountInv
    <3> QED
      BY <1>5, <3>1, <3>2
  <2> QED
    BY <1>7, <2>1, <2>2 DEF BasePair
<1>8. CASE WindowDone
  <2>1. PICK next \in {"bundle", "buffer"} : FinishWindow(next)
    BY <1>8 DEF WindowDone
  <2>2. Posed' = Posed
    BY <1>0, <2>1, PosedKept
  <2>3. /\ UNCHANGED <<frames, samples, pairs, intervals, solution>> /\ stage = "pnp"
    BY <1>8, <2>1 DEF WindowDone, FinishWindow, Visually
  <2>4. pairs = 0
    BY <1>0, <2>3 DEF CountInv
  <2> QED
    BY <1>5, <2>2, <2>3, <2>4
<1>9. CASE BundleAdjust
  <2>1. stage' # "done"
    BY <1>9 DEF BundleAdjust, AcceptStep, RefuseStep, FinishBundle
  <2> QED
    BY <1>3, <2>1
<1>10. CASE SolveBias
  <2>1. /\ UNCHANGED <<frames, w, samples, pairs, intervals, solution>> /\ stage = "bias"
    BY <1>10 DEF SolveBias, reconstruction
  <2>2. Posed' = Posed
    BY <2>1 DEF Posed
  <2> QED
    BY <1>5, <2>1, <2>2
<1>11. CASE SolveAlign
  <2>1. /\ stage = "align" /\ (Len(Aligned) < 3 \/ k = Len(Aligned))
        /\ solution' \in IF Len(Aligned) >= 3 /\ Enough
                         THEN {"refused", "negative", "uncertain", "metric"} ELSE {"none"}
        /\ UNCHANGED <<frames, w, samples, pairs, intervals>>
    BY <1>11 DEF SolveAlign, reconstruction
  <2>2. Posed' = Posed
    BY <2>1 DEF Posed
  <2>3. /\ pairs \in Nat /\ BiasMinPairs <= pairs
        /\ pairs <= Cardinality(PairsBefore(Len(frames)))
        /\ Base + 3 <= N /\ Cardinality(Posed) >= MinPosed
    BY <1>0, <2>1 DEF CountInv, PosedInv, N
  <2>4. pairs <= Outcome!MeasurablePairs(Places(N), Covered)
    <3>1. /\ Cardinality(PairsBefore(Len(frames))) \in Nat
          /\ Cardinality(PairsBefore(Len(frames))) <= Outcome!MeasurablePairs(Places(N), Covered)
      BY <1>0, <1>2, PairsMeasured DEF N
    <3> QED
      BY <1>2, <2>3, <3>1
  <2>5. [intervals |-> intervals, solution |-> solution']
          \in Outcome!Alignments(Aligned, Covered)
    <3>1. CASE Len(Aligned) < 3
      <4>1. intervals = 0 /\ solution' = "none"
        BY <1>0, <2>1, <3>1, AlignedPlaces DEF CountInv
      <4> QED
        BY <3>1, <4>1 DEF Outcome!Alignments
    <3>2. CASE ~ (Len(Aligned) < 3)
      <4>1. Len(Aligned) >= 3 /\ k = Len(Aligned)
        BY <1>0, <2>1, <3>2, AlignedPlaces
      <4>2. intervals = Outcome!Intervals(Covered, Aligned)
        BY <1>0, <2>1, <4>1, IntervalsCounted DEF CountInv
      <4>3. intervals \in Nat
        <5>1. WholeBefore(k) \in SUBSET (1 .. k - 1) /\ k \in Nat
          BY <1>0 DEF WholeBefore, LoopInv
        <5>2. Cardinality(WholeBefore(k)) \in Nat
          <6>1. IsFiniteSet(1 .. k - 1)
            BY <5>1, FS_Interval
          <6> QED
            BY <5>1, <6>1, FS_Subset, FS_CardinalityType
        <5> QED
          BY <1>0, <2>1, <4>1, <5>2 DEF CountInv
      <4>4. solution' \in IF intervals < AlignMinIntervals THEN {"none"}
                                                           ELSE Outcome!Solutions \ {"none"}
        BY <2>1, <4>1, <4>3, InitializerAssumption DEF Enough, Outcome!Solutions
      <4> QED
        BY <3>2, <4>2, <4>4 DEF Outcome!Alignments
    <3> QED
      BY <3>1, <3>2
  <2>6. Outcome!Stamps(Places(N), Outcome!Strided(Posed, AlignStride)) = Aligned
    BY <1>0, AlignedPlaces DEF N
  <2>7. FirstOf(N) + 3 <= N
    BY <1>2, <2>3
  <2>8. Answer(Posed, pairs, intervals, solution') \in Outcome!Results(Places(N), Covered)
    <3> DEFINE a == [intervals |-> intervals, solution |-> solution']
    <3>1. a.intervals = intervals /\ a.solution = solution'
      OBVIOUS
    <3>2. a \in Outcome!Alignments(
                 Outcome!Stamps(Places(N), Outcome!Strided(Posed, AlignStride)), Covered)
      BY <2>5, <2>6
    <3> HIDE DEF a
    <3> QED
      BY <1>2, <2>3, <2>4, <2>7, <3>1, <3>2, AlignAllowed
  <2> QED
    BY <1>0, <2>1, <2>2, <2>8, EndsAllowed DEF N
<1>12. CASE UNCHANGED vars
  <2>1. UNCHANGED <<frames, w, samples, stage, pairs, intervals, solution>>
    BY <1>12 DEF vars
  <2>2. Posed' = Posed /\ Covered' = Covered
    BY <2>1, CountsKept
  <2> QED
    BY <1>0, <2>1, <2>2 DEF OutcomeAllowed
<1> QED
  BY <1>4, <1>6, <1>7, <1>8, <1>9, <1>10, <1>11, <1>12 DEF Next, Done

\* Whatever the pipeline answers, on any frames and samples, is an answer that the estimator's
\* model reckons with: run stays inside BootstrapOutcomes.
THEOREM OutcomesAllowed == Spec => []OutcomeAllowed
<1>1. Init => OutcomeInv
  BY IntervalInit DEF Init, OutcomeInv, PosedInv, CountInv, OutcomeAllowed, NoWindow, Posed
<1>2. OutcomeInv => OutcomeAllowed
  BY DEF OutcomeInv
<1> QED
  BY <1>1, <1>2, OutcomeStep, PTL DEF Spec

===============================================================================
