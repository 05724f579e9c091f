-------------------------- MODULE MeasureQueueProofs --------------------------
(***************************************************************************)
(* Proofs about MeasureQueue, for every capacity, buffer limit and set of    *)
(* stamps: type correctness, mutual exclusion, the bound on the queue, the   *)
(* conservation of frames, the drained shutdown and the purity of a          *)
(* timeline.  The lemmas on the synchroniser's operators are stated over an  *)
(* arbitrary set M of messages, so that type correctness uses them with      *)
(* every message and purity with those of one timeline.                      *)
(***************************************************************************)
EXTENDS MeasureQueue, SequenceTheorems, WellFoundedInduction, TLAPS

GroupsOver(M) == [frame : M, imu : Seq(M)]

\* Every nonempty set of natural numbers has a least element.
LEMMA LeastNatural ==
  ASSUME NEW I \in SUBSET Nat, I # {}
  PROVE  \E m \in I : \A i \in I : m <= i
<1> DEFINE Less == {ss \in Nat \X Nat : ss[1] < ss[2]}
<1>1. IsWellFoundedOn(Less, Nat)
  BY NatLessThanWellFounded, Zenon DEF OpToRel
<1> HIDE DEF Less
<1>2. PICK m \in I : \A i \in I : ~ (<<i, m>> \in Less)
  BY <1>1, WFMin
<1>3. \A i \in I : ~ (i < m)
  BY <1>2 DEF Less
<1> QED
  BY <1>3

LEMMA MinOfNaturals ==
  ASSUME NEW I \in SUBSET Nat, I # {}
  PROVE  Min(I) \in I /\ \A i \in I : Min(I) <= i
<1>1. PICK m \in I : \A i \in I : m <= i
  BY LeastNatural
<1>2. \A i \in I : m =< i
  BY <1>1
<1> QED
  BY <1>2 DEF Min


\* The least index in a set of them, as a fact about an arbitrary set, so that a proof
\* can apply it to the comprehensions SelectInSeq expands to.
LEMMA LeastIndex ==
  \A n \in Nat : \A I \in SUBSET (1 .. n) : I # {} => Min(I) \in I
<1> SUFFICES ASSUME NEW n \in Nat, NEW I \in SUBSET (1 .. n), I # {}
             PROVE  Min(I) \in I
  OBVIOUS
<1>1. I \in SUBSET Nat
  OBVIOUS
<1> QED
  BY <1>1, MinOfNaturals

\* trim() keeps a non-empty tail of the buffer.
LEMMA TrimIsTail ==
  ASSUME NEW S, NEW imu \in Seq(S), imu # <<>>, NEW t
  PROVE  \E k \in 1 .. Len(imu) : Trim(imu, t) = SubSeq(imu, k, Len(imu))
<1> DEFINE I == {i \in 2 .. Len(imu) : imu[i].t > t}
<1>0. Len(imu) \in Nat /\ Len(imu) >= 1
  OBVIOUS
<1>1. CASE I = {}
  <2>1. Trim(imu, t) = <<imu[Len(imu)]>>
    BY <1>1 DEF Trim, SelectInSubSeq, Last
  <2>2. <<imu[Len(imu)]>> = SubSeq(imu, Len(imu), Len(imu))
    BY <1>0
  <2> QED
    BY <1>0, <2>1, <2>2
<1>2. CASE I # {}
  <2>1. I \in SUBSET (1 .. Len(imu)) /\ I \in SUBSET (2 .. Len(imu))
    BY <1>0
  <2> DEFINE j == Min(I)
  <2>2. Trim(imu, t) = IF j = 0 THEN <<Last(imu)>> ELSE SubSeq(imu, j - 1, Len(imu))
    BY <1>2 DEF Trim, SelectInSubSeq
  <2> HIDE DEF I
  <2>3. j \in 2 .. Len(imu)
    BY <1>0, <1>2, <2>1, LeastIndex
  <2> HIDE DEF j
  <2>4. j - 1 \in 1 .. Len(imu) /\ Trim(imu, t) = SubSeq(imu, j - 1, Len(imu))
    BY <1>0, <2>2, <2>3
  <2> QED
    BY <2>4
<1> QED
  BY <1>1, <1>2

\* next() copies out a prefix of the buffer.
LEMMA IntervalIsPrefix ==
  ASSUME NEW S, NEW imu \in Seq(S), NEW t
  PROVE  \E k \in 0 .. Len(imu) : Interval(imu, t) = SubSeq(imu, 1, k)
<1> DEFINE I == {i \in 1 .. Len(imu) : imu[i].t >= t}
<1>0. Len(imu) \in Nat
  OBVIOUS
<1>1. CASE I = {}
  BY <1>0, <1>1 DEF Interval, SelectInSeq
<1>2. CASE I # {}
  <2>1. I \in SUBSET (1 .. Len(imu))
    BY <1>0
  <2> DEFINE j == Min(I)
  <2>2. Interval(imu, t) = SubSeq(imu, 1, j)
    BY <1>2 DEF Interval, SelectInSeq
  <2> HIDE DEF I
  <2>3. j \in 1 .. Len(imu)
    BY <1>0, <1>2, <2>1, LeastIndex
  <2> HIDE DEF j
  <2> QED
    BY <1>0, <2>2, <2>3
<1> QED
  BY <1>1, <1>2

\* What the next group adds to a dropped one is a tail of its samples.
LEMMA AfterType ==
  ASSUME NEW S, NEW imu \in Seq(S), NEW t
  PROVE  After(imu, t) \in Seq(S)
<1> DEFINE I == {i \in 1 .. Len(imu) : imu[i].t > t}
<1>0. Len(imu) \in Nat
  OBVIOUS
<1>1. CASE I = {}
  BY <1>1 DEF After, SelectInSeq
<1>2. CASE I # {}
  <2>1. I \in SUBSET (1 .. Len(imu))
    BY <1>0
  <2> DEFINE j == Min(I)
  <2>2. After(imu, t) = IF j = 0 THEN <<>> ELSE SubSeq(imu, j, Len(imu))
    BY <1>2 DEF After, SelectInSeq
  <2> HIDE DEF I
  <2>3. j \in 1 .. Len(imu)
    BY <1>0, <1>2, <2>1, LeastIndex
  <2> HIDE DEF j
  <2>4. SubSeq(imu, j, Len(imu)) \in Seq(S)
    BY <1>0, <2>3, SubSeqProperties
  <2> QED
    BY <2>2, <2>4
<1> QED
  BY <1>1, <1>2

\* The buffer is never left empty by a push.
LEMMA BufferImuOver ==
  ASSUME NEW M, NEW imu \in Seq(M), NEW m \in M
  PROVE  BufferImu(imu, m) \in Seq(M) /\ BufferImu(imu, m) # <<>>
<1>1. Append(imu, m) \in Seq(M) /\ Len(Append(imu, m)) = Len(imu) + 1
  BY AppendProperties
<1>2. CASE Overflows(imu)
  <2>1. Len(imu) >= 1
    BY <1>2, SyncAssumption DEF Overflows
  <2>2. Append(imu, m) # <<>>
    BY <1>1, <2>1
  <2>3. Tail(Append(imu, m)) \in Seq(M)
        /\ Len(Tail(Append(imu, m))) = Len(imu)
    BY <1>1, <2>2, HeadTailProperties
  <2> QED
    BY <1>2, <2>1, <2>3 DEF BufferImu, Overflows
<1>3. CASE ~Overflows(imu)
  BY <1>1, <1>3 DEF BufferImu, Overflows
<1> QED
  BY <1>2, <1>3

LEMMA NextGroupOver ==
  ASSUME NEW M, NEW imu \in Seq(M), NEW frames \in Seq(M), frames # <<>>,
         NEW havePrev \in BOOLEAN
  PROVE  NextGroup(imu, frames, havePrev) \in GroupsOver(M)
<1>1. Head(frames) \in M
  OBVIOUS
<1>2. PICK k \in 0 .. Len(imu) : Interval(imu, Head(frames).t) = SubSeq(imu, 1, k)
  BY IntervalIsPrefix
<1>3. SubSeq(imu, 1, k) \in Seq(M)
  BY SubSeqProperties
<1> QED
  BY <1>1, <1>2, <1>3 DEF NextGroup, GroupsOver

LEMMA NextGroupType ==
  ASSUME NEW imu \in Seq(Message), NEW frames \in Seq(Message), frames # <<>>,
         NEW havePrev \in BOOLEAN
  PROVE  NextGroup(imu, frames, havePrev) \in Group
<1>1. NextGroup(imu, frames, havePrev) \in GroupsOver(Message)
  BY NextGroupOver
<1> QED
  BY <1>1 DEF Group, GroupsOver

LEMMA SliceType ==
  ASSUME NEW S, NEW s \in Seq(S), NEW a \in Nat \ {0}, NEW b \in 0 .. Len(s)
  PROVE  SubSeq(s, a, b) \in Seq(S)
  BY SubSeqProperties

LEMMA SuffixLength ==
  ASSUME NEW S, NEW s \in Seq(S), NEW a \in 1 .. Len(s) + 1
  PROVE  Len(SubSeq(s, a, Len(s))) = Len(s) - a + 1
<1>1. CASE a = Len(s) + 1
  <2>1. SubSeq(s, a, Len(s)) = <<>>
    BY <1>1, SubSeqEmpty
  <2> QED
    BY <1>1, <2>1
<1>2. CASE a <= Len(s)
  BY <1>2
<1> QED
  BY <1>1, <1>2

LEMMA SpliceOver ==
  ASSUME NEW M, NEW a \in GroupsOver(M), NEW b \in GroupsOver(M)
  PROVE  Splice(a, b) \in GroupsOver(M)
<1>1. a.imu \in Seq(M) /\ b.imu \in Seq(M) /\ b.frame \in M
  BY DEF GroupsOver
<1>2. After(b.imu, Last(a.imu).t) \in Seq(M)
  BY <1>1, AfterType
<1>3. a.imu \o After(b.imu, Last(a.imu).t) \in Seq(M)
  BY <1>1, <1>2
<1> QED
  BY <1>1, <1>3 DEF Splice, GroupsOver

\* Dropping shortens the queue by exactly one group.
LEMMA DropOldestOver ==
  ASSUME NEW M, NEW q \in Seq(GroupsOver(M)), Len(q) >= 2
  PROVE  DropOldest(q) \in Seq(GroupsOver(M)) /\ Len(DropOldest(q)) = Len(q) - 1
<1>1. Splice(q[1], q[2]) \in GroupsOver(M)
  BY SpliceOver
<1>2. /\ SubSeq(q, 3, Len(q)) \in Seq(GroupsOver(M))
      /\ Len(SubSeq(q, 3, Len(q))) = Len(q) - 2
  <2>1. Len(q) \in 0 .. Len(q) /\ Len(q) >= 2 /\ 3 \in Nat \ {0}
    BY LenProperties
  <2>2. SubSeq(q, 3, Len(q)) \in Seq(GroupsOver(M))
    BY <2>1, SliceType
  <2>3. Len(SubSeq(q, 3, Len(q))) = Len(q) - 2
    <3>1. 3 \in 1 .. Len(q) + 1
      BY <2>1
    <3>2. Len(SubSeq(q, 3, Len(q))) = Len(q) - 3 + 1
      BY <3>1, SuffixLength
    <3> QED
      BY <2>1, <3>2
  <2> QED
    BY <2>2, <2>3
<1>3. <<Splice(q[1], q[2])>> \in Seq(GroupsOver(M)) /\ Len(<<Splice(q[1], q[2])>>) = 1
  BY <1>1
<1> QED
  BY <1>2, <1>3, ConcatProperties DEF DropOldest

LEMMA DropOldestType ==
  ASSUME NEW q \in Seq(Group), Len(q) >= 2
  PROVE  DropOldest(q) \in Seq(Group) /\ Len(DropOldest(q)) = Len(q) - 1
<1>1. Group = GroupsOver(Message)
  BY DEF Group, GroupsOver
<1> HIDE DEF Group
<1> QED
  BY <1>1, DropOldestOver

-------------------------------------------------------------------------------
LEMMA Singleton ==
  ASSUME NEW S, NEW x \in S
  PROVE  <<x>> \in AtMostOne(S)
  BY DEF AtMostOne

LEMMA TypeInit == Init => TypeOK
<1> SUFFICES ASSUME Init PROVE TypeOK
  OBVIOUS
<1>1. 0 \in Timelines
  BY QueueAssumption
<1>2. \A S : <<>> \in AtMostOne(S)
  BY DEF AtMostOne
<1>3. group \in [Producers -> AtMostOne(Group)]
  BY <1>2 DEF Init
<1>4. out \in AtMostOne(Group) /\ outFrom \in AtMostOne(Stamps) /\ anchor \in AtMostOne(Stamps)
  BY <1>2 DEF Init
<1>5. pc \in [Threads -> {"idle", "next", "enqueue", "calling", "asleep", "processing", "done"}]
  BY DEF Init, Threads, Producers
<1>6. /\ pc["worker"] \in {"calling", "asleep", "processing", "done"}
      /\ \A p \in Producers : pc[p] = "idle" /\ group[p] = <<>>
  BY DEF Init, Threads, Producers
<1>7. /\ imu_ \in Seq(Message) /\ frames_ \in Seq(Message) /\ queue_ \in Seq(Group)
      /\ received \in Seq(Stamps)
  BY DEF Init
<1>8. /\ accepted \in Nat /\ newest \in Nat /\ taken \in Nat /\ dropped \in Nat
      /\ epoch_ \in Timelines /\ outEpoch \in Timelines
      /\ mutex_ \in Producers \cup {Free}
      /\ havePrev_ \in BOOLEAN /\ stopped_ \in BOOLEAN /\ evicted \in BOOLEAN
  BY <1>1 DEF Init
<1> QED
  BY <1>3, <1>4, <1>5, <1>6, <1>7, <1>8 DEF TypeOK

\* Every range of TypeOK is kept by every step.
LEMMA TypeStep == TypeOK /\ [Next]_vars => TypeOK'
<1> SUFFICES ASSUME TypeOK, [Next]_vars PROVE TypeOK'
  OBVIOUS
<1> USE DEF Producers, Threads, Free, Goto
<1>1. ASSUME NEW t \in Stamps, PushImu(t) PROVE TypeOK'
  <2>1. [t |-> t, tl |-> epoch_] \in Message
    BY DEF TypeOK, Message
  <2>2. imu_' \in Seq(Message)
    BY <1>1, <2>1, BufferImuOver DEF PushImu, TypeOK
  <2>3. received' \in Seq(Stamps)
    BY <1>1 DEF PushImu, TypeOK
  <2>4. evicted' \in BOOLEAN
    BY <1>1 DEF PushImu, TypeOK, Overflows
  <2>5. mutex_' = "imu" /\ pc' = [pc EXCEPT !["imu"] = "next"]
    BY <1>1 DEF PushImu, Lock
  <2> QED
    BY <1>1, <2>2, <2>3, <2>4, <2>5 DEF PushImu, TypeOK, outVars
<1>2. ASSUME NEW t \in Stamps, PushFrame(t) PROVE TypeOK'
  <2>1. [t |-> t, tl |-> epoch_] \in Message
    BY DEF TypeOK, Message
  <2>2. frames_' \in Seq(Message)
    BY <1>2, <2>1 DEF PushFrame, TypeOK
  <2>3. mutex_' = "image" /\ pc' = [pc EXCEPT !["image"] = "next"]
    BY <1>2 DEF PushFrame, Lock
  <2>4. newest' \in Nat /\ accepted' \in Nat
    BY <1>2, SyncAssumption DEF PushFrame, TypeOK
  <2> QED
    BY <1>2, <2>2, <2>3, <2>4 DEF PushFrame, TypeOK, outVars
<1>3. ASSUME NEW p \in Producers, SyncNext(p) PROVE TypeOK'
  <2>1. imu_ # <<>> /\ frames_ # <<>>
    BY <1>3 DEF SyncNext, Releasable
  <2>2. NextGroup(imu_, frames_, havePrev_) \in Group
    BY <2>1, NextGroupType DEF TypeOK
  <2>3. group' \in [Producers -> AtMostOne(Group)]
        /\ \A q \in Producers : group'[q] # <<>> <=> pc'[q] = "enqueue"
    <3>1. <<NextGroup(imu_, frames_, havePrev_)>> \in AtMostOne(Group)
      BY <2>2 DEF AtMostOne
    <3>2. group' = [group EXCEPT ![p] = <<NextGroup(imu_, frames_, havePrev_)>>]
          /\ pc' = [pc EXCEPT ![p] = "enqueue"]
      BY <1>3 DEF SyncNext
    <3> QED
      BY <3>1, <3>2 DEF TypeOK
  <2>4. frames_' \in Seq(Message)
    BY <1>3, <2>1 DEF SyncNext, TypeOK
  <2>5. imu_' \in Seq(Message)
    <3>1. PICK k \in 1 .. Len(imu_) : imu_' = SubSeq(imu_, k, Len(imu_))
      BY <1>3, <2>1, TrimIsTail DEF SyncNext, TypeOK
    <3> QED
      BY <3>1, SliceType DEF TypeOK
  <2>6. pc' = [pc EXCEPT ![p] = "enqueue"] /\ havePrev_' = TRUE
    BY <1>3 DEF SyncNext
  <2> QED
    BY <1>3, <2>3, <2>4, <2>5, <2>6 DEF SyncNext, TypeOK, outVars, history
<1>4. ASSUME NEW p \in Producers, ReleaseReturns(p) PROVE TypeOK'
  BY <1>4 DEF ReleaseReturns, TypeOK, syncVars, outVars, history
<1>5. ASSUME NEW p \in Producers, Enqueue(p) PROVE TypeOK'
  <2> DEFINE pushed == queue_ \o group[p]
  <2>1. pushed \in Seq(Group)
    BY DEF TypeOK, AtMostOne
  <2>2. queue_' \in Seq(Group)
    <3>1. CASE Full(pushed)
      <4>1. Len(pushed) >= 2
        BY <2>1, <3>1, QueueAssumption DEF Full
      <4> QED
        BY <1>5, <2>1, <3>1, <4>1, DropOldestType DEF Enqueue
    <3>2. CASE ~Full(pushed)
      BY <1>5, <2>1, <3>2 DEF Enqueue
    <3> QED
      BY <3>1, <3>2
  <2>3. dropped' \in Nat
    BY <1>5 DEF Enqueue, TypeOK
  <2>4. anchor' \in AtMostOne(Stamps)
    <3>1. CASE Full(pushed)
      <4>1. pushed[1] \in Group
        BY <2>1, <3>1, QueueAssumption DEF Full
      <4>2. pushed[1].frame.t \in Stamps
        BY <4>1 DEF Group, Message
      <4>3. <<pushed[1].frame.t>> \in AtMostOne(Stamps)
        BY <4>2, Singleton
      <4> QED
        BY <1>5, <4>3 DEF Enqueue, TypeOK
    <3>2. CASE ~Full(pushed)
      BY <1>5, <3>2 DEF Enqueue, TypeOK
    <3> QED
      BY <3>1, <3>2
  <2>5. group' = [group EXCEPT ![p] = <<>>]
        /\ pc' = [pc EXCEPT ![p] = "next", !["worker"] = Woken(@)]
        /\ pc[p] = "enqueue"
    BY <1>5 DEF Enqueue, MovedFrom
  <2>6. <<>> \in AtMostOne(Group)
    BY DEF AtMostOne
  <2>7. Woken(pc["worker"]) \in {"calling", "asleep", "processing", "done"}
    BY DEF Woken, TypeOK
  <2> QED
    BY <1>5, <2>2, <2>3, <2>4, <2>5, <2>6, <2>7
       DEF Enqueue, TypeOK, syncVars, outVars
<1>6. ASSUME NEW p \in Producers, Reset(p) PROVE TypeOK'
  <2>1. epoch_' \in Timelines
    BY <1>6, QueueAssumption DEF Reset, TypeOK
  <2>2. <<>> \in AtMostOne(Stamps)
    BY DEF AtMostOne
  <2>3. /\ imu_' = <<>> /\ frames_' = <<>> /\ queue_' = <<>> /\ received' = <<>>
        /\ anchor' = <<>> /\ havePrev_' = FALSE /\ evicted' = FALSE
        /\ accepted' = 0 /\ newest' = 0 /\ taken' = 0 /\ dropped' = 0
        /\ UNCHANGED <<stopped_, mutex_, pc, group, out, outEpoch, outFrom>>
    BY <1>6 DEF Reset, Clear, outVars
  <2>4. /\ imu_' \in Seq(Message) /\ frames_' \in Seq(Message)
        /\ queue_' \in Seq(Group) /\ received' \in Seq(Stamps)
    BY <2>3
  <2> QED
    BY <2>1, <2>2, <2>3, <2>4 DEF TypeOK
<1>7. CASE Stop
  BY <1>7 DEF Stop, NotifyAll, Woken, TypeOK, syncVars, outVars, history
<1>8. CASE Pop
  <2>1. Head(queue_) \in Group /\ Tail(queue_) \in Seq(Group)
    BY <1>8 DEF Pop, TypeOK
  <2>2. <<Head(queue_)>> \in AtMostOne(Group)
        /\ <<Head(queue_).frame.t>> \in AtMostOne(Stamps)
    <3>1. Head(queue_).frame.t \in Stamps
      BY <2>1 DEF Group, Message
    <3> QED
      BY <2>1, <3>1 DEF AtMostOne
  <2>3. pc' = [pc EXCEPT !["worker"] = "processing"] /\ taken' \in Nat
    BY <1>8 DEF Pop, TypeOK
  <2>4. out' \in AtMostOne(Group) /\ outFrom' \in AtMostOne(Stamps)
        /\ anchor' \in AtMostOne(Stamps) /\ outEpoch' \in Timelines
    BY <1>8, <2>2 DEF Pop, TypeOK
  <2>5. queue_' \in Seq(Group)
    BY <1>8, <2>1 DEF Pop
  <2>6. UNCHANGED <<imu_, frames_, havePrev_, stopped_, epoch_, mutex_, group,
                    received, accepted, newest, dropped, evicted>>
    BY <1>8 DEF Pop, syncVars
  <2> QED
    BY <2>3, <2>4, <2>5, <2>6 DEF TypeOK
<1>9. CASE Sleep \/ ReturnFalse \/ SpuriousWake
  BY <1>9 DEF Sleep, ReturnFalse, SpuriousWake, TypeOK, syncVars, outVars, history
<1>10. CASE Processed
  <2>1. <<>> \in AtMostOne(Group) /\ <<>> \in AtMostOne(Stamps)
    BY DEF AtMostOne
  <2> QED
    BY <1>10, <2>1 DEF Processed, TypeOK, syncVars, history
<1>11. CASE UNCHANGED vars
  BY <1>11 DEF vars, TypeOK, syncVars, outVars, history
<1> QED
  BY <1>1, <1>2, <1>3, <1>4, <1>5, <1>6, <1>7, <1>8, <1>9, <1>10, <1>11
     DEF Next, Produce, Work, Terminated

\* Whatever threads call and in whatever order, every variable keeps its range.
THEOREM TypeCorrect == Safety => []TypeOK
  BY TypeInit, TypeStep, PTL DEF Safety

-------------------------------------------------------------------------------
(***************************************************************************)
(* The mutex and what it protects.  A thread between its push and the        *)
(* return of release() owns the mutex; when nobody does, nothing that could  *)
(* have been released is still held.  The second part needs the first: a     *)
(* free mutex means that no release() is half way through its loop.          *)
(***************************************************************************)
MutexInv == TypeOK /\ MutualExclusion /\ NothingReadyIsHeld

LEMMA MutexInit == Init => MutexInv
<1> SUFFICES ASSUME Init PROVE MutualExclusion /\ NothingReadyIsHeld
  BY TypeInit DEF MutexInv
<1> QED
  BY DEF Init, MutualExclusion, NothingReadyIsHeld, Releasable, Producers, Threads, Free

LEMMA MutexStep == MutexInv /\ [Next]_vars => MutexInv'
<1> SUFFICES ASSUME MutexInv, [Next]_vars
             PROVE  MutualExclusion' /\ NothingReadyIsHeld'
  BY TypeStep DEF MutexInv
<1> USE DEF MutexInv, TypeOK, Producers, Threads, Free, Goto, MutualExclusion
<1>1. ASSUME NEW t \in Stamps, PushImu(t) \/ PushFrame(t)
      PROVE  MutualExclusion' /\ NothingReadyIsHeld'
  BY <1>1 DEF PushImu, PushFrame, Lock, NothingReadyIsHeld
<1>2. ASSUME NEW p \in Producers, SyncNext(p)
      PROVE  MutualExclusion' /\ NothingReadyIsHeld'
  BY <1>2 DEF SyncNext, NothingReadyIsHeld
<1>3. ASSUME NEW p \in Producers, ReleaseReturns(p)
      PROVE  MutualExclusion' /\ NothingReadyIsHeld'
  BY <1>3 DEF ReleaseReturns, NothingReadyIsHeld, syncVars
<1>4. ASSUME NEW p \in Producers, Enqueue(p)
      PROVE  MutualExclusion' /\ NothingReadyIsHeld'
  BY <1>4 DEF Enqueue, NothingReadyIsHeld, syncVars
<1>5. ASSUME NEW p \in Producers, Reset(p)
      PROVE  MutualExclusion' /\ NothingReadyIsHeld'
  BY <1>5 DEF Reset, Clear, NothingReadyIsHeld, Releasable
<1>6. CASE Stop \/ Pop \/ Sleep \/ ReturnFalse \/ SpuriousWake \/ Processed
  BY <1>6 DEF Stop, NotifyAll, Pop, Sleep, ReturnFalse, SpuriousWake, Processed,
              NothingReadyIsHeld, syncVars
<1>7. CASE UNCHANGED vars
  BY <1>7 DEF vars, syncVars, NothingReadyIsHeld
<1> QED
  BY <1>1, <1>2, <1>3, <1>4, <1>5, <1>6, <1>7 DEF Next, Produce, Work, Terminated

\* One thread at a time is inside release(), and it is the owner of the mutex.
THEOREM Exclusion == Safety => []MutualExclusion
<1>1. MutexInv => MutualExclusion
  BY DEF MutexInv
<1> QED
  BY <1>1, MutexInit, MutexStep, PTL DEF Safety

\* Whenever no push is under way, no frame whose IMU has arrived is left waiting.
THEOREM NothingHeld == Safety => []NothingReadyIsHeld
<1>1. MutexInv => NothingReadyIsHeld
  BY DEF MutexInv
<1> QED
  BY <1>1, MutexInit, MutexStep, PTL DEF Safety

-------------------------------------------------------------------------------
(***************************************************************************)
(* The queue.                                                                *)
(***************************************************************************)
BoundInv == TypeOK /\ QueueBounded

LEMMA OneElement ==
  ASSUME NEW S, NEW s \in Seq(S), s # <<>>, Len(s) <= 1
  PROVE  Len(s) = 1
<1>1. Len(s) \in Nat \ {0}
  BY EmptySeq
<1> QED
  BY <1>1

LEMMA LengthOfConcat ==
  ASSUME NEW S, NEW s \in Seq(S), NEW t \in Seq(S), Len(t) = 1
  PROVE  s \o t \in Seq(S) /\ Len(s \o t) = Len(s) + 1
<1>1. s \o t \in Seq(S) /\ Len(s \o t) = Len(s) + Len(t)
  BY ConcatProperties
<1> QED
  BY <1>1

\* After push_back and the overflow branch the queue is within its capacity again.
LEMMA EnqueueLength ==
  ASSUME TypeOK, QueueBounded, NEW p \in Producers, Enqueue(p)
  PROVE  /\ Len(group[p]) = 1
         /\ \/ Len(queue_') = Len(queue_) + 1 /\ dropped' = dropped
            \/ Len(queue_') = Len(queue_) /\ dropped' = dropped + 1
         /\ Len(queue_') <= Capacity
<1> DEFINE pushed == queue_ \o group[p]
<1>0. group[p] \in AtMostOne(Group) /\ group[p] # <<>> /\ queue_ \in Seq(Group)
  BY DEF TypeOK, Enqueue
<1>1. group[p] \in Seq(Group) /\ Len(group[p]) = 1
  <2>1. group[p] \in Seq(Group) /\ Len(group[p]) <= 1
    BY <1>0 DEF AtMostOne
  <2> QED
    BY <1>0, <2>1, OneElement
<1>2. pushed \in Seq(Group) /\ Len(pushed) = Len(queue_) + 1
  BY <1>0, <1>1, LengthOfConcat
<1> HIDE DEF pushed
<1>3. CASE Full(pushed)
  <2>0. Len(queue_) \in Nat
    BY <1>0, LenProperties
  <2>1. Len(pushed) >= 2
    BY <1>2, <1>3, QueueAssumption DEF Full
  <2>2. queue_' = DropOldest(pushed) /\ dropped' = dropped + 1
    BY <1>3 DEF Enqueue, pushed
  <2>3. Len(queue_') = Len(pushed) - 1
    BY <1>2, <2>1, <2>2, DropOldestType
  <2>4. dropped \in Nat /\ Len(queue_) <= Capacity
    BY DEF TypeOK, QueueBounded
  <2> QED
    BY <1>1, <1>2, <2>0, <2>2, <2>3, <2>4, QueueAssumption
<1>4. CASE ~Full(pushed)
  <2>1. queue_' = pushed /\ dropped' = dropped
    BY <1>4 DEF Enqueue, pushed
  <2>2. dropped \in Nat /\ Len(queue_) \in Nat
    BY <1>0, LenProperties DEF TypeOK
  <2> QED
    BY <1>1, <1>2, <1>4, <2>1, <2>2, QueueAssumption DEF Full
<1> QED
  BY <1>3, <1>4

LEMMA BoundInit == Init => BoundInv
<1> SUFFICES ASSUME Init PROVE QueueBounded
  BY TypeInit DEF BoundInv
<1>1. Len(queue_) = 0
  BY DEF Init
<1> QED
  BY <1>1, QueueAssumption DEF QueueBounded

LEMMA BoundStep == BoundInv /\ [Next]_vars => BoundInv'
<1> SUFFICES ASSUME BoundInv, [Next]_vars PROVE QueueBounded'
  BY TypeStep DEF BoundInv
<1> USE QueueAssumption DEF BoundInv, QueueBounded
<1>1. ASSUME NEW p \in Producers, Enqueue(p) PROVE QueueBounded'
  BY <1>1, EnqueueLength
<1>2. ASSUME NEW p \in Producers, Reset(p) PROVE QueueBounded'
  <2>1. queue_' = <<>>
    BY <1>2 DEF Reset
  <2> QED
    BY <2>1
<1>3. CASE Pop
  <2>1. queue_ \in Seq(Group) /\ queue_ # <<>> /\ queue_' = Tail(queue_)
    BY <1>3 DEF Pop, TypeOK
  <2> QED
    BY <2>1
<1>4. CASE UNCHANGED queue_
  BY <1>4
<1> QED
  BY <1>1, <1>2, <1>3, <1>4
     DEF Next, Produce, Work, Terminated, PushImu, PushFrame, SyncNext, ReleaseReturns,
         Stop, Sleep, ReturnFalse, SpuriousWake, Processed, vars

\* However far the worker falls behind, no more than max_queue_size groups wait.
THEOREM Bounded == Safety => []QueueBounded
<1>1. BoundInv => QueueBounded
  BY DEF BoundInv
<1> QED
  BY <1>1, BoundInit, BoundStep, PTL DEF Safety

-------------------------------------------------------------------------------
(***************************************************************************)
(* Frames are neither lost nor invented: a step moves a frame from one place *)
(* to the next, and the overflow branch moves it into the count.             *)
(***************************************************************************)
CountInv == MutexInv /\ QueueBounded /\ FramesConserved

LEMMA Lengths ==
  ASSUME TypeOK
  PROVE  /\ Len(group["imu"]) \in Nat /\ Len(group["image"]) \in Nat
         /\ Len(queue_) \in Nat /\ Len(frames_) \in Nat
         /\ accepted \in Nat /\ taken \in Nat /\ dropped \in Nat
<1>1. group["imu"] \in Seq(Group) /\ group["image"] \in Seq(Group)
  BY DEF TypeOK, AtMostOne, Producers
<1> QED
  BY <1>1 DEF TypeOK

\* A thread that is not between next() and push_back holds no group.
LEMMA NothingInFlight ==
  ASSUME TypeOK, NEW p \in Producers, pc[p] # "enqueue"
  PROVE  Len(group[p]) = 0
<1>1. group[p] = <<>>
  BY DEF TypeOK
<1> QED
  BY <1>1

LEMMA CountInit == Init => CountInv
<1> SUFFICES ASSUME Init PROVE FramesConserved
  BY BoundInit, MutexInit DEF CountInv, BoundInv
<1>1. /\ Len(group["imu"]) = 0 /\ Len(group["image"]) = 0
      /\ Len(frames_) = 0 /\ Len(queue_) = 0
  BY DEF Init, Producers
<1>2. accepted = 0 /\ taken = 0 /\ dropped = 0
  BY DEF Init
<1> QED
  BY <1>1, <1>2 DEF FramesConserved

LEMMA CountStep == CountInv /\ [Next]_vars => CountInv'
<1> SUFFICES ASSUME CountInv, [Next]_vars PROVE FramesConserved'
  BY BoundStep, MutexStep DEF CountInv, BoundInv, MutexInv
<1> DEFINE waiting  == Len(frames_)
           byImu    == Len(group["imu"])
           byImage  == Len(group["image"])
           queued   == Len(queue_)
           balanced == accepted = waiting + byImu + byImage + queued + taken + dropped
<1>a. TypeOK /\ TypeOK' /\ QueueBounded /\ MutualExclusion
  BY TypeStep DEF CountInv, MutexInv
<1>b. /\ waiting \in Nat /\ byImu \in Nat /\ byImage \in Nat /\ queued \in Nat
      /\ accepted \in Nat /\ taken \in Nat /\ dropped \in Nat
  BY <1>a, Lengths
<1>c. balanced
  BY DEF CountInv, FramesConserved
<1>d. SUFFICES balanced'
  BY DEF FramesConserved
<1>1. ASSUME NEW t \in Stamps, PushFrame(t) PROVE balanced'
  <2>1. waiting' = waiting + 1
    BY <1>a, <1>1 DEF PushFrame, TypeOK
  <2>2. /\ accepted' = accepted + 1 /\ byImu' = byImu /\ byImage' = byImage
        /\ queued' = queued /\ taken' = taken /\ dropped' = dropped
    BY <1>1 DEF PushFrame
  <2> HIDE DEF waiting, byImu, byImage, queued
  <2> QED
    BY <1>b, <1>c, <2>1, <2>2
<1>2. ASSUME NEW p \in Producers, SyncNext(p) PROVE balanced'
  <2>1. waiting' = waiting - 1
    BY <1>a, <1>2 DEF SyncNext, Releasable, TypeOK
  <2>2. /\ accepted' = accepted /\ queued' = queued
        /\ taken' = taken /\ dropped' = dropped
    BY <1>2 DEF SyncNext, history
  <2>3. Len(group[p]) = 0
    BY <1>a, <1>2, NothingInFlight DEF SyncNext
  <2>4. Len(group'[p]) = 1 /\ \A q \in Producers : q # p => group'[q] = group[q]
    BY <1>a, <1>2 DEF SyncNext, TypeOK
  <2>5. \/ byImu = 0 /\ byImu' = 1 /\ byImage' = byImage
        \/ byImage = 0 /\ byImage' = 1 /\ byImu' = byImu
    BY <2>3, <2>4 DEF Producers
  <2> HIDE DEF waiting, byImu, byImage, queued
  <2> QED
    BY <1>b, <1>c, <2>1, <2>2, <2>5
<1>3. ASSUME NEW p \in Producers, Enqueue(p) PROVE balanced'
  <2>0. Len(group[p]) = 1
    BY <1>a, <1>3, EnqueueLength
  <2>1. \/ queued' = queued + 1 /\ dropped' = dropped
        \/ queued' = queued /\ dropped' = dropped + 1
    BY <1>a, <1>3, EnqueueLength
  <2>2. waiting' = waiting /\ accepted' = accepted /\ taken' = taken
    BY <1>3 DEF Enqueue, syncVars
  <2>3. Len(group'[p]) = 0 /\ \A q \in Producers : q # p => group'[q] = group[q]
    BY <1>a, <1>3 DEF Enqueue, MovedFrom, TypeOK
  <2>5. \/ byImu = 1 /\ byImu' = 0 /\ byImage' = byImage
        \/ byImage = 1 /\ byImage' = 0 /\ byImu' = byImu
    BY <2>0, <2>3 DEF Producers
  <2> HIDE DEF waiting, byImu, byImage, queued
  <2> QED
    BY <1>b, <1>c, <2>1, <2>2, <2>5
<1>4. ASSUME NEW p \in Producers, Reset(p) PROVE balanced'
  <2>1. pc["imu"] # "enqueue" /\ pc["image"] # "enqueue"
    BY <1>a, <1>4 DEF Reset, MutualExclusion, Producers, Free
  <2>2. byImu = 0 /\ byImage = 0
    BY <1>a, <2>1, NothingInFlight DEF Producers
  <2>3. /\ waiting' = 0 /\ queued' = 0 /\ byImu' = byImu /\ byImage' = byImage
        /\ accepted' = 0 /\ taken' = 0 /\ dropped' = 0
    BY <1>4 DEF Reset, Clear
  <2> HIDE DEF waiting, byImu, byImage, queued
  <2> QED
    BY <2>2, <2>3
<1>5. CASE Pop
  <2>1. queued' = queued - 1
    BY <1>a, <1>5 DEF Pop, TypeOK
  <2>2. /\ waiting' = waiting /\ byImu' = byImu /\ byImage' = byImage
        /\ accepted' = accepted /\ taken' = taken + 1 /\ dropped' = dropped
    BY <1>5 DEF Pop, syncVars
  <2> HIDE DEF waiting, byImu, byImage, queued
  <2> QED
    BY <1>b, <1>c, <2>1, <2>2
<1>6. CASE UNCHANGED <<frames_, group, queue_, accepted, taken, dropped>>
  BY <1>6, <1>c
<1> QED
  BY <1>1, <1>2, <1>3, <1>4, <1>5, <1>6
     DEF Next, Produce, Work, Terminated, PushImu, ReleaseReturns,
         Stop, Sleep, ReturnFalse, SpuriousWake, Processed, vars, syncVars, history

\* What the pushes report as dropped accounts for every frame the worker never sees.
THEOREM Conserved == Safety => []FramesConserved
<1>1. CountInv => FramesConserved
  BY DEF CountInv
<1> QED
  BY <1>1, CountInit, CountStep, PTL DEF Safety

-------------------------------------------------------------------------------
(***************************************************************************)
(* The end.  waitPop returns false while the mutex is free, so no release()  *)
(* is under way; and stop() refused every push from then on.                 *)
(***************************************************************************)
DrainInv == MutexInv /\ ShutdownDrained

LEMMA DrainInit == Init => DrainInv
<1> SUFFICES ASSUME Init PROVE ShutdownDrained
  BY MutexInit DEF DrainInv
<1> QED
  BY DEF Init, ShutdownDrained, Threads, Producers

LEMMA DrainStep == DrainInv /\ [Next]_vars => DrainInv'
<1> SUFFICES ASSUME DrainInv, [Next]_vars PROVE ShutdownDrained'
  BY MutexStep DEF DrainInv
<1> USE DEF DrainInv, MutexInv, TypeOK, Producers, Threads, Free, Goto, ShutdownDrained
<1>1. ASSUME NEW t \in Stamps, PushImu(t) \/ PushFrame(t) PROVE ShutdownDrained'
  BY <1>1 DEF PushImu, PushFrame, Accepting
<1>2. ASSUME NEW p \in Producers, Produce(p) PROVE ShutdownDrained'
  BY <1>2 DEF Produce, SyncNext, ReleaseReturns, Enqueue, Woken
<1>3. ASSUME NEW p \in Producers, Reset(p) PROVE ShutdownDrained'
  BY <1>3 DEF Reset
<1>4. CASE ReturnFalse
  <2>1. \A p \in Producers : pc[p] = "idle"
    BY <1>4 DEF ReturnFalse, Calling, MutualExclusion
  <2> QED
    BY <1>4, <2>1 DEF ReturnFalse
<1>5. CASE Stop \/ Pop \/ Sleep \/ SpuriousWake \/ Processed
  BY <1>5 DEF Stop, NotifyAll, Woken, Pop, Sleep, SpuriousWake, Processed, Calling
<1>6. CASE UNCHANGED vars
  BY <1>6 DEF vars
<1> QED
  BY <1>1, <1>2, <1>3, <1>4, <1>5, <1>6 DEF Next, Work, Terminated

\* When the worker's loop has ended, nothing released is left and no push is under way.
THEOREM Drained == Safety => []ShutdownDrained
<1>1. DrainInv => ShutdownDrained
  BY DEF DrainInv
<1> QED
  BY <1>1, DrainInit, DrainStep, PTL DEF Safety

-------------------------------------------------------------------------------
(***************************************************************************)
(* A reset leaves nothing of the previous timeline behind.  Purity is type   *)
(* correctness over the messages of one timeline, so it is proved as such;   *)
(* that it survives reset() needs the mutex, which keeps a reset out of a    *)
(* release() half way through its loop.                                      *)
(***************************************************************************)
OfEpoch(e) == {m \in Message : m.tl = e}

PureInv ==
  /\ MutexInv
  /\ imu_ \in Seq(OfEpoch(epoch_)) /\ frames_ \in Seq(OfEpoch(epoch_))
  /\ queue_ \in Seq(GroupsOver(OfEpoch(epoch_)))
  /\ \A p \in Producers : group[p] \in Seq(GroupsOver(OfEpoch(epoch_)))
  /\ out \in Seq(GroupsOver(OfEpoch(outEpoch)))

\* The invariant says more than the property: every message is also a Message.
LEMMA GroupsAreOfTimeline ==
  ASSUME NEW e, NEW s \in Seq(GroupsOver(OfEpoch(e)))
  PROVE  \A i \in DOMAIN s : GroupOf(s[i], e)
<1> SUFFICES ASSUME NEW i \in DOMAIN s PROVE GroupOf(s[i], e)
  OBVIOUS
<1>1. s[i] \in GroupsOver(OfEpoch(e))
  BY LenProperties, ElementOfSeq
<1>2. s[i].frame \in OfEpoch(e) /\ s[i].imu \in Seq(OfEpoch(e))
  BY <1>1 DEF GroupsOver
<1>3. \A j \in DOMAIN s[i].imu : s[i].imu[j] \in OfEpoch(e)
  BY <1>2, LenProperties, ElementOfSeq
<1> QED
  BY <1>2, <1>3 DEF GroupOf, OfTimeline, OfEpoch

LEMMA PureImplies == PureInv => TimelinePure
<1> SUFFICES ASSUME PureInv PROVE TimelinePure
  OBVIOUS
<1>1. \A i \in DOMAIN imu_ : imu_[i] \in OfEpoch(epoch_)
  BY LenProperties, ElementOfSeq DEF PureInv
<1>2. \A i \in DOMAIN frames_ : frames_[i] \in OfEpoch(epoch_)
  BY LenProperties, ElementOfSeq DEF PureInv
<1>3. OfTimeline(imu_, epoch_) /\ OfTimeline(frames_, epoch_)
  BY <1>1, <1>2 DEF OfTimeline, OfEpoch
<1>4. \A i \in DOMAIN queue_ : GroupOf(queue_[i], epoch_)
  BY GroupsAreOfTimeline DEF PureInv
<1>5. \A p \in Producers : \A i \in DOMAIN group[p] : GroupOf(group[p][i], epoch_)
  BY GroupsAreOfTimeline DEF PureInv
<1>6. \A i \in DOMAIN out : GroupOf(out[i], outEpoch)
  BY GroupsAreOfTimeline DEF PureInv
<1> QED
  BY <1>3, <1>4, <1>5, <1>6 DEF TimelinePure

LEMMA PureInit == Init => PureInv
<1> SUFFICES ASSUME Init PROVE PureInv
  OBVIOUS
<1>1. \A S : <<>> \in Seq(S)
  BY EmptySeq
<1>2. \A p \in Producers : group[p] = <<>>
  BY DEF Init
<1> QED
  BY <1>1, <1>2, MutexInit DEF Init, PureInv

LEMMA PureStep == PureInv /\ [Next]_vars => PureInv'
<1> SUFFICES ASSUME PureInv, [Next]_vars PROVE PureInv'
  OBVIOUS
<1>a. MutexInv' /\ TypeOK /\ MutualExclusion
  BY MutexStep DEF PureInv, MutexInv
<1> DEFINE M == OfEpoch(epoch_)
<1>b. /\ imu_ \in Seq(M) /\ frames_ \in Seq(M) /\ queue_ \in Seq(GroupsOver(M))
      /\ \A p \in Producers : group[p] \in Seq(GroupsOver(M))
      /\ out \in Seq(GroupsOver(OfEpoch(outEpoch)))
  BY DEF PureInv
<1>c. group \in [Producers -> AtMostOne(Group)] /\ epoch_ \in Timelines /\ havePrev_ \in BOOLEAN
  BY <1>a DEF TypeOK
<1>d. ASSUME UNCHANGED <<epoch_, out, outEpoch>>, imu_' \in Seq(M), frames_' \in Seq(M),
             queue_' \in Seq(GroupsOver(M)),
             \A p \in Producers : group'[p] \in Seq(GroupsOver(M))
      PROVE  PureInv'
  BY <1>a, <1>b, <1>d DEF PureInv
<1>1. ASSUME NEW t \in Stamps, PushImu(t) PROVE PureInv'
  <2>1. [t |-> t, tl |-> epoch_] \in M
    BY <1>c DEF Message, OfEpoch
  <2> HIDE DEF M
  <2>2. imu_' \in Seq(M)
    BY <1>1, <1>b, <2>1, BufferImuOver DEF PushImu
  <2> QED
    BY <1>1, <1>b, <1>d, <2>2 DEF PushImu, outVars
<1>2. ASSUME NEW t \in Stamps, PushFrame(t) PROVE PureInv'
  <2>1. [t |-> t, tl |-> epoch_] \in M
    BY <1>c DEF Message, OfEpoch
  <2> HIDE DEF M
  <2>2. frames_' \in Seq(M)
    BY <1>2, <1>b, <2>1, AppendProperties DEF PushFrame
  <2> QED
    BY <1>2, <1>b, <1>d, <2>2 DEF PushFrame, outVars
<1>3. ASSUME NEW p \in Producers, SyncNext(p) PROVE PureInv'
  <2> HIDE DEF M
  <2>1. imu_ # <<>> /\ frames_ # <<>>
    BY <1>3 DEF SyncNext, Releasable
  <2>2. NextGroup(imu_, frames_, havePrev_) \in GroupsOver(M)
    BY <1>b, <1>c, <2>1, NextGroupOver
  <2>3. \A q \in Producers : group'[q] \in Seq(GroupsOver(M))
    <3>1. <<NextGroup(imu_, frames_, havePrev_)>> \in Seq(GroupsOver(M))
      BY <2>2
    <3>2. group' = [group EXCEPT ![p] = <<NextGroup(imu_, frames_, havePrev_)>>]
      BY <1>3 DEF SyncNext
    <3> QED
      BY <1>b, <1>c, <3>1, <3>2
  <2>4. frames_' \in Seq(M)
    BY <1>3, <1>b, <2>1, HeadTailProperties DEF SyncNext
  <2>5. imu_' \in Seq(M)
    <3>1. PICK k \in 1 .. Len(imu_) : imu_' = SubSeq(imu_, k, Len(imu_))
      BY <1>3, <1>b, <2>1, TrimIsTail DEF SyncNext
    <3>2. Len(imu_) \in Nat
      BY <1>b, LenProperties
    <3>3. k \in Nat \ {0} /\ Len(imu_) \in 0 .. Len(imu_)
      BY <3>2
    <3> QED
      BY <1>b, <3>1, <3>3, SliceType
  <2>6. queue_' \in Seq(GroupsOver(M))
    BY <1>3, <1>b DEF SyncNext
  <2> QED
    BY <1>3, <1>d, <2>3, <2>4, <2>5, <2>6 DEF SyncNext, outVars
<1>4. ASSUME NEW p \in Producers, Enqueue(p) PROVE PureInv'
  <2> HIDE DEF M
  <2> DEFINE pushed == queue_ \o group[p]
  <2>1. pushed \in Seq(GroupsOver(M))
    BY <1>b, ConcatProperties
  <2>2. queue_' = IF Full(pushed) THEN DropOldest(pushed) ELSE pushed
    BY <1>4 DEF Enqueue
  <2> HIDE DEF pushed
  <2>3. queue_' \in Seq(GroupsOver(M))
    <3>1. CASE Full(pushed)
      <4>1. Len(pushed) >= 2
        BY <2>1, <3>1, QueueAssumption, LenProperties DEF Full
      <4> QED
        BY <2>1, <2>2, <3>1, <4>1, DropOldestOver
    <3> QED
      BY <2>1, <2>2, <3>1
  <2>4. \A q \in Producers : group'[q] \in Seq(GroupsOver(M))
    <3>1. group' = [group EXCEPT ![p] = <<>>]
      BY <1>4 DEF Enqueue, MovedFrom
    <3>2. <<>> \in Seq(GroupsOver(M))
      BY EmptySeq
    <3> QED
      BY <1>b, <1>c, <3>1, <3>2
  <2> QED
    BY <1>4, <1>b, <1>d, <2>3, <2>4 DEF Enqueue, syncVars, outVars
<1>5. ASSUME NEW p \in Producers, Reset(p) PROVE PureInv'
  <2>1. \A q \in Producers : group[q] = <<>>
    BY <1>5, <1>a DEF Reset, MutualExclusion, TypeOK, Producers, Free
  <2>2. /\ imu_' = <<>> /\ frames_' = <<>> /\ queue_' = <<>>
        /\ UNCHANGED <<group, out, outEpoch>>
    BY <1>5 DEF Reset, Clear, outVars
  <2>3. \A S : <<>> \in Seq(S)
    BY EmptySeq
  <2> QED
    BY <1>a, <1>b, <2>1, <2>2, <2>3 DEF PureInv
<1>6. CASE Pop
  <2> HIDE DEF M
  <2>1. Head(queue_) \in GroupsOver(M) /\ Tail(queue_) \in Seq(GroupsOver(M))
    BY <1>6, <1>b, HeadTailProperties DEF Pop
  <2>2. out' = <<Head(queue_)>> /\ queue_' = Tail(queue_) /\ outEpoch' = epoch_
        /\ UNCHANGED <<imu_, frames_, epoch_, group>>
    BY <1>6 DEF Pop, syncVars
  <2>3. out' \in Seq(GroupsOver(M)) /\ M = OfEpoch(outEpoch') /\ M = OfEpoch(epoch_')
    BY <2>1, <2>2 DEF M
  <2> QED
    BY <1>a, <1>b, <2>1, <2>2, <2>3 DEF PureInv
<1>7. CASE Processed
  <2>1. out' = <<>> /\ UNCHANGED <<imu_, frames_, queue_, epoch_, group, outEpoch>>
    BY <1>7 DEF Processed, syncVars
  <2>2. \A S : <<>> \in Seq(S)
    BY EmptySeq
  <2> QED
    BY <1>a, <1>b, <2>1, <2>2 DEF PureInv
<1>8. CASE UNCHANGED <<imu_, frames_, queue_, epoch_, group, out, outEpoch>>
  BY <1>8, <1>b, <1>d
<1> QED
  BY <1>1, <1>2, <1>3, <1>4, <1>5, <1>6, <1>7, <1>8
     DEF Next, Produce, Work, Terminated, ReleaseReturns, Stop, Sleep, ReturnFalse,
         SpuriousWake, vars, syncVars, outVars

\* Whatever was under way when a restart came, nothing of the old timeline survives it,
\* and a group is never returned with the epoch of another timeline.
THEOREM Pure == Safety => []TimelinePure
  BY PureInit, PureStep, PureImplies, PTL DEF Safety

===============================================================================
