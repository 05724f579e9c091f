-------------------------- MODULE GlassVioNodeProofs --------------------------
(*****************************************************************************)
(* Proofs about GlassVioNode, for every restart jump, length of a replay,    *)
(* number of replays and amount of messages in transit: the gate keeps the   *)
(* replays apart and lets in what is of the one being received, and the      *)
(* tracker, the queue, the estimator and the poses stay apart and in order.  *)
(*                                                                           *)
(* What makes the gate right is what a topic's channel can hold.  The        *)
(* invariant follows each topic through a replay that was started over: the  *)
(* messages of the old one, of which none is so old that it looks like a     *)
(* rewind, then those of the new one, of which the first that gets to the    *)
(* gate is early enough to look like one.                                    *)
(*****************************************************************************)
EXTENDS GlassVioNode, FiniteSetTheorems, TLAPS

LEMMA Settings ==
  /\ Jump \in Nat /\ Jump > 0 /\ MaxUnreadable \in Nat /\ Length \in Nat /\ MaxReplay \in Nat
  /\ Settled \in BOOLEAN
BY NodeAssumption

LEMMA Others ==
  /\ Streams = {"imu", "image"} /\ "imu" # "image"
  /\ Other("imu") = "image" /\ Other("image") = "imu"
<1>1. {o \in Streams : o # "imu"} = {"image"} /\ {o \in Streams : o # "image"} = {"imu"}
  BY DEF Streams
<1>2. Other("imu") \in {o \in Streams : o # "imu"} /\ Other("image") \in {o \in Streams : o # "image"}
  BY <1>1 DEF Other
<1> QED
  BY <1>1, <1>2 DEF Streams

LEMMA MessageType ==
  ASSUME NEW m \in Message
  PROVE  m.t \in Nat /\ m.t > 0 /\ m.replay \in Nat /\ m.replay \in Replays
BY Settings DEF Message, Ticks, Replays

-------------------------------------------------------------------------------
(*****************************************************************************)
(* One topic: its channel ch, the stamp l it last let in and the replay lr   *)
(* that was of; clk, rep and unr are the player's.                           *)
(*****************************************************************************)
\* The first o are of the replay before; the i-th of the new one is no later than its place
\* and the messages dropped as unreadable say.
Split(ch, o, clk, rep, unr) ==
  /\ \A i \in 1 .. Len(ch) : i <= o => ch[i].replay # rep
  /\ \A i \in 1 .. Len(ch) : o < i => ch[i].replay = rep /\ ch[i].t <= unr + (i - o)
  /\ clk <= unr + (Len(ch) - o)

Flow(ch, l, lr, clk, rep, unr) ==
  /\ ch \in Seq(Message) /\ l \in Nat /\ lr \in Nat
  /\ \/ lr = rep /\ l <= clk
     \/ lr + 1 = rep /\ l > Jump + MaxUnreadable
  /\ \A i \in 1 .. Len(ch) : ch[i].replay \in {lr, rep}
  /\ \A i \in 1 .. Len(ch) : ch[i].replay = lr => l < ch[i].t + Jump
  /\ \A i \in 1 .. Len(ch) : ch[i].replay = rep => ch[i].t <= clk
  /\ \A i, j \in 1 .. Len(ch) :
       i < j /\ ch[i].replay = ch[j].replay => ch[i].t < ch[j].t + Jump
  /\ lr # rep => \E o \in 0 .. Len(ch) : Split(ch, o, clk, rep, unr)

LEMMA Appended ==
  ASSUME NEW ch \in Seq(Message), NEW m \in Message
  PROVE  /\ Append(ch, m) \in Seq(Message) /\ Len(Append(ch, m)) = Len(ch) + 1 /\ Len(ch) \in Nat
         /\ \A i \in 1 .. Len(ch) : Append(ch, m)[i] = ch[i] /\ ch[i] \in Message
         /\ Append(ch, m)[Len(ch) + 1] = m
OBVIOUS

LEMMA Taken ==
  ASSUME NEW ch \in Seq(Message), ch # <<>>
  PROVE  /\ Tail(ch) \in Seq(Message) /\ Len(Tail(ch)) = Len(ch) - 1 /\ Len(ch) \in Nat /\ Len(ch) > 0
         /\ Head(ch) = ch[1] /\ ch[1] \in Message
         /\ \A i \in 1 .. Len(Tail(ch)) : Tail(ch)[i] = ch[i + 1] /\ ch[i + 1] \in Message
OBVIOUS

\* A message joins the channel: the next of the replay, or one that was overtaken.
LEMMA FlowSent ==
  ASSUME NEW ch, NEW l, NEW lr, NEW clk \in Nat, NEW rep \in Nat, NEW unr \in Nat,
         NEW m \in Message, NEW next \in Nat,
         Flow(ch, l, lr, clk, rep, unr), m.replay = rep,
         \/ m.t = clk + 1 /\ next = clk + 1
         \/ m.t < clk /\ clk < m.t + Jump /\ next = clk
  PROVE  Flow(Append(ch, m), l, lr, next, rep, unr)
<1> DEFINE n   == Len(ch)
           new == Append(ch, m)
<1>1. /\ ch \in Seq(Message) /\ n \in Nat /\ new \in Seq(Message) /\ Len(new) = n + 1
      /\ \A i \in 1 .. n : new[i] = ch[i] /\ ch[i].t \in Nat
      /\ new[n + 1] = m /\ m.t \in Nat
  BY Appended, MessageType DEF Flow
<1>2. l \in Nat /\ lr \in Nat /\ Jump \in Nat /\ Jump > 0 /\ MaxUnreadable \in Nat
  BY Settings DEF Flow
<1>3. clk <= next /\ m.t <= next /\ clk < m.t + Jump
  BY <1>1, <1>2
<1>4. \/ lr = rep /\ l <= next
      \/ lr + 1 = rep /\ l > Jump + MaxUnreadable
  BY <1>2, <1>3 DEF Flow
<1>5. \A i \in 1 .. n + 1 : i \in 1 .. n \/ i = n + 1
  BY <1>1
<1> HIDE DEF new, n
<1>6. \A i \in 1 .. n + 1 : new[i].replay \in {lr, rep}
  BY <1>1, <1>5 DEF Flow, n
<1>7. \A i \in 1 .. n + 1 : new[i].replay = lr => l < new[i].t + Jump
  <2>1. m.replay = lr => l < m.t + Jump
    BY <1>1, <1>2, <1>3 DEF Flow
  <2> QED
    BY <1>1, <1>5, <2>1 DEF Flow, n
<1>8. \A i \in 1 .. n + 1 : new[i].replay = rep => new[i].t <= next
  BY <1>1, <1>3, <1>5 DEF Flow, n
<1>9. \A i, j \in 1 .. n + 1 :
        i < j /\ new[i].replay = new[j].replay => new[i].t < new[j].t + Jump
  <2> SUFFICES ASSUME NEW i \in 1 .. n + 1, NEW j \in 1 .. n + 1, i < j,
                      new[i].replay = new[j].replay
               PROVE  new[i].t < new[j].t + Jump
    OBVIOUS
  <2>1. i \in 1 .. n
    BY <1>1
  <2>2. CASE j \in 1 .. n
    BY <1>1, <2>1, <2>2 DEF Flow, n
  <2>3. CASE j = n + 1
    <3>1. ch[i].replay = rep
      BY <1>1, <2>1, <2>3
    <3>2. ch[i].t <= clk
      BY <2>1, <3>1 DEF Flow, n
    <3> QED
      BY <1>1, <1>2, <1>3, <2>1, <2>3, <3>2
  <2> QED
    BY <1>5, <2>2, <2>3
<1>10. lr # rep => \E o \in 0 .. n + 1 : Split(new, o, next, rep, unr)
  <2> SUFFICES ASSUME lr # rep PROVE \E o \in 0 .. n + 1 : Split(new, o, next, rep, unr)
    OBVIOUS
  <2>1. PICK o \in 0 .. n : Split(ch, o, clk, rep, unr)
    BY DEF Flow, n
  <2>2. clk <= unr + (n - o)
    BY <2>1 DEF Split, n
  <2>3. \A i \in 1 .. n + 1 : i <= o => new[i].replay # rep
    <3> SUFFICES ASSUME NEW i \in 1 .. n + 1, i <= o PROVE new[i].replay # rep
      OBVIOUS
    <3>1. i \in 1 .. n
      BY <1>1
    <3> QED
      BY <1>1, <2>1, <3>1 DEF Split, n
  <2>4. ASSUME NEW i \in 1 .. n + 1, o < i PROVE new[i].replay = rep /\ new[i].t <= unr + (i - o)
    <3>1. CASE i \in 1 .. n
      BY <1>1, <2>1, <2>4, <3>1 DEF Split, n
    <3>2. CASE i = n + 1
      BY <1>1, <2>2, <3>2
    <3> QED
      BY <1>5, <3>1, <3>2
  <2>5. next <= unr + (n + 1 - o)
    BY <1>1, <2>2
  <2>6. Split(new, o, next, rep, unr) /\ o \in 0 .. n + 1
    BY <1>1, <2>3, <2>4, <2>5 DEF Split
  <2> QED
    BY <2>6
<1>11. Flow(new, l, lr, next, rep, unr)
  BY <1>1, <1>2, <1>4, <1>6, <1>7, <1>8, <1>9, <1>10 DEF Flow
<1> QED
  BY <1>11 DEF new

\* The replay is started over: what is still under way is of the old one.
LEMMA FlowStartedOver ==
  ASSUME NEW ch, NEW l, NEW lr, NEW clk \in Nat, NEW rep \in Nat, NEW unr \in Nat,
         Flow(ch, l, lr, clk, rep, unr), lr = rep, l > Jump + MaxUnreadable
  PROVE  Flow(ch, l, lr, 0, rep + 1, unr)
<1>1. \A i \in 1 .. Len(ch) : ch[i].replay = lr /\ ch[i].replay # rep + 1
  BY DEF Flow
<1>2. Len(ch) \in Nat /\ lr + 1 = rep + 1
  BY DEF Flow
<1>3. Split(ch, Len(ch), 0, rep + 1, unr)
  BY <1>1, <1>2 DEF Split
<1>4. Len(ch) \in 0 .. Len(ch)
  BY <1>2
<1> QED
  BY <1>1, <1>2, <1>3, <1>4 DEF Flow

\* More unreadable images only loosen the bound.
LEMMA FlowLoosened ==
  ASSUME NEW ch, NEW l, NEW lr, NEW clk \in Nat, NEW rep \in Nat, NEW unr \in Nat,
         Flow(ch, l, lr, clk, rep, unr)
  PROVE  Flow(ch, l, lr, clk, rep, unr + 1)
<1>1. ch \in Seq(Message) /\ Len(ch) \in Nat
  BY DEF Flow
<1>2. lr # rep => \E o \in 0 .. Len(ch) : Split(ch, o, clk, rep, unr + 1)
  <2> SUFFICES ASSUME lr # rep PROVE \E o \in 0 .. Len(ch) : Split(ch, o, clk, rep, unr + 1)
    OBVIOUS
  <2>1. PICK o \in 0 .. Len(ch) : Split(ch, o, clk, rep, unr)
    BY DEF Flow
  <2>2. \A i \in 1 .. Len(ch) : ch[i].t \in Nat
    BY <1>1, MessageType
  <2>3. Split(ch, o, clk, rep, unr + 1)
    BY <1>1, <2>1, <2>2 DEF Split
  <2> QED
    BY <2>3
<1> QED
  BY <1>2 DEF Flow

\* The first message of the new replay to reach the gate looks like a rewind; one of the
\* replay the topic is in never does.
LEMMA HeadTells ==
  ASSUME NEW ch, NEW l, NEW lr, NEW clk \in Nat, NEW rep \in Nat, NEW unr \in Nat,
         unr <= MaxUnreadable, Flow(ch, l, lr, clk, rep, unr), ch # <<>>
  PROVE  /\ Head(ch) \in Message /\ Head(ch).replay \in {lr, rep} /\ lr <= rep
         /\ Head(ch).replay = lr => l < Head(ch).t + Jump
         /\ Head(ch).replay # lr => Head(ch).t + Jump <= l
<1>1. ch \in Seq(Message) /\ Head(ch) = ch[1] /\ Len(ch) \in Nat /\ Len(ch) > 0 /\ ch[1] \in Message
  BY Taken DEF Flow
<1>2. ch[1].t \in Nat /\ 1 \in 1 .. Len(ch) /\ l \in Nat /\ Jump \in Nat /\ MaxUnreadable \in Nat
  BY <1>1, MessageType, Settings DEF Flow
<1>3. ASSUME ch[1].replay # lr PROVE ch[1].t + Jump <= l
  <2>1. ch[1].replay = rep /\ lr # rep /\ l > Jump + MaxUnreadable
    BY <1>2, <1>3 DEF Flow
  <2>2. PICK o \in 0 .. Len(ch) : Split(ch, o, clk, rep, unr)
    BY <2>1 DEF Flow
  <2>3. o = 0
    BY <1>1, <1>2, <2>1, <2>2 DEF Split
  <2>4. ch[1].t <= unr + 1
    BY <1>1, <1>2, <2>2, <2>3 DEF Split
  <2> QED
    BY <1>2, <2>1, <2>4
<1>4. lr <= rep
  BY DEF Flow
<1> QED
  BY <1>1, <1>2, <1>3, <1>4 DEF Flow

\* The message at the head has left the channel without being let in: a refused one, or an
\* image that could not be read.
LEMMA FlowDropped ==
  ASSUME NEW ch, NEW l, NEW lr, NEW clk \in Nat, NEW rep \in Nat, NEW unr \in Nat, NEW u,
         Flow(ch, l, lr, clk, rep, unr), ch # <<>>,
         \/ u = unr /\ Head(ch).replay = lr
         \/ u = unr + 1
  PROVE  Flow(Tail(ch), l, lr, clk, rep, u)
<1> DEFINE n    == Len(ch)
           rest == Tail(ch)
<1>1. /\ ch \in Seq(Message) /\ n \in Nat /\ n > 0 /\ rest \in Seq(Message) /\ Len(rest) = n - 1
      /\ Head(ch) = ch[1]
      /\ \A i \in 1 .. n - 1 : rest[i] = ch[i + 1] /\ ch[i + 1] \in Message
  BY Taken DEF Flow
<1>2. l \in Nat /\ lr \in Nat /\ u \in Nat
  BY DEF Flow
<1>3. \A i \in 1 .. n - 1 : i + 1 \in 1 .. n /\ rest[i].t \in Nat
  BY <1>1, MessageType
<1> HIDE DEF rest, n
<1>4. \A i \in 1 .. n - 1 : rest[i].replay \in {lr, rep}
  BY <1>1, <1>3 DEF Flow, n
<1>5. \A i \in 1 .. n - 1 : rest[i].replay = lr => l < rest[i].t + Jump
  BY <1>1, <1>3 DEF Flow, n
<1>6. \A i \in 1 .. n - 1 : rest[i].replay = rep => rest[i].t <= clk
  BY <1>1, <1>3 DEF Flow, n
<1>7. \A i, j \in 1 .. n - 1 :
        i < j /\ rest[i].replay = rest[j].replay => rest[i].t < rest[j].t + Jump
  <2> SUFFICES ASSUME NEW i \in 1 .. n - 1, NEW j \in 1 .. n - 1, i < j,
                      rest[i].replay = rest[j].replay
               PROVE  rest[i].t < rest[j].t + Jump
    OBVIOUS
  <2>1. i + 1 \in 1 .. n /\ j + 1 \in 1 .. n /\ i + 1 < j + 1
    BY <1>1
  <2> QED
    BY <1>1, <2>1 DEF Flow, n
<1>8. ASSUME lr # rep PROVE \E o \in 0 .. n - 1 : Split(rest, o, clk, rep, u)
  <2>1. PICK o \in 0 .. n : Split(ch, o, clk, rep, unr)
    BY <1>8 DEF Flow, n
  <2>2. /\ \A i \in 1 .. n : i <= o => ch[i].replay # rep
        /\ \A i \in 1 .. n : o < i => ch[i].replay = rep /\ ch[i].t <= unr + (i - o)
        /\ clk <= unr + (n - o)
    BY <2>1 DEF Split, n
  <2>3. CASE o = 0
    <3>1. ch[1].replay = rep
      BY <1>1, <2>2, <2>3
    <3>2. u = unr + 1
      BY <1>1, <1>8, <3>1
    <3>3. \A i \in 1 .. n - 1 : rest[i].replay = rep /\ rest[i].t <= u + (i - 0)
      <4> SUFFICES ASSUME NEW i \in 1 .. n - 1 PROVE rest[i].replay = rep /\ rest[i].t <= u + (i - 0)
        OBVIOUS
      <4>1. ch[i + 1].replay = rep /\ ch[i + 1].t <= unr + ((i + 1) - o)
        BY <1>3, <2>2, <2>3
      <4> QED
        BY <1>1, <1>3, <2>3, <3>2, <4>1
    <3>4. clk <= u + ((n - 1) - 0)
      BY <1>1, <2>2, <2>3, <3>2
    <3>5. Split(rest, 0, clk, rep, u)
      BY <1>1, <3>3, <3>4 DEF Split
    <3> QED
      BY <1>1, <3>5
  <2>4. CASE o > 0
    <3> DEFINE d == o - 1
    <3>1. d \in 0 .. n - 1 /\ o = d + 1 /\ unr <= u
      BY <1>1, <2>4
    <3> HIDE DEF d
    <3>2. \A i \in 1 .. n - 1 : i <= d => rest[i].replay # rep
      BY <1>1, <1>3, <2>2, <3>1
    <3>3. \A i \in 1 .. n - 1 : d < i => rest[i].replay = rep /\ rest[i].t <= u + (i - d)
      <4> SUFFICES ASSUME NEW i \in 1 .. n - 1, d < i
                   PROVE  rest[i].replay = rep /\ rest[i].t <= u + (i - d)
        OBVIOUS
      <4>0. i + 1 \in 1 .. n /\ o < i + 1
        BY <1>3, <3>1
      <4>1. ch[i + 1].replay = rep /\ ch[i + 1].t <= unr + ((i + 1) - o)
        BY <2>2, <4>0
      <4>2. (i + 1) - o = i - d /\ i - d \in Int
        BY <3>1
      <4>3. rest[i] = ch[i + 1] /\ rest[i].t \in Nat
        BY <1>1, <1>3
      <4>4. rest[i].t <= unr + (i - d)
        BY <4>1, <4>2, <4>3
      <4>5. rest[i].replay = rep
        BY <4>1, <4>3
      <4>6. unr + (i - d) <= u + (i - d)
        BY <1>2, <3>1, <4>2
      <4>7. rest[i].t <= u + (i - d)
        BY <1>2, <4>2, <4>3, <4>4, <4>6
      <4> QED
        BY <4>5, <4>7
    <3>4. clk <= u + ((n - 1) - d)
      BY <1>1, <1>2, <2>2, <3>1
    <3>5. Split(rest, d, clk, rep, u)
      BY <1>1, <3>2, <3>3, <3>4 DEF Split
    <3> QED
      BY <3>1, <3>5
  <2> QED
    BY <2>3, <2>4
<1>9. \/ lr = rep /\ l <= clk
      \/ lr + 1 = rep /\ l > Jump + MaxUnreadable
  BY DEF Flow
<1>10. Flow(rest, l, lr, clk, rep, u)
  BY <1>1, <1>2, <1>4, <1>5, <1>6, <1>7, <1>8, <1>9 DEF Flow
<1> QED
  BY <1>10 DEF rest

\* The message at the head is let in: one more of the same replay, or the new one's first.
LEMMA FlowAccepted ==
  ASSUME NEW ch, NEW l, NEW lr, NEW clk \in Nat, NEW rep \in Nat, NEW unr \in Nat,
         unr <= MaxUnreadable, Flow(ch, l, lr, clk, rep, unr), ch # <<>>,
         Head(ch).replay = lr => l <= Head(ch).t
  PROVE  Flow(Tail(ch), Head(ch).t, Head(ch).replay, clk, rep, unr)
<1> DEFINE n    == Len(ch)
           rest == Tail(ch)
           m    == ch[1]
<1>1. /\ ch \in Seq(Message) /\ n \in Nat /\ n > 0 /\ rest \in Seq(Message) /\ Len(rest) = n - 1
      /\ Head(ch) = m /\ m \in Message
      /\ \A i \in 1 .. n - 1 : rest[i] = ch[i + 1] /\ ch[i + 1] \in Message
  BY Taken DEF Flow
<1>2. l \in Nat /\ lr \in Nat /\ m.t \in Nat /\ m.replay \in Nat /\ Jump \in Nat /\ MaxUnreadable \in Nat
  BY <1>1, MessageType, Settings DEF Flow
<1>3. \A i \in 1 .. n - 1 : i + 1 \in 1 .. n /\ 1 < i + 1 /\ rest[i].t \in Nat
  BY <1>1, MessageType
<1>4. 1 \in 1 .. n
  BY <1>1
<1>5. /\ \/ lr = rep /\ l <= clk
         \/ lr + 1 = rep /\ l > Jump + MaxUnreadable
      /\ m.replay \in {lr, rep}
      /\ m.replay = rep => m.t <= clk
  BY <1>4 DEF Flow, n
<1>6. m.replay = lr => l <= m.t
  BY <1>1
<1> HIDE DEF rest, n, m
<1>7. ASSUME m.replay # lr
      PROVE  m.replay = rep /\ \A i \in 1 .. n - 1 : rest[i].replay = rep
  <2>1. lr # rep /\ m.replay = rep
    BY <1>5, <1>7
  <2>2. PICK o \in 0 .. n : Split(ch, o, clk, rep, unr)
    BY <2>1 DEF Flow, n
  <2>3. /\ \A i \in 1 .. n : i <= o => ch[i].replay # rep
        /\ \A i \in 1 .. n : o < i => ch[i].replay = rep
    BY <2>2 DEF Split, n
  <2>4. o = 0
    BY <1>1, <1>4, <2>1, <2>3 DEF m
  <2>5. \A i \in 1 .. n - 1 : ch[i + 1].replay = rep
    BY <1>3, <2>3, <2>4
  <2> QED
    BY <1>1, <2>1, <2>5
<1>8. \/ m.replay = rep /\ m.t <= clk
      \/ m.replay + 1 = rep /\ m.t > Jump + MaxUnreadable
  BY <1>2, <1>5, <1>6
<1>9. \A i \in 1 .. n - 1 : rest[i].replay \in {m.replay, rep}
  <2>1. \A i \in 1 .. n - 1 : rest[i].replay \in {lr, rep}
    BY <1>1, <1>3 DEF Flow, n
  <2> QED
    BY <1>7, <2>1
<1>10. \A i \in 1 .. n - 1 : rest[i].replay = m.replay => m.t < rest[i].t + Jump
  BY <1>1, <1>3, <1>4 DEF Flow, n, m
<1>11. \A i \in 1 .. n - 1 : rest[i].replay = rep => rest[i].t <= clk
  BY <1>1, <1>3 DEF Flow, n
<1>12. \A i, j \in 1 .. n - 1 :
         i < j /\ rest[i].replay = rest[j].replay => rest[i].t < rest[j].t + Jump
  <2> SUFFICES ASSUME NEW i \in 1 .. n - 1, NEW j \in 1 .. n - 1, i < j,
                      rest[i].replay = rest[j].replay
               PROVE  rest[i].t < rest[j].t + Jump
    OBVIOUS
  <2>1. i + 1 \in 1 .. n /\ j + 1 \in 1 .. n /\ i + 1 < j + 1
    BY <1>1
  <2> QED
    BY <1>1, <2>1 DEF Flow, n
<1>13. ASSUME m.replay # rep PROVE \E o \in 0 .. Len(rest) : Split(rest, o, clk, rep, unr)
  <2>1. m.replay = lr
    BY <1>5, <1>13
  <2>2. Flow(rest, l, lr, clk, rep, unr)
    BY <1>1, <2>1, FlowDropped DEF rest
  <2> QED
    BY <1>13, <2>1, <2>2 DEF Flow
<1>14. Flow(rest, m.t, m.replay, clk, rep, unr)
  BY <1>1, <1>2, <1>8, <1>9, <1>10, <1>11, <1>12, <1>13 DEF Flow
<1> QED
  BY <1>1, <1>14 DEF rest

-------------------------------------------------------------------------------
(*****************************************************************************)
(* The invariant.                                                            *)
(*****************************************************************************)
Topic(s) == Flow(channel[s], last[s], lastReplay[s], clock, replay, unreadable)

PlayerOK ==
  /\ clock \in Nat /\ replay \in Replays
  /\ unreadable \in Nat /\ unreadable <= MaxUnreadable
  /\ channel \in [Streams -> Seq(Message)]

\* A topic waits exactly while the other one is a replay ahead.
GateOK ==
  /\ last \in [Streams -> Nat] /\ lastReplay \in [Streams -> Nat]
  /\ waiting \in [Streams -> BOOLEAN] /\ timeline \in Nat
  /\ \A s \in Streams : Topic(s)
  /\ \A s \in Streams : waiting[s] <=> lastReplay[s] < lastReplay[Other(s)]

\* What was pushed in this epoch is of the replay of the topic that is ahead.
OriginOK ==
  \A q \in origin : /\ q \in Nat /\ \E s \in Streams : q = lastReplay[s]
                    /\ \A s \in Streams : lastReplay[s] <= q

\* A callback's message is of the replay its topic is in; unless there was a restart
\* meanwhile, that is the one ahead.
HandsOK ==
  /\ pc \in [{"imu", "image", "worker"} -> {"idle", "track", "push", "waiting", "handling", "done"}]
  /\ DOMAIN inHand = Streams /\ epoch \in Nat /\ epoch <= timeline
  /\ state_mutex_ = "imu" <=> pc["imu"] = "push"
  /\ pc["imu"] = "push" => /\ inHand["imu"][1].replay = lastReplay["imu"]
                           /\ lastReplay["image"] <= lastReplay["imu"]
  /\ pc["image"] \in {"track", "push"} =>
       /\ inHand["image"][1].replay = lastReplay["image"]
       /\ epoch = timeline => lastReplay["imu"] <= lastReplay["image"]

\* Unless a reset is owed or about to be done, the tracker remembers its topic's replay.
TracksOK ==
  /\ waiting["image"] => tracker_reset_pending_
  /\ \/ tracker_reset_pending_
     \/ pc["image"] = "track" /\ reset_tracker
     \/ tracker \subseteq {lastReplay["image"]}
  /\ pc["image"] = "track" => reset_tracker \/ tracker \subseteq {inHand["image"][1].replay}
  /\ pc["image"] = "push" => inHand["image"][1].apart

\* Every frame in the queue was pushed in this epoch, with tracks of its own replay.
QueueOK ==
  /\ pending \in Seq({pending[i] : i \in DOMAIN pending})
  /\ \A i \in DOMAIN pending : pending[i].replay \in origin /\ pending[i].apart
  /\ \A i \in DOMAIN handed : handed[i].frame.apart

EstimatorOK ==
  /\ worker_epoch \in Nat /\ worker_epoch <= timeline
  /\ \E q : estimator \subseteq {q}
  /\ worker_epoch = timeline => estimator \subseteq origin

NodeInv == PlayerOK /\ GateOK /\ OriginOK /\ HandsOK /\ TracksOK /\ QueueOK /\ EstimatorOK

LEMMA OneOrNone == ASSUME NEW S, NEW q, S \subseteq {q} PROVE Cardinality(S) <= 1
<1>1. IsFiniteSet({q}) /\ Cardinality({q}) = 1
  BY FS_Singleton
<1>2. Cardinality(S) <= Cardinality({q})
  BY <1>1, FS_Subset
<1> QED
  BY <1>1, <1>2

\* Two replays in one epoch would both be the one ahead.
LEMMA OneOrigin == OriginOK => \E q : origin \subseteq {q}
<1> SUFFICES ASSUME OriginOK PROVE \E q : origin \subseteq {q}
  OBVIOUS
<1>1. \A p, q \in origin : p = q
  <2> SUFFICES ASSUME NEW p \in origin, NEW q \in origin PROVE p = q
    OBVIOUS
  <2>1. p \in Nat /\ q \in Nat /\ p <= q /\ q <= p
    BY DEF OriginOK
  <2> QED
    BY <2>1
<1> QED
  BY <1>1

LEMMA Promised == NodeInv => TimelinesApart /\ EstimatorApart /\ TracksApart
<1> SUFFICES ASSUME NodeInv PROVE TimelinesApart /\ EstimatorApart /\ TracksApart
  OBVIOUS
<1>1. TimelinesApart
  BY OneOrigin, OneOrNone DEF NodeInv, TimelinesApart
<1>2. EstimatorApart
  BY OneOrNone DEF NodeInv, EstimatorOK, EstimatorApart
<1>3. TracksApart
  BY DEF NodeInv, QueueOK, TracksApart
<1> QED
  BY <1>1, <1>2, <1>3

LEMMA NodeInit == Init => NodeInv
<1> SUFFICES ASSUME Init PROVE NodeInv
  OBVIOUS
<1>1. /\ clock = 0 /\ replay = 0 /\ unreadable = 0 /\ channel = [s \in Streams |-> <<>>]
      /\ last = [s \in Streams |-> 0] /\ lastReplay = [s \in Streams |-> 0]
      /\ waiting = [s \in Streams |-> FALSE] /\ origin = {}
      /\ pc = [imu |-> "idle", image |-> "idle", worker |-> "waiting"]
      /\ inHand = [s \in Streams |-> <<>>] /\ epoch = 0 /\ state_mutex_ = "free"
      /\ tracker = {} /\ worker_epoch = 0 /\ estimator = {}
      /\ pending = <<>> /\ handed = <<>> /\ timeline = 0
  BY DEF Init, Queue!Init, Free
<1>2. PlayerOK
  BY <1>1, Settings DEF PlayerOK, Replays
<1>3. Flow(<<>>, 0, 0, 0, 0, 0)
  BY DEF Flow
<1>4. GateOK
  <2>1. \A s \in Streams : Topic(s)
    BY <1>1, <1>3 DEF Topic
  <2>2. \A s \in Streams : Other(s) \in Streams
    BY Others
  <2>3. \A s \in Streams : waiting[s] <=> lastReplay[s] < lastReplay[Other(s)]
    BY <1>1, <2>2
  <2> QED
    BY <1>1, <2>1, <2>3 DEF GateOK
<1>5. OriginOK
  BY <1>1 DEF OriginOK
<1>6. HandsOK
  BY <1>1 DEF HandsOK
<1>7. TracksOK
  BY <1>1, Others DEF TracksOK
<1>8. QueueOK
  BY <1>1 DEF QueueOK
<1>9. EstimatorOK
  BY <1>1 DEF EstimatorOK
<1> QED
  BY <1>2, <1>4, <1>5, <1>6, <1>7, <1>8, <1>9 DEF NodeInv

-------------------------------------------------------------------------------
(*****************************************************************************)
(* The player.                                                               *)
(*****************************************************************************)
\* What the player does is seen by the player's part and the gate's only.
LEMMA PlayerOnly ==
  ASSUME NodeInv, PlayerOK', GateOK',
         UNCHANGED <<gate, tracker_reset_pending_, state_mutex_, pc, locals, tracker, queue, worker,
                     history>>
  PROVE  NodeInv'
<1>1. UNCHANGED <<last, waiting, lastReplay, inHand, epoch, reset_tracker, pending, samples, from, handed,
                  timeline, closed, worker_epoch, estimator, odom, origin, pushed>>
  BY DEF gate, locals, queue, worker, history
<1>2. OriginOK' /\ EstimatorOK'
  BY <1>1 DEF NodeInv, OriginOK, EstimatorOK
<1>3. HandsOK' /\ TracksOK'
  BY <1>1 DEF NodeInv, HandsOK, TracksOK
<1>4. QueueOK'
  BY <1>1 DEF NodeInv, QueueOK
<1> QED
  BY <1>2, <1>3, <1>4 DEF NodeInv

LEMMA PublishKeeps ==
  ASSUME NodeInv, Publish
  PROVE  NodeInv'
<1> DEFINE m == [t |-> clock + 1, replay |-> replay, stale |-> FALSE]
<1>1. PlayerOK /\ GateOK /\ clock < Length /\ clock' = clock + 1 /\ UNCHANGED <<replay, unreadable>>
  BY DEF NodeInv, Publish
<1>2. UNCHANGED <<last, waiting, lastReplay, timeline>>
  BY DEF Publish, gate, queue
<1>3. m \in Message /\ m.t = clock + 1 /\ m.replay = replay
  BY <1>1, Settings DEF Message, Ticks, PlayerOK
<1> HIDE DEF m
<1>4. channel' = [s \in Streams |-> Append(channel[s], m)]
  BY DEF Publish, m
<1>5. clock \in Nat /\ replay \in Nat /\ unreadable \in Nat /\ \A s \in Streams : channel[s] \in Seq(Message)
  BY <1>1, Settings DEF PlayerOK, Replays
<1>6. \A s \in Streams : Topic(s)'
  <2> SUFFICES ASSUME NEW s \in Streams
               PROVE  Flow(channel'[s], last'[s], lastReplay'[s], clock', replay', unreadable')
    BY DEF Topic
  <2>1. Flow(channel[s], last[s], lastReplay[s], clock, replay, unreadable)
    BY <1>1 DEF GateOK, Topic
  <2>2. Flow(Append(channel[s], m), last[s], lastReplay[s], clock + 1, replay, unreadable)
    BY <1>3, <1>5, <2>1, FlowSent
  <2> QED
    BY <1>1, <1>2, <1>4, <2>2
<1>7. PlayerOK'
  BY <1>1, <1>3, <1>4, <1>5 DEF PlayerOK
<1>8. GateOK'
  BY <1>1, <1>2, <1>6 DEF GateOK
<1> QED
  BY <1>7, <1>8, PlayerOnly DEF Publish

LEMMA PublishStaleKeeps ==
  ASSUME NodeInv, NEW s \in Streams, PublishStale(s)
  PROVE  NodeInv'
<1>1. PlayerOK /\ GateOK /\ UNCHANGED <<clock, replay, unreadable, last, waiting, lastReplay, timeline>>
  BY DEF NodeInv, PublishStale, gate, queue
<1>2. PICK t \in Ticks : /\ t < clock /\ clock < t + Jump
                         /\ Send(s, [t |-> t, replay |-> replay, stale |-> TRUE])
  BY DEF PublishStale
<1> DEFINE m == [t |-> t, replay |-> replay, stale |-> TRUE]
<1>3. m \in Message /\ m.t = t /\ m.replay = replay
  BY <1>1 DEF Message, PlayerOK
<1> HIDE DEF m
<1>4. channel' = [channel EXCEPT ![s] = Append(channel[s], m)]
  BY <1>2 DEF Send, m
<1>5. /\ clock \in Nat /\ replay \in Nat /\ unreadable \in Nat
      /\ channel \in [Streams -> Seq(Message)] /\ channel[s] \in Seq(Message)
  BY <1>1, Settings DEF PlayerOK, Replays
<1>6. \A x \in Streams : Topic(x)'
  <2> SUFFICES ASSUME NEW x \in Streams
               PROVE  Flow(channel'[x], last'[x], lastReplay'[x], clock', replay', unreadable')
    BY DEF Topic
  <2>1. Flow(channel[x], last[x], lastReplay[x], clock, replay, unreadable)
    BY <1>1 DEF GateOK, Topic
  <2>2. CASE x = s
    <3>1. Flow(Append(channel[s], m), last[s], lastReplay[s], clock, replay, unreadable)
      BY <1>2, <1>3, <1>5, <2>1, <2>2, FlowSent
    <3> QED
      BY <1>1, <1>4, <1>5, <2>2, <3>1
  <2>3. CASE x # s
    BY <1>1, <1>4, <1>5, <2>1, <2>3
  <2> QED
    BY <2>2, <2>3
<1>7. Append(channel[s], m) \in Seq(Message)
  BY <1>3, <1>5
<1>8. PlayerOK'
  BY <1>1, <1>4, <1>5, <1>7 DEF PlayerOK
<1>9. GateOK'
  BY <1>1, <1>6 DEF GateOK
<1> QED
  BY <1>8, <1>9, PlayerOnly DEF PublishStale

LEMMA StartOverKeeps ==
  ASSUME Settled, NodeInv, StartOver
  PROVE  NodeInv'
<1>1. /\ PlayerOK /\ GateOK /\ replay < MaxReplay /\ replay' = replay + 1 /\ clock' = 0
      /\ UNCHANGED <<unreadable, channel, last, waiting, lastReplay, timeline>>
  BY DEF NodeInv, StartOver, gate, queue
<1>2. \A s \in Streams : lastReplay[s] = replay /\ last[s] > Jump + MaxUnreadable
  BY DEF StartOver
<1>3. clock \in Nat /\ replay \in Nat /\ unreadable \in Nat /\ replay + 1 \in Replays
  BY <1>1, Settings DEF PlayerOK, Replays
<1>4. \A s \in Streams : Topic(s)'
  <2> SUFFICES ASSUME NEW s \in Streams
               PROVE  Flow(channel'[s], last'[s], lastReplay'[s], clock', replay', unreadable')
    BY DEF Topic
  <2>1. Flow(channel[s], last[s], lastReplay[s], clock, replay, unreadable)
    BY <1>1 DEF GateOK, Topic
  <2>2. Flow(channel[s], last[s], lastReplay[s], 0, replay + 1, unreadable)
    BY <1>2, <1>3, <2>1, FlowStartedOver
  <2> QED
    BY <1>1, <2>2
<1>5. PlayerOK'
  BY <1>1, <1>3 DEF PlayerOK
<1>6. GateOK'
  BY <1>1, <1>4 DEF GateOK
<1> QED
  BY <1>5, <1>6, PlayerOnly DEF StartOver

-------------------------------------------------------------------------------
(*****************************************************************************)
(* The gate.                                                                 *)
(*****************************************************************************)
LEMMA OtherTopic ==
  ASSUME NEW s \in Streams
  PROVE  /\ Other(s) \in Streams /\ Other(s) # s /\ Other(Other(s)) = s
         /\ \A x \in Streams : x = s \/ x = Other(s)
BY Others

\* The three ways a stamp is let in: it goes on in its replay, joins the one the other topic
\* is in, or starts one.
LEMMA AcceptCases ==
  ASSUME PlayerOK, GateOK, NEW s \in Streams, NEW o, o = Other(s), channel[s] # <<>>,
         NEW m, m = Head(channel[s]), Accept(s, m)
  PROVE  /\ m \in Message
         /\ last' \in [Streams -> Nat] /\ lastReplay' \in [Streams -> Nat]
         /\ waiting' \in [Streams -> BOOLEAN] /\ timeline' \in Nat
         /\ last'[s] = m.t /\ last'[o] = last[o]
         /\ lastReplay'[s] = m.replay /\ lastReplay'[o] = lastReplay[o]
         /\ ~waiting'[s]
         /\ m.replay = lastReplay[s] => last[s] <= m.t
         /\ \/ /\ m.replay = lastReplay[s] /\ ~waiting[s] /\ ~Restarts(s, m.t)
               /\ waiting'[o] <=> waiting[o]
               /\ UNCHANGED <<queue, history>>
            \/ /\ m.replay = lastReplay[o] /\ lastReplay[s] < lastReplay[o] /\ waiting[s]
               /\ ~Restarts(s, m.t)
               /\ ~waiting'[o] /\ ~waiting[o]
               /\ UNCHANGED <<queue, history>>
            \/ /\ m.replay = lastReplay[s] + 1 /\ lastReplay[o] = lastReplay[s]
               /\ Restarts(s, m.t) /\ waiting'[o]
               /\ Queue!Restart /\ origin' = {}
<1>1. /\ o \in Streams /\ o # s /\ Other(o) = s
      /\ clock \in Nat /\ replay \in Nat /\ unreadable \in Nat /\ unreadable <= MaxUnreadable
      /\ Jump \in Nat /\ Jump > 0 /\ MaxUnreadable \in Nat
  BY OtherTopic, Settings DEF PlayerOK, Replays
<1>2. /\ last \in [Streams -> Nat] /\ lastReplay \in [Streams -> Nat]
      /\ waiting \in [Streams -> BOOLEAN] /\ timeline \in Nat
      /\ waiting[s] <=> lastReplay[s] < lastReplay[o]
      /\ waiting[o] <=> lastReplay[o] < lastReplay[s]
  BY <1>1 DEF GateOK
<1>3. /\ Flow(channel[s], last[s], lastReplay[s], clock, replay, unreadable)
      /\ Flow(channel[o], last[o], lastReplay[o], clock, replay, unreadable)
  BY <1>1 DEF GateOK, Topic
<1>4. /\ m \in Message /\ m.replay \in {lastReplay[s], replay}
      /\ m.replay = lastReplay[s] => last[s] < m.t + Jump
      /\ m.replay # lastReplay[s] => m.t + Jump <= last[s]
  BY <1>1, <1>3, HeadTells
<1>5. m.t \in Nat /\ m.replay \in Nat
  BY <1>4, MessageType
<1>6. /\ \/ lastReplay[s] = replay
         \/ lastReplay[s] + 1 = replay
      /\ \/ lastReplay[o] = replay
         \/ lastReplay[o] + 1 = replay /\ last[o] > 0
  BY <1>1, <1>2, <1>3 DEF Flow
<1>7. /\ Accepts(s, m.t)
      /\ last' = [last EXCEPT ![s] = m.t]
      /\ lastReplay' = [lastReplay EXCEPT ![s] = m.replay]
      /\ waiting' = WaitingAfter(s, m.t)
      /\ IF Restarts(s, m.t)
         THEN Queue!Restart /\ origin' = {} /\ pushed' = [x \in Streams |-> 0]
         ELSE UNCHANGED <<queue, history>>
  BY DEF Accept
<1>8. /\ last' \in [Streams -> Nat] /\ lastReplay' \in [Streams -> Nat]
      /\ last'[s] = m.t /\ last'[o] = last[o]
      /\ lastReplay'[s] = m.replay /\ lastReplay'[o] = lastReplay[o]
  BY <1>1, <1>2, <1>5, <1>7
<1>9. timeline' \in Nat
  BY <1>2, <1>7 DEF Queue!Restart, queue
<1>10. /\ waiting' \in [Streams -> BOOLEAN] /\ ~waiting'[s]
       /\ waiting'[o] <=> IF Restarts(s, m.t) THEN last[o] > 0 ELSE waiting[o]
  <2>1. waiting' = [waiting EXCEPT ![s] = FALSE,
                                   ![o] = IF Restarts(s, m.t) THEN last[o] > 0 ELSE waiting[o]]
    <3>1. waiting' = [waiting EXCEPT ![s] = FALSE,
                                     ![o] = IF Restarts(s, m.t) THEN last[o] > 0 ELSE @]
      BY <1>7 DEF WaitingAfter
    <3> QED
      BY <1>1, <3>1
  <2>2. (IF Restarts(s, m.t) THEN last[o] > 0 ELSE waiting[o]) \in BOOLEAN
    <3>1. waiting[o] \in BOOLEAN
      BY <1>1, <1>2
    <3>2. (last[o] > 0) \in BOOLEAN
      OBVIOUS
    <3> QED
      BY <3>1, <3>2, Zenon
  <2> QED
    BY <1>1, <1>2, <2>1, <2>2
<1>11. CASE m.replay = lastReplay[s]
  <2>1. ~Rewound(s, m.t)
    BY <1>2, <1>4, <1>5, <1>11, <1>1 DEF Rewound
  <2>2. ~waiting[s] /\ ~OutOfOrder(s, m.t) /\ ~Restarts(s, m.t)
    BY <1>7, <2>1 DEF Accepts, Restarts
  <2>3. last[s] <= m.t
    BY <1>2, <1>5, <2>1, <2>2 DEF OutOfOrder
  <2> QED
    BY <1>4, <1>7, <1>8, <1>9, <1>10, <1>11, <2>2, <2>3
<1>12. CASE m.replay # lastReplay[s]
  <2>1. Rewound(s, m.t) /\ m.replay = replay /\ lastReplay[s] + 1 = replay
    BY <1>4, <1>6, <1>12 DEF Rewound
  <2>2. CASE waiting[s]
    <3>1. ~Restarts(s, m.t) /\ lastReplay[s] < lastReplay[o]
      BY <1>2, <2>2 DEF Restarts
    <3>2. lastReplay[o] = replay /\ ~waiting[o]
      BY <1>1, <1>2, <1>6, <2>1, <3>1
    <3> QED
      BY <1>4, <1>7, <1>8, <1>9, <1>10, <1>12, <2>1, <2>2, <3>1, <3>2
  <2>3. CASE ~waiting[s]
    <3>1. Restarts(s, m.t)
      BY <2>1, <2>3 DEF Restarts
    <3>2. lastReplay[o] = lastReplay[s] /\ last[o] > 0
      BY <1>1, <1>2, <1>6, <2>1, <2>3
    <3> QED
      BY <1>4, <1>7, <1>8, <1>9, <1>10, <1>12, <2>1, <3>1, <3>2
  <2> QED
    BY <2>2, <2>3
<1> QED
  BY <1>11, <1>12

\* Letting a message in keeps the player's, the gate's and the epoch's part.
LEMMA AcceptKeeps ==
  ASSUME PlayerOK, GateOK, OriginOK, NEW s \in Streams, channel[s] # <<>>,
         Accept(s, Head(channel[s])),
         channel' = [channel EXCEPT ![s] = Tail(channel[s])],
         UNCHANGED <<clock, replay, unreadable>>
  PROVE  PlayerOK' /\ GateOK' /\ OriginOK'
<1> DEFINE o == Other(s)
           m == Head(channel[s])
<1>1. o \in Streams /\ o # s /\ Other(o) = s /\ \A x \in Streams : x = s \/ x = o
  BY OtherTopic
<1>2. /\ m \in Message
      /\ last' \in [Streams -> Nat] /\ lastReplay' \in [Streams -> Nat]
      /\ waiting' \in [Streams -> BOOLEAN] /\ timeline' \in Nat
      /\ last'[s] = m.t /\ last'[o] = last[o]
      /\ lastReplay'[s] = m.replay /\ lastReplay'[o] = lastReplay[o]
      /\ ~waiting'[s]
      /\ m.replay = lastReplay[s] => last[s] <= m.t
  BY AcceptCases
<1>3. \/ /\ m.replay = lastReplay[s] /\ ~waiting[s]
         /\ waiting'[o] <=> waiting[o]
         /\ UNCHANGED history
      \/ /\ m.replay = lastReplay[o] /\ lastReplay[s] < lastReplay[o]
         /\ ~waiting'[o]
         /\ UNCHANGED history
      \/ /\ m.replay = lastReplay[s] + 1 /\ lastReplay[o] = lastReplay[s]
         /\ waiting'[o] /\ origin' = {}
  <2> HIDE DEF m, o
  <2>1. o = Other(s) /\ m = Head(channel[s])
    BY DEF m, o
  <2> QED
    BY <2>1, AcceptCases
<1>4. /\ clock \in Nat /\ replay \in Nat /\ unreadable \in Nat /\ unreadable <= MaxUnreadable
      /\ channel \in [Streams -> Seq(Message)]
      /\ lastReplay \in [Streams -> Nat] /\ m.replay \in Nat
  BY <1>2, Settings, MessageType DEF PlayerOK, GateOK, Replays
<1>5. /\ Flow(channel[s], last[s], lastReplay[s], clock, replay, unreadable)
      /\ Flow(channel[o], last[o], lastReplay[o], clock, replay, unreadable)
  BY <1>1 DEF GateOK, Topic
<1>6. /\ Tail(channel[s]) \in Seq(Message)
      /\ Flow(Tail(channel[s]), m.t, m.replay, clock, replay, unreadable)
  BY <1>2, <1>4, <1>5, FlowAccepted, Taken
<1> HIDE DEF o, m
<1>7. PlayerOK'
  <2>1. channel' \in [Streams -> Seq(Message)]
    BY <1>4, <1>6
  <2> QED
    BY <2>1 DEF PlayerOK
<1>8. \A x \in Streams : Topic(x)'
  <2> SUFFICES ASSUME NEW x \in Streams
               PROVE  Flow(channel'[x], last'[x], lastReplay'[x], clock', replay', unreadable')
    BY DEF Topic
  <2>1. CASE x = s
    BY <1>2, <1>4, <1>6, <2>1
  <2>2. CASE x = o
    BY <1>1, <1>2, <1>4, <1>5, <2>2
  <2> QED
    BY <1>1, <2>1, <2>2
<1>9. /\ waiting'[s] <=> lastReplay'[s] < lastReplay'[o]
      /\ waiting'[o] <=> lastReplay'[o] < lastReplay'[s]
  <2>1. /\ waiting[s] <=> lastReplay[s] < lastReplay[o]
        /\ waiting[o] <=> lastReplay[o] < lastReplay[s]
    BY <1>1 DEF GateOK, o
  <2>2. lastReplay[s] \in Nat /\ lastReplay[o] \in Nat
    BY <1>1, <1>4
  <2> QED
    BY <1>2, <1>3, <1>4, <2>1, <2>2
<1>10. GateOK'
  <2>1. \A x \in Streams : waiting'[x] <=> lastReplay'[x] < lastReplay'[Other(x)]
    BY <1>1, <1>9 DEF o
  <2> QED
    BY <1>2, <1>8, <2>1 DEF GateOK
<1>11. OriginOK'
  <2>1. CASE origin' = {}
    BY <2>1 DEF OriginOK
  <2>2. CASE UNCHANGED history /\ m.replay = lastReplay[s]
    <3>1. origin' = origin /\ \A x \in Streams : lastReplay'[x] = lastReplay[x]
      BY <1>1, <1>2, <2>2 DEF history
    <3> QED
      BY <3>1 DEF OriginOK
  <2>3. CASE UNCHANGED history /\ m.replay = lastReplay[o] /\ lastReplay[s] < lastReplay[o]
    <3>1. origin' = origin /\ lastReplay'[s] = lastReplay[o] /\ lastReplay'[o] = lastReplay[o]
      BY <1>2, <2>3 DEF history
    <3>2. \A q \in origin : q \in Nat /\ lastReplay[o] <= q /\ (q = lastReplay[s] \/ q = lastReplay[o])
                            /\ lastReplay[s] <= q
      BY <1>1 DEF OriginOK
    <3>3. \A q \in origin : q = lastReplay[o]
      BY <1>1, <1>4, <2>3, <3>2
    <3>4. \A q \in origin : q \in Nat /\ q = lastReplay'[o] /\ lastReplay'[o] <= q /\ lastReplay'[s] <= q
      BY <3>1, <3>2, <3>3
    <3> QED
      BY <1>1, <3>1, <3>4 DEF OriginOK
  <2> QED
    BY <1>3, <2>1, <2>2, <2>3
<1> QED
  BY <1>7, <1>10, <1>11

\* A message that leaves the channel without being let in.
LEMMA DropKeeps ==
  ASSUME PlayerOK, GateOK, NEW s \in Streams, channel[s] # <<>>,
         channel' = [channel EXCEPT ![s] = Tail(channel[s])],
         UNCHANGED <<clock, replay, last, lastReplay, waiting, timeline>>,
         \/ unreadable' = unreadable /\ ~Accepts(s, Head(channel[s]).t)
         \/ unreadable' = unreadable + 1 /\ unreadable < MaxUnreadable
  PROVE  PlayerOK' /\ GateOK'
<1>1. /\ clock \in Nat /\ replay \in Nat /\ unreadable \in Nat /\ unreadable <= MaxUnreadable
      /\ channel \in [Streams -> Seq(Message)] /\ MaxUnreadable \in Nat
      /\ last \in [Streams -> Nat] /\ Jump \in Nat
  BY Settings DEF PlayerOK, GateOK, Replays
<1>2. Tail(channel[s]) \in Seq(Message)
  BY <1>1, Taken
<1>3. PlayerOK'
  <2>1. channel' \in [Streams -> Seq(Message)]
    BY <1>1, <1>2
  <2>2. unreadable' \in Nat /\ unreadable' <= MaxUnreadable
    BY <1>1
  <2> QED
    BY <2>1, <2>2 DEF PlayerOK
<1>4. Flow(channel[s], last[s], lastReplay[s], clock, replay, unreadable)
  BY DEF GateOK, Topic
<1>5. unreadable' = unreadable => Head(channel[s]).replay = lastReplay[s]
  <2> SUFFICES ASSUME unreadable' = unreadable, Head(channel[s]).replay # lastReplay[s] PROVE FALSE
    OBVIOUS
  <2>1. Head(channel[s]).t + Jump <= last[s]
    BY <1>1, <1>4, HeadTells
  <2>2. ~Accepts(s, Head(channel[s]).t)
    BY <1>1
  <2> QED
    BY <2>1, <2>2 DEF Accepts, Rewound, OutOfOrder
<1>6. Flow(Tail(channel[s]), last[s], lastReplay[s], clock, replay, unreadable')
  BY <1>1, <1>4, <1>5, FlowDropped
<1>7. \A x \in Streams : Topic(x)'
  <2> SUFFICES ASSUME NEW x \in Streams
               PROVE  Flow(channel'[x], last'[x], lastReplay'[x], clock', replay', unreadable')
    BY DEF Topic
  <2>1. CASE x = s
    BY <1>1, <1>6, <2>1
  <2>2. CASE x # s
    <3>1. Flow(channel[x], last[x], lastReplay[x], clock, replay, unreadable)
      BY DEF GateOK, Topic
    <3>2. Flow(channel[x], last[x], lastReplay[x], clock, replay, unreadable')
      BY <1>1, <3>1, FlowLoosened
    <3> QED
      BY <1>1, <2>2, <3>2
  <2> QED
    BY <2>1, <2>2
<1>8. GateOK'
  BY <1>7 DEF GateOK
<1> QED
  BY <1>3, <1>8

-------------------------------------------------------------------------------
(*****************************************************************************)
(* The callbacks.                                                            *)
(*****************************************************************************)
LEMMA Dispatched ==
  ASSUME PlayerOK, NEW s \in Streams, Dispatch(s)
  PROVE  /\ pc[s] = "idle" /\ channel[s] # <<>>
         /\ channel' = [channel EXCEPT ![s] = Tail(channel[s])]
         /\ clock' = clock /\ replay' = replay
BY DEF Dispatch

\* A restart empties the queue and leaves what was handed out; the worker's epoch is now an
\* old one.
LEMMA AcceptQueue ==
  ASSUME NodeInv, NEW s \in Streams, channel[s] # <<>>, Accept(s, Head(channel[s])), UNCHANGED worker
  PROVE  QueueOK' /\ EstimatorOK'
<1>1. worker_epoch' = worker_epoch /\ estimator' = estimator
  BY DEF worker
<1>2. timeline \in Nat
  BY DEF NodeInv, GateOK
<1>3. CASE UNCHANGED <<queue, history>>
  <2>1. UNCHANGED <<pending, handed, timeline, origin>>
    BY <1>3 DEF queue, history
  <2> QED
    BY <1>1, <2>1 DEF NodeInv, QueueOK, EstimatorOK
<1>4. CASE Queue!Restart /\ origin' = {}
  <2>1. pending' = <<>> /\ handed' = handed /\ timeline' = timeline + 1
    BY <1>4 DEF Queue!Restart
  <2>2. QueueOK'
    BY <2>1 DEF NodeInv, QueueOK
  <2>3. EstimatorOK'
    BY <1>1, <1>2, <2>1 DEF NodeInv, EstimatorOK
  <2> QED
    BY <2>2, <2>3
<1> QED
  BY <1>3, <1>4 DEF Accept

LEMMA RefuseKeeps ==
  ASSUME NodeInv, NEW s \in Streams, Dispatch(s), Refuse(s), UNCHANGED <<unreadable, tracker, worker>>
  PROVE  NodeInv'
<1>1. UNCHANGED <<last, waiting, lastReplay, timeline, tracker_reset_pending_, state_mutex_, pc, inHand,
                  epoch, reset_tracker, pending, handed, origin, worker_epoch, estimator>>
  BY DEF Refuse, gate, locals, queue, history, worker
<1>2. PlayerOK' /\ GateOK'
  <2>1. PlayerOK /\ GateOK
    BY DEF NodeInv
  <2>2. ~Accepts(s, Head(channel[s]).t)
    BY DEF Refuse
  <2> QED
    BY <1>1, <2>1, <2>2, Dispatched, DropKeeps
<1>3. OriginOK' /\ EstimatorOK'
  BY <1>1 DEF NodeInv, OriginOK, EstimatorOK
<1>4. HandsOK' /\ TracksOK'
  BY <1>1 DEF NodeInv, HandsOK, TracksOK
<1>5. QueueOK'
  BY <1>1 DEF NodeInv, QueueOK
<1> QED
  BY <1>2, <1>3, <1>4, <1>5 DEF NodeInv

LEMMA ImuGateKeeps ==
  ASSUME NodeInv, ImuGate
  PROVE  NodeInv'
<1>1. CASE Refuse("imu")
  BY <1>1, Others, RefuseKeeps DEF ImuGate
<1>2. CASE ~Refuse("imu")
  <2> DEFINE m == Head(channel["imu"])
  <2>1. /\ PlayerOK /\ GateOK /\ OriginOK /\ HandsOK /\ TracksOK
        /\ "imu" \in Streams /\ "image" \in Streams /\ "image" = Other("imu")
    BY Others DEF NodeInv
  <2>2. /\ Accept("imu", m) /\ channel["imu"] # <<>>
        /\ tracker_reset_pending_' = PendingAfter("imu", m.t)
        /\ inHand' = [inHand EXCEPT !["imu"] = <<m>>]
        /\ state_mutex_' = "imu"
        /\ pc' = [pc EXCEPT !["imu"] = "push"]
        /\ UNCHANGED <<epoch, reset_tracker, unreadable, tracker, worker>>
        /\ channel' = [channel EXCEPT !["imu"] = Tail(channel["imu"])]
        /\ clock' = clock /\ replay' = replay
    BY <1>2, <2>1, Dispatched DEF ImuGate
  <2> HIDE DEF m
  <2>3. PlayerOK' /\ GateOK' /\ OriginOK'
    BY <2>1, <2>2, AcceptKeeps DEF m
  <2>4. QueueOK' /\ EstimatorOK'
    BY <2>1, <2>2, AcceptQueue DEF m
  <2>5. /\ lastReplay'["imu"] = m.replay /\ lastReplay'["image"] = lastReplay["image"]
        /\ \/ /\ m.replay = lastReplay["imu"] /\ ~waiting["imu"] /\ ~Restarts("imu", m.t)
              /\ waiting'["image"] <=> waiting["image"]
              /\ timeline' = timeline
           \/ /\ m.replay = lastReplay["image"] /\ ~Restarts("imu", m.t)
              /\ ~waiting'["image"]
              /\ timeline' = timeline
           \/ /\ m.replay = lastReplay["imu"] + 1 /\ lastReplay["image"] = lastReplay["imu"]
              /\ Restarts("imu", m.t)
              /\ timeline' = timeline + 1
    <3>1. m = Head(channel["imu"])
      BY DEF m
    <3> QED
      BY <2>1, <2>2, <3>1, AcceptCases DEF queue, Queue!Restart
  <2>6. /\ lastReplay["imu"] \in Nat /\ lastReplay["image"] \in Nat /\ timeline \in Nat
        /\ waiting["imu"] <=> lastReplay["imu"] < lastReplay["image"]
    BY <2>1 DEF GateOK
  <2>7. /\ pc'["imu"] = "push" /\ pc'["image"] = pc["image"]
        /\ inHand'["imu"][1] = m /\ inHand'["image"] = inHand["image"] /\ DOMAIN inHand' = Streams
        /\ pc' \in [{"imu", "image", "worker"} -> {"idle", "track", "push", "waiting", "handling", "done"}]
    BY <2>1, <2>2 DEF HandsOK
  <2>8. lastReplay'["image"] <= lastReplay'["imu"]
    BY <2>5, <2>6
  <2>9. HandsOK'
    <3>1. epoch \in Nat /\ epoch <= timeline /\ epoch' = epoch
      BY <2>1, <2>2 DEF HandsOK
    <3>2. epoch <= timeline'
      BY <2>5, <2>6, <3>1
    <3>3. ASSUME pc["image"] \in {"track", "push"}, epoch = timeline'
          PROVE  lastReplay'["imu"] <= lastReplay'["image"]
      <4>1. epoch = timeline /\ timeline' = timeline
        BY <2>5, <2>6, <3>1, <3>3
      <4>2. lastReplay["imu"] <= lastReplay["image"]
        BY <2>1, <3>3, <4>1 DEF HandsOK
      <4> QED
        BY <2>5, <2>6, <4>1, <4>2
    <3>4. pc["image"] \in {"track", "push"} => inHand'["image"][1].replay = lastReplay'["image"]
      BY <2>1, <2>5, <2>7 DEF HandsOK
    <3> QED
      BY <2>2, <2>5, <2>7, <2>8, <3>1, <3>2, <3>3, <3>4 DEF HandsOK
  <2>10. TracksOK'
    <3>1. /\ tracker' = tracker /\ reset_tracker' = reset_tracker
          /\ tracker_reset_pending_' <=> tracker_reset_pending_ \/ Restarts("imu", m.t)
      BY <2>2 DEF PendingAfter
    <3>2. waiting'["image"] => tracker_reset_pending_'
      BY <2>1, <2>5, <3>1 DEF TracksOK
    <3> QED
      BY <2>1, <2>5, <2>7, <3>1, <3>2 DEF TracksOK
  <2> QED
    BY <2>3, <2>4, <2>9, <2>10 DEF NodeInv
<1> QED
  BY <1>1, <1>2

LEMMA ImageGateKeeps ==
  ASSUME NodeInv, ImageGate
  PROVE  NodeInv'
<1>1. CASE Refuse("image")
  BY <1>1, Others, RefuseKeeps DEF ImageGate
<1>2. CASE ~Refuse("image")
  <2> DEFINE m == Head(channel["image"])
  <2>1. /\ PlayerOK /\ GateOK /\ OriginOK /\ HandsOK /\ TracksOK
        /\ "imu" \in Streams /\ "image" \in Streams /\ "imu" = Other("image")
    BY Others DEF NodeInv
  <2>2. /\ Accept("image", m) /\ channel["image"] # <<>> /\ state_mutex_ = "free"
        /\ pc["image"] = "idle"
        /\ epoch' = timeline'
        /\ reset_tracker' = PendingAfter("image", m.t)
        /\ tracker_reset_pending_' = FALSE
        /\ inHand' = [inHand EXCEPT !["image"] = <<m>>]
        /\ pc' = [pc EXCEPT !["image"] = "track"]
        /\ UNCHANGED <<state_mutex_, unreadable, tracker, worker>>
        /\ channel' = [channel EXCEPT !["image"] = Tail(channel["image"])]
        /\ clock' = clock /\ replay' = replay
    BY <1>2, <2>1, Dispatched DEF ImageGate, Free
  <2> HIDE DEF m
  <2>3. PlayerOK' /\ GateOK' /\ OriginOK'
    BY <2>1, <2>2, AcceptKeeps DEF m
  <2>4. QueueOK' /\ EstimatorOK'
    BY <2>1, <2>2, AcceptQueue DEF m
  <2>5. /\ lastReplay'["image"] = m.replay /\ lastReplay'["imu"] = lastReplay["imu"]
        /\ ~waiting'["image"]
        /\ \/ m.replay = lastReplay["image"] /\ ~waiting["image"]
           \/ m.replay = lastReplay["imu"] /\ waiting["image"]
           \/ /\ m.replay = lastReplay["image"] + 1 /\ lastReplay["imu"] = lastReplay["image"]
              /\ Restarts("image", m.t)
    <3>1. m = Head(channel["image"])
      BY DEF m
    <3> QED
      BY <2>1, <2>2, <3>1, AcceptCases
  <2>6. /\ lastReplay["imu"] \in Nat /\ lastReplay["image"] \in Nat /\ timeline' \in Nat
        /\ waiting["image"] <=> lastReplay["image"] < lastReplay["imu"]
    BY <2>1, <2>3 DEF GateOK
  <2>7. /\ pc'["image"] = "track" /\ pc'["imu"] = pc["imu"]
        /\ inHand'["image"][1] = m /\ DOMAIN inHand' = Streams
        /\ pc' \in [{"imu", "image", "worker"} -> {"idle", "track", "push", "waiting", "handling", "done"}]
    BY <2>1, <2>2 DEF HandsOK
  <2>8. HandsOK'
    <3>1. lastReplay'["imu"] <= lastReplay'["image"]
      BY <2>5, <2>6
    <3>2. pc["imu"] # "push" /\ state_mutex_' # "imu"
      BY <2>1, <2>2 DEF HandsOK
    <3> QED
      BY <2>2, <2>5, <2>6, <2>7, <3>1, <3>2 DEF HandsOK
  <2>9. TracksOK'
    <3>1. reset_tracker' \/ tracker \subseteq {m.replay}
      <4>1. waiting["image"] => tracker_reset_pending_
        BY <2>1 DEF TracksOK
      <4>2. tracker_reset_pending_ \/ tracker \subseteq {lastReplay["image"]}
        BY <2>1, <2>2 DEF TracksOK
      <4>3. reset_tracker' <=> tracker_reset_pending_ \/ Restarts("image", m.t)
        BY <2>2 DEF PendingAfter
      <4> QED
        BY <2>5, <4>1, <4>2, <4>3
    <3> QED
      BY <2>2, <2>5, <2>7, <3>1 DEF TracksOK
  <2> QED
    BY <2>3, <2>4, <2>8, <2>9 DEF NodeInv
<1> QED
  BY <1>1, <1>2

LEMMA ImageUnreadableKeeps ==
  ASSUME NodeInv, ImageUnreadable
  PROVE  NodeInv'
<1>1. /\ Dispatch("image") /\ unreadable < MaxUnreadable /\ unreadable' = unreadable + 1
      /\ UNCHANGED <<gate, tracker_reset_pending_, state_mutex_, pc, locals, tracker, queue, worker,
                     history>>
  BY DEF ImageUnreadable
<1>2. UNCHANGED <<last, waiting, lastReplay, timeline>>
  BY <1>1 DEF gate, queue
<1>3. PlayerOK' /\ GateOK'
  <2>1. PlayerOK /\ GateOK /\ "image" \in Streams
    BY Others DEF NodeInv
  <2> QED
    BY <1>1, <1>2, <2>1, Dispatched, DropKeeps
<1> QED
  BY <1>1, <1>3, PlayerOnly

\* A sequence is one over its own elements, whatever it was known to be over.
LEMMA OverItsElements ==
  ASSUME NEW S, NEW s \in Seq(S)
  PROVE  s \in Seq({s[i] : i \in DOMAIN s})
OBVIOUS

LEMMA ElementAdded ==
  ASSUME NEW S, NEW s \in Seq(S), NEW e, NEW r, r = Append(s, e)
  PROVE  /\ r \in Seq({r[i] : i \in DOMAIN r})
         /\ \A i \in DOMAIN r : r[i] = e \/ (i \in DOMAIN s /\ r[i] = s[i])
<1>1. s \in Seq(S \cup {e})
  OBVIOUS
<1>2. r \in Seq(S \cup {e})
  BY <1>1
<1>3. r \in Seq({r[i] : i \in DOMAIN r})
  BY <1>2, OverItsElements
<1>4. \A i \in DOMAIN r : r[i] = e \/ (i \in DOMAIN s /\ r[i] = s[i])
  BY <1>1
<1> QED
  BY <1>3, <1>4

LEMMA ElementTaken ==
  ASSUME NEW S, NEW s \in Seq(S), s # <<>>, NEW r, r = Tail(s)
  PROVE  /\ r \in Seq({r[i] : i \in DOMAIN r})
         /\ 1 \in DOMAIN s /\ Head(s) = s[1]
         /\ \A i \in DOMAIN r : i + 1 \in DOMAIN s /\ r[i] = s[i + 1]
<1>1. r \in Seq(S)
  OBVIOUS
<1>2. \A t \in Seq(S) : t \in Seq({t[i] : i \in DOMAIN t})
  BY OverItsElements
<1>3. r \in Seq({r[i] : i \in DOMAIN r})
  BY <1>1, <1>2, Zenon
<1>4. 1 \in DOMAIN s /\ Head(s) = s[1]
  OBVIOUS
<1>5. \A i \in DOMAIN r : i + 1 \in DOMAIN s /\ r[i] = s[i + 1]
  OBVIOUS
<1> QED
  BY <1>3, <1>4, <1>5

LEMMA ImuPushKeeps ==
  ASSUME NodeInv, ImuPush
  PROVE  NodeInv'
<1> DEFINE m == inHand["imu"][1]
<1>1. /\ PlayerOK /\ GateOK /\ OriginOK /\ HandsOK /\ TracksOK /\ QueueOK /\ EstimatorOK
      /\ Streams = {"imu", "image"}
  BY Others DEF NodeInv
<1>2. /\ pc["imu"] = "push" /\ origin' = origin \cup {m.replay}
      /\ inHand' = [inHand EXCEPT !["imu"] = <<>>]
      /\ pc' = [pc EXCEPT !["imu"] = "idle"] /\ state_mutex_' = "free"
      /\ UNCHANGED <<pending, handed, timeline>>
  BY DEF ImuPush, Push, Unlock, Free, Queue!Sample
<1>3. UNCHANGED <<clock, replay, unreadable, channel, last, waiting, lastReplay, tracker_reset_pending_,
                  epoch, reset_tracker, tracker, worker_epoch, estimator>>
  BY DEF ImuPush, player, gate, worker
<1>4. m.replay = lastReplay["imu"] /\ lastReplay["image"] <= lastReplay["imu"]
  BY <1>1, <1>2 DEF HandsOK
<1> HIDE DEF m
<1>5. PlayerOK' /\ GateOK'
  BY <1>1, <1>2, <1>3 DEF PlayerOK, GateOK, Topic
<1>6. OriginOK'
  <2>1. lastReplay["imu"] \in Nat
    BY <1>1 DEF GateOK
  <2>2. lastReplay["imu"] <= lastReplay["imu"]
    BY <2>1
  <2> QED
    BY <1>1, <1>2, <1>3, <1>4, <2>1, <2>2 DEF OriginOK
<1>7. /\ pc'["imu"] = "idle" /\ pc'["image"] = pc["image"]
      /\ inHand'["image"] = inHand["image"] /\ DOMAIN inHand' = Streams
      /\ pc' \in [{"imu", "image", "worker"} -> {"idle", "track", "push", "waiting", "handling", "done"}]
  BY <1>1, <1>2 DEF HandsOK
<1>8. HandsOK' /\ TracksOK'
  BY <1>1, <1>2, <1>3, <1>7 DEF HandsOK, TracksOK
<1>9. QueueOK' /\ EstimatorOK'
  BY <1>1, <1>2, <1>3 DEF QueueOK, EstimatorOK
<1> QED
  BY <1>5, <1>6, <1>8, <1>9 DEF NodeInv

LEMMA TrackKeeps ==
  ASSUME NodeInv, Track
  PROVE  NodeInv'
<1> DEFINE m == inHand["image"][1]
           f == [t |-> m.t, tl |-> epoch, replay |-> m.replay, apart |-> Remembered \subseteq {m.replay}]
<1>1. /\ PlayerOK /\ GateOK /\ OriginOK /\ HandsOK /\ TracksOK /\ QueueOK /\ EstimatorOK
      /\ Streams = {"imu", "image"}
  BY Others DEF NodeInv
<1>2. /\ pc["image"] = "track" /\ tracker' = {m.replay}
      /\ inHand' = [inHand EXCEPT !["image"] = <<f>>]
      /\ pc' = [pc EXCEPT !["image"] = "push"]
  BY DEF Track
<1>3. UNCHANGED <<clock, replay, unreadable, channel, last, waiting, lastReplay, tracker_reset_pending_,
                  state_mutex_, epoch, reset_tracker, timeline, pending, handed, origin, worker_epoch, estimator>>
  BY DEF Track, player, gate, queue, worker, history
<1>4. m.replay = lastReplay["image"] /\ (epoch = timeline => lastReplay["imu"] <= lastReplay["image"])
  BY <1>1, <1>2 DEF HandsOK
<1>5. f.replay = m.replay /\ f.apart
  <2>1. Remembered \subseteq {m.replay}
    BY <1>1, <1>2 DEF TracksOK, Remembered
  <2> QED
    BY <2>1
<1> HIDE DEF m, f
<1>6. PlayerOK' /\ GateOK' /\ OriginOK'
  BY <1>1, <1>3 DEF PlayerOK, GateOK, Topic, OriginOK
<1>7. /\ pc'["image"] = "push" /\ pc'["imu"] = pc["imu"]
      /\ inHand'["image"][1] = f /\ inHand'["imu"] = inHand["imu"] /\ DOMAIN inHand' = Streams
      /\ pc' \in [{"imu", "image", "worker"} -> {"idle", "track", "push", "waiting", "handling", "done"}]
  BY <1>1, <1>2 DEF HandsOK
<1>8. HandsOK'
  BY <1>1, <1>3, <1>4, <1>5, <1>7 DEF HandsOK
<1>9. TracksOK'
  BY <1>1, <1>2, <1>3, <1>4, <1>5, <1>7 DEF TracksOK
<1>10. QueueOK' /\ EstimatorOK'
  BY <1>1, <1>3 DEF QueueOK, EstimatorOK
<1> QED
  BY <1>6, <1>8, <1>9, <1>10 DEF NodeInv

LEMMA ImagePushKeeps ==
  ASSUME NodeInv, ImagePush
  PROVE  NodeInv'
<1> DEFINE f == inHand["image"][1]
<1>1. /\ PlayerOK /\ GateOK /\ OriginOK /\ HandsOK /\ TracksOK /\ QueueOK /\ EstimatorOK
      /\ Streams = {"imu", "image"}
  BY Others DEF NodeInv
<1>2. /\ pc["image"] = "push"
      /\ inHand' = [inHand EXCEPT !["image"] = <<>>]
      /\ pc' = [pc EXCEPT !["image"] = "idle"]
  BY DEF ImagePush, Push
<1>3. UNCHANGED <<clock, replay, unreadable, channel, last, waiting, lastReplay,
                  state_mutex_, epoch, reset_tracker, tracker, worker_epoch, estimator>>
  BY DEF ImagePush, player, gate, worker
<1>4. /\ f.replay = lastReplay["image"] /\ f.apart
      /\ epoch = timeline => lastReplay["imu"] <= lastReplay["image"]
  BY <1>1, <1>2 DEF HandsOK, TracksOK
<1>5. \/ /\ epoch # timeline /\ tracker_reset_pending_'
         /\ UNCHANGED <<pending, handed, timeline, origin>>
      \/ /\ epoch = timeline /\ pending' = Append(pending, f) /\ origin' = origin \cup {f.replay}
         /\ UNCHANGED <<handed, timeline, tracker_reset_pending_>>
  BY DEF ImagePush, Push, Queue!Frame, queue, history
<1> HIDE DEF f
<1>6. PlayerOK' /\ GateOK'
  BY <1>1, <1>3, <1>5 DEF PlayerOK, GateOK, Topic
<1>7. OriginOK'
  <2>1. lastReplay["image"] \in Nat
    BY <1>1 DEF GateOK
  <2>2. lastReplay["image"] <= lastReplay["image"]
    BY <2>1
  <2> QED
    BY <1>1, <1>3, <1>4, <1>5, <2>1, <2>2 DEF OriginOK
<1>8. /\ pc'["image"] = "idle" /\ pc'["imu"] = pc["imu"]
      /\ inHand'["imu"] = inHand["imu"] /\ DOMAIN inHand' = Streams
      /\ pc' \in [{"imu", "image", "worker"} -> {"idle", "track", "push", "waiting", "handling", "done"}]
  BY <1>1, <1>2 DEF HandsOK
<1>9. HandsOK'
  BY <1>1, <1>3, <1>5, <1>8 DEF HandsOK
<1>10. TracksOK'
  BY <1>1, <1>2, <1>3, <1>5, <1>8 DEF TracksOK
<1>11. QueueOK'
  <2>1. CASE UNCHANGED <<pending, handed, origin>>
    BY <1>1, <2>1 DEF QueueOK
  <2>2. CASE pending' = Append(pending, f) /\ origin' = origin \cup {f.replay} /\ handed' = handed
    <3>1. /\ pending' \in Seq({pending'[i] : i \in DOMAIN pending'})
          /\ \A i \in DOMAIN pending' : pending'[i] = f \/ (i \in DOMAIN pending /\ pending'[i] = pending[i])
      <4>1. PICK S : pending \in Seq(S)
        BY <1>1 DEF QueueOK
      <4> HIDE DEF f
      <4> QED
        BY <2>2, <4>1, ElementAdded
    <3>2. \A i \in DOMAIN pending' : pending'[i].replay \in origin' /\ pending'[i].apart
      BY <1>1, <1>4, <2>2, <3>1 DEF QueueOK
    <3> QED
      BY <1>1, <2>2, <3>1, <3>2 DEF QueueOK
  <2> QED
    BY <1>5, <2>1, <2>2
<1>12. EstimatorOK'
  BY <1>1, <1>3, <1>5 DEF EstimatorOK
<1> QED
  BY <1>6, <1>7, <1>9, <1>10, <1>11, <1>12 DEF NodeInv

-------------------------------------------------------------------------------
(*****************************************************************************)
(* The worker.                                                               *)
(*****************************************************************************)
\* What the worker does is not seen by the player, the gate and the callbacks.
LEMMA WorkerOnly ==
  ASSUME NodeInv, QueueOK', EstimatorOK', timeline' = timeline,
         NEW at \in {"waiting", "handling", "done"}, pc' = [pc EXCEPT !["worker"] = at] \/ pc' = pc,
         UNCHANGED <<player, gate, tracker_reset_pending_, state_mutex_, locals, tracker, history>>
  PROVE  NodeInv'
<1>1. UNCHANGED <<clock, replay, unreadable, channel, last, waiting, lastReplay, timeline, inHand, epoch,
                  reset_tracker, origin>>
  BY DEF player, gate, locals, history
<1>2. PlayerOK' /\ GateOK' /\ OriginOK'
  BY <1>1 DEF NodeInv, PlayerOK, GateOK, Topic, OriginOK
<1>3. /\ pc'["imu"] = pc["imu"] /\ pc'["image"] = pc["image"]
      /\ pc' \in [{"imu", "image", "worker"} -> {"idle", "track", "push", "waiting", "handling", "done"}]
  BY DEF NodeInv, HandsOK
<1>4. HandsOK'
  BY <1>1, <1>3 DEF NodeInv, HandsOK
<1>5. TracksOK'
  BY <1>1, <1>3 DEF NodeInv, TracksOK
<1> QED
  BY <1>2, <1>4, <1>5 DEF NodeInv

\* Frames only leave the queue.
LEMMA PendingShorter ==
  ASSUME QueueOK, pending # <<>>, pending' = Tail(pending), origin' = origin,
         \A i \in DOMAIN handed' : handed'[i].frame.apart
  PROVE  QueueOK'
<1>1. /\ pending' \in Seq({pending'[i] : i \in DOMAIN pending'})
      /\ \A i \in DOMAIN pending' : i + 1 \in DOMAIN pending /\ pending'[i] = pending[i + 1]
  <2>1. PICK S : pending \in Seq(S)
    BY DEF QueueOK
  <2>2. pending' \in Seq(S)
    BY <2>1
  <2>3. \A t \in Seq(S) : t \in Seq({t[i] : i \in DOMAIN t})
    BY OverItsElements
  <2>4. pending' \in Seq({pending'[i] : i \in DOMAIN pending'})
    BY <2>2, <2>3, Zenon
  <2>5. \A i \in DOMAIN pending' : i + 1 \in DOMAIN pending /\ pending'[i] = pending[i + 1]
    BY <2>1
  <2> QED
    BY <2>4, <2>5
<1>2. \A i \in DOMAIN pending' : pending'[i].replay \in origin' /\ pending'[i].apart
  BY <1>1 DEF QueueOK
<1> QED
  BY <1>1, <1>2 DEF QueueOK

LEMMA PopKeeps ==
  ASSUME NodeInv, PopAndProcess
  PROVE  NodeInv'
<1>1. /\ pending # <<>> /\ pending' = Tail(pending) /\ timeline' = timeline
      /\ worker_epoch' = timeline
      /\ estimator' = EstimatorFor(timeline) \cup {Head(pending).replay}
      /\ pc' = [pc EXCEPT !["worker"] = "handling"]
      /\ UNCHANGED <<player, gate, tracker_reset_pending_, state_mutex_, locals, tracker, history>>
      /\ origin' = origin
  BY DEF PopAndProcess, Queue!HandOut, history
<1>2. QueueOK /\ OriginOK /\ EstimatorOK /\ timeline \in Nat
  BY DEF NodeInv, GateOK
<1>3. 1 \in DOMAIN pending /\ Head(pending) = pending[1]
  BY <1>1, <1>2, ElementTaken DEF QueueOK
<1>4. Head(pending).replay \in origin /\ Head(pending).apart
  BY <1>2, <1>3 DEF QueueOK
<1>5. \A i \in DOMAIN handed' : handed'[i].frame.apart
  <2>1. \E imu : handed' = <<[frame |-> Head(pending), imu |-> imu]>>
    BY DEF PopAndProcess, Queue!HandOut
  <2> QED
    BY <1>4, <2>1
<1>6. QueueOK'
  BY <1>1, <1>2, <1>5, PendingShorter
<1>7. EstimatorOK'
  <2>1. EstimatorFor(timeline) \subseteq origin
    BY <1>2 DEF EstimatorOK, EstimatorFor
  <2>2. estimator' \subseteq origin'
    BY <1>1, <1>4, <2>1
  <2>3. \E q : estimator' \subseteq {q}
    BY <1>1, <1>2, <2>2, OneOrigin
  <2> QED
    BY <1>1, <1>2, <2>2, <2>3 DEF EstimatorOK
<1> QED
  BY <1>1, <1>6, <1>7, WorkerOnly

LEMMA HandleKeeps ==
  ASSUME NodeInv, Handle
  PROVE  NodeInv'
<1>1. /\ handed' = <<>> /\ estimator' \in {estimator, {}}
      /\ pc' = [pc EXCEPT !["worker"] = "waiting"]
      /\ UNCHANGED <<player, gate, tracker_reset_pending_, state_mutex_, locals, tracker, history>>
      /\ UNCHANGED <<pending, timeline, origin, worker_epoch>>
  BY DEF Handle, Queue!Finish, history
<1>2. QueueOK /\ EstimatorOK
  BY DEF NodeInv
<1>3. QueueOK'
  BY <1>1, <1>2 DEF QueueOK
<1>4. EstimatorOK'
  BY <1>1, <1>2 DEF EstimatorOK
<1> QED
  BY <1>1, <1>3, <1>4, WorkerOnly

\* A frame can be dropped only when there is one.
LEMMA DropsSome == ASSUME QueueDrops PROVE pending # <<>>
<1> SUFFICES ASSUME pending = <<>> PROVE FALSE
  OBVIOUS
<1>1. {i \in DOMAIN pending : Queue!Covered(pending[i])} = {}
  OBVIOUS
<1>2. Cardinality({}) = 0
  BY FS_EmptySet
<1>3. Cardinality({i \in DOMAIN pending : Queue!Covered(pending[i])}) > Capacity
  BY DEF QueueDrops, Queue!DropOldest, Queue!Cardinality, Cardinality
<1>4. 0 > Capacity
  BY <1>1, <1>2, <1>3, Zenon
<1>5. Capacity \in Nat
  BY NodeAssumption
<1> QED
  BY <1>4, <1>5

LEMMA QueueDropsKeeps ==
  ASSUME NodeInv, QueueDrops
  PROVE  NodeInv'
<1>1. /\ pending' = Tail(pending) /\ handed' = handed /\ timeline' = timeline /\ pc' = pc
      /\ UNCHANGED <<player, gate, tracker_reset_pending_, state_mutex_, locals, tracker, history>>
      /\ UNCHANGED <<origin, worker_epoch, estimator>>
  BY DEF QueueDrops, Queue!DropOldest, history, worker
<1>2. QueueOK /\ EstimatorOK
  BY DEF NodeInv
<1>3. pending # <<>>
  BY DropsSome
<1>4. QueueOK'
  BY <1>1, <1>2, <1>3, PendingShorter DEF QueueOK
<1>5. EstimatorOK'
  BY <1>1, <1>2 DEF EstimatorOK
<1> QED
  BY <1>1, <1>4, <1>5, WorkerOnly

LEMMA NodeStep == Settled /\ NodeInv /\ [Next]_vars => NodeInv'
<1> SUFFICES ASSUME Settled, NodeInv, [Next]_vars PROVE NodeInv'
  OBVIOUS
<1>1. CASE UNCHANGED vars
  <2>1. UNCHANGED <<player, gate, tracker_reset_pending_, state_mutex_, pc, locals, tracker, history,
                    pending, handed, timeline, origin, worker_epoch, estimator>>
    BY <1>1 DEF vars, queue, worker, history
  <2>2. QueueOK' /\ EstimatorOK'
    BY <2>1 DEF NodeInv, QueueOK, EstimatorOK
  <2> QED
    BY <2>1, <2>2, WorkerOnly
<1>2. CASE Shutdown \/ WorkerReturns
  <2>1. /\ UNCHANGED <<player, gate, tracker_reset_pending_, state_mutex_, locals, tracker, history>>
        /\ UNCHANGED <<pending, handed, timeline, origin, worker_epoch, estimator>>
        /\ pc' = [pc EXCEPT !["worker"] = "done"] \/ pc' = pc
    BY <1>2 DEF Shutdown, WorkerReturns, Queue!Close, queue, worker, history
  <2>2. QueueOK' /\ EstimatorOK'
    BY <2>1 DEF NodeInv, QueueOK, EstimatorOK
  <2> QED
    BY <2>1, <2>2, WorkerOnly
<1>3. CASE Callback
  BY <1>3, ImuGateKeeps, ImuPushKeeps, ImageGateKeeps, TrackKeeps, ImagePushKeeps DEF Callback
<1>4. CASE Publish \/ StartOver \/ ImageUnreadable \/ \E s \in Streams : PublishStale(s)
  BY <1>4, PublishKeeps, StartOverKeeps, ImageUnreadableKeeps, PublishStaleKeeps
<1>5. CASE PopAndProcess \/ Handle \/ QueueDrops
  BY <1>5, PopKeeps, HandleKeeps, QueueDropsKeeps
<1> QED
  BY <1>1, <1>2, <1>3, <1>4, <1>5 DEF Next, Work, Joined

-------------------------------------------------------------------------------
(*****************************************************************************)
(* What an epoch is fed, whenever replays are started over.                  *)
(*****************************************************************************)
Places == {"idle", "track", "push", "waiting", "handling", "done"}

CarriedOK ==
  /\ clock \in Nat /\ replay \in Replays /\ channel \in [Streams -> Seq(Message)]
  /\ last \in [Streams -> Nat] /\ waiting \in [Streams -> BOOLEAN]
  /\ pushed \in [Streams -> Nat] /\ timeline \in Nat /\ epoch \in Nat /\ epoch <= timeline
  /\ pc \in [{"imu", "image", "worker"} -> Places] /\ DOMAIN inHand = Streams
  /\ state_mutex_ = "imu" <=> pc["imu"] = "push"

\* Nothing was pushed for a topic that still has to join the epoch, and nothing later than
\* what the gate let in last.
PushedOK == \A s \in Streams : pushed[s] <= last[s] /\ (waiting[s] => pushed[s] = 0)

\* What is on its way from the gate to the queue is what the gate let in last.
UnderWayOK ==
  /\ pc["imu"] = "push" => inHand["imu"][1].t = last["imu"] /\ ~waiting["imu"]
  /\ pc["image"] \in {"track", "push"} =>
       /\ inHand["image"][1].t = last["image"]
       /\ epoch = timeline => ~waiting["image"]

FedInv == CarriedOK /\ PushedOK /\ UnderWayOK

LEMMA FedInit == Init => FedInv
<1> SUFFICES ASSUME Init PROVE FedInv
  OBVIOUS
<1>1. /\ clock = 0 /\ replay = 0 /\ channel = [s \in Streams |-> <<>>]
      /\ last = [s \in Streams |-> 0] /\ waiting = [s \in Streams |-> FALSE]
      /\ pc = [imu |-> "idle", image |-> "idle", worker |-> "waiting"]
      /\ inHand = [s \in Streams |-> <<>>] /\ epoch = 0 /\ state_mutex_ = "free"
      /\ timeline = 0 /\ pushed = [s \in Streams |-> 0]
  BY DEF Init, Queue!Init, Free
<1>2. 0 \in Replays
  BY Settings DEF Replays
<1> QED
  BY <1>1, <1>2 DEF FedInv, CarriedOK, PushedOK, UnderWayOK, Places

\* The gate: what it lets in is no earlier than what was pushed, or starts an epoch.
LEMMA AcceptFed ==
  ASSUME FedInv, NEW s \in Streams, NEW o, o = Other(s), channel[s] # <<>>,
         NEW m, m = Head(channel[s]), Accept(s, m)
  PROVE  /\ m \in Message
         /\ last' \in [Streams -> Nat] /\ waiting' \in [Streams -> BOOLEAN]
         /\ pushed' \in [Streams -> Nat] /\ PushedOK'
         /\ last'[s] = m.t /\ last'[o] = last[o] /\ ~waiting'[s]
         /\ \/ timeline' = timeline /\ pushed' = pushed /\ (waiting'[o] <=> waiting[o])
            \/ timeline' = timeline + 1
<1>1. /\ o \in Streams /\ o # s /\ \A x \in Streams : x = s \/ x = o
      /\ Jump \in Nat /\ Jump > 0
  BY OtherTopic, Settings
<1>2. /\ last \in [Streams -> Nat] /\ waiting \in [Streams -> BOOLEAN]
      /\ pushed \in [Streams -> Nat] /\ timeline \in Nat /\ channel \in [Streams -> Seq(Message)]
      /\ \A x \in Streams : pushed[x] <= last[x] /\ (waiting[x] => pushed[x] = 0)
  BY DEF FedInv, CarriedOK, PushedOK
<1>3. m \in Message /\ m.t \in Nat
  BY <1>2, Taken, MessageType
<1>4. /\ Accepts(s, m.t)
      /\ last' = [last EXCEPT ![s] = m.t]
      /\ waiting' = WaitingAfter(s, m.t)
      /\ IF Restarts(s, m.t)
         THEN Queue!Restart /\ pushed' = [x \in Streams |-> 0]
         ELSE UNCHANGED <<queue, history>>
  BY DEF Accept
<1>5. last' \in [Streams -> Nat] /\ last'[s] = m.t /\ last'[o] = last[o]
  BY <1>1, <1>2, <1>3, <1>4
<1>6. /\ waiting' \in [Streams -> BOOLEAN] /\ ~waiting'[s]
      /\ waiting'[o] <=> IF Restarts(s, m.t) THEN last[o] > 0 ELSE waiting[o]
  <2>1. waiting' = [waiting EXCEPT ![s] = FALSE,
                                   ![o] = IF Restarts(s, m.t) THEN last[o] > 0 ELSE waiting[o]]
    <3>1. waiting' = [waiting EXCEPT ![s] = FALSE,
                                     ![o] = IF Restarts(s, m.t) THEN last[o] > 0 ELSE @]
      BY <1>4 DEF WaitingAfter
    <3> QED
      BY <1>1, <3>1
  <2>2. (IF Restarts(s, m.t) THEN last[o] > 0 ELSE waiting[o]) \in BOOLEAN
    <3>1. waiting[o] \in BOOLEAN
      BY <1>1, <1>2
    <3>2. (last[o] > 0) \in BOOLEAN
      OBVIOUS
    <3> QED
      BY <3>1, <3>2, Zenon
  <2> QED
    BY <1>1, <1>2, <2>1, <2>2
<1>7. CASE Restarts(s, m.t)
  <2>1. pushed' = [x \in Streams |-> 0] /\ timeline' = timeline + 1
    BY <1>4, <1>7 DEF Queue!Restart
  <2>2. \A x \in Streams : pushed'[x] = 0 /\ last'[x] \in Nat
    BY <1>5, <2>1
  <2>3. PushedOK'
    BY <2>2 DEF PushedOK
  <2> QED
    BY <1>3, <1>5, <1>6, <2>1, <2>3
<1>8. CASE ~Restarts(s, m.t)
  <2>1. pushed' = pushed /\ timeline' = timeline
    BY <1>4, <1>8 DEF queue, history
  <2>2. waiting'[o] <=> waiting[o]
    BY <1>6, <1>8
  <2>3. pushed[s] <= m.t
    <3>1. CASE waiting[s]
      <4>1. pushed[s] = 0
        BY <1>2, <3>1
      <4> QED
        BY <1>3, <4>1
    <3>2. CASE ~waiting[s]
      <4>1. ~OutOfOrder(s, m.t) /\ ~Rewound(s, m.t)
        BY <1>4, <1>8, <3>2 DEF Accepts, Restarts
      <4>2. ~(m.t < last[s])
        BY <4>1 DEF OutOfOrder
      <4>3. pushed[s] \in Nat /\ last[s] \in Nat /\ pushed[s] <= last[s]
        BY <1>2
      <4> QED
        BY <1>3, <4>2, <4>3
    <3> QED
      BY <3>1, <3>2
  <2>4. PushedOK'
    <3> SUFFICES ASSUME NEW x \in Streams
                 PROVE  pushed'[x] <= last'[x] /\ (waiting'[x] => pushed'[x] = 0)
      BY DEF PushedOK
    <3>1. CASE x = s
      BY <3>1, <1>5, <1>6, <2>1, <2>3
    <3>2. CASE x = o
      BY <3>2, <1>2, <1>5, <2>1, <2>2
    <3> QED
      BY <3>1, <3>2, <1>1
  <2> QED
    BY <1>2, <1>3, <1>5, <1>6, <2>1, <2>2, <2>4
<1> QED
  BY <1>7, <1>8

\* A message that leaves the channel, let in or not.
LEMMA ChannelTaken ==
  ASSUME CarriedOK, NEW s \in Streams, Dispatch(s)
  PROVE  /\ channel' \in [Streams -> Seq(Message)] /\ clock' = clock /\ replay' = replay
         /\ channel[s] # <<>> /\ pc[s] = "idle"
<1>1. /\ pc[s] = "idle" /\ channel[s] # <<>> /\ clock' = clock /\ replay' = replay
      /\ channel' = [channel EXCEPT ![s] = Tail(channel[s])]
      /\ channel \in [Streams -> Seq(Message)]
  BY DEF Dispatch, CarriedOK
<1>2. Tail(channel[s]) \in Seq(Message)
  BY <1>1, Taken
<1> QED
  BY <1>1, <1>2

\* Whatever leaves the topics' part alone keeps it.
LEMMA FedUnseen ==
  ASSUME FedInv, channel' \in [Streams -> Seq(Message)], clock' \in Nat, replay' \in Replays,
         UNCHANGED <<last, waiting, state_mutex_, inHand, epoch, timeline, pushed>>,
         pc' \in [{"imu", "image", "worker"} -> Places],
         pc'["imu"] = pc["imu"], pc'["image"] = pc["image"]
  PROVE  FedInv'
<1>1. CarriedOK'
  BY DEF FedInv, CarriedOK
<1>2. PushedOK'
  BY DEF FedInv, PushedOK
<1>3. UnderWayOK'
  BY DEF FedInv, UnderWayOK
<1> QED
  BY <1>1, <1>2, <1>3 DEF FedInv

LEMMA FedPlayer ==
  ASSUME FedInv, Publish \/ StartOver \/ ImageUnreadable \/ \E s \in Streams : PublishStale(s)
  PROVE  FedInv' /\ UNCHANGED <<pushed, timeline>>
<1>1. /\ clock \in Nat /\ replay \in Replays /\ channel \in [Streams -> Seq(Message)]
      /\ pc \in [{"imu", "image", "worker"} -> Places] /\ Length \in Nat /\ MaxReplay \in Nat
  BY Settings DEF FedInv, CarriedOK
<1>2. UNCHANGED <<gate, state_mutex_, pc, locals, queue, history>>
  BY DEF Publish, StartOver, ImageUnreadable, PublishStale
<1>3. UNCHANGED <<last, waiting, state_mutex_, inHand, epoch, timeline, pushed, pc>>
  BY <1>2 DEF gate, locals, queue, history
<1>4. channel' \in [Streams -> Seq(Message)] /\ clock' \in Nat /\ replay' \in Replays
  <2>1. CASE Publish
    <3> DEFINE m == [t |-> clock + 1, replay |-> replay, stale |-> FALSE]
    <3>1. clock < Length /\ clock' = clock + 1 /\ replay' = replay
      BY <2>1 DEF Publish
    <3>2. channel' = [s \in Streams |-> Append(channel[s], m)]
      BY <2>1 DEF Publish
    <3>3. m \in Message
      BY <1>1, <3>1 DEF Message, Ticks
    <3> HIDE DEF m
    <3>4. \A s \in Streams : Append(channel[s], m) \in Seq(Message)
      BY <1>1, <3>3, Appended
    <3> QED
      BY <1>1, <3>1, <3>2, <3>4
  <2>2. CASE \E s \in Streams : PublishStale(s)
    <3>1. PICK s \in Streams : PublishStale(s)
      BY <2>2
    <3>2. PICK t \in Ticks : Send(s, [t |-> t, replay |-> replay, stale |-> TRUE])
      BY <3>1 DEF PublishStale
    <3> DEFINE m == [t |-> t, replay |-> replay, stale |-> TRUE]
    <3>3. m \in Message
      BY <1>1 DEF Message
    <3>4. channel' = [channel EXCEPT ![s] = Append(channel[s], m)]
      BY <3>2 DEF Send
    <3> HIDE DEF m
    <3>5. Append(channel[s], m) \in Seq(Message)
      BY <1>1, <3>3, Appended
    <3> QED
      BY <1>1, <3>1, <3>4, <3>5 DEF PublishStale
  <2>3. CASE StartOver
    BY <1>1, <2>3 DEF StartOver, Replays
  <2>4. CASE ImageUnreadable
    <3>1. Dispatch("image") /\ "image" \in Streams /\ CarriedOK
      BY <2>4, Others DEF ImageUnreadable, FedInv
    <3> QED
      BY <1>1, <3>1, ChannelTaken
  <2> QED
    BY <2>1, <2>2, <2>3, <2>4
<1>5. FedInv'
  BY <1>1, <1>3, <1>4, FedUnseen
<1> QED
  BY <1>3, <1>5

LEMMA FedRefuse ==
  ASSUME FedInv, NEW s \in Streams, Dispatch(s), Refuse(s)
  PROVE  FedInv' /\ UNCHANGED <<pushed, timeline>>
<1>1. UNCHANGED <<last, waiting, state_mutex_, inHand, epoch, timeline, pushed, pc>>
  BY DEF Refuse, gate, locals, queue, history
<1>2. /\ channel' \in [Streams -> Seq(Message)] /\ clock' \in Nat /\ replay' \in Replays
      /\ pc \in [{"imu", "image", "worker"} -> Places]
  BY ChannelTaken DEF FedInv, CarriedOK
<1> QED
  BY <1>1, <1>2, FedUnseen

LEMMA FedGates ==
  ASSUME FedInv, ImuGate \/ ImageGate
  PROVE  FedInv' /\ (timeline' = timeline => pushed' = pushed)
<1>1. /\ "imu" \in Streams /\ "image" \in Streams
      /\ Other("imu") = "image" /\ Other("image") = "imu"
      /\ CarriedOK /\ PushedOK /\ UnderWayOK
  BY Others DEF FedInv
<1>2. CASE ImuGate /\ ~Refuse("imu")
  <2> DEFINE m == Head(channel["imu"])
  <2>1. /\ Dispatch("imu") /\ Accept("imu", m)
        /\ inHand' = [inHand EXCEPT !["imu"] = <<m>>]
        /\ state_mutex_' = "imu" /\ pc' = [pc EXCEPT !["imu"] = "push"] /\ epoch' = epoch
    BY <1>2 DEF ImuGate
  <2>2. /\ channel' \in [Streams -> Seq(Message)] /\ clock' = clock /\ replay' = replay
        /\ channel["imu"] # <<>>
    BY <1>1, <2>1, ChannelTaken
  <2> HIDE DEF m
  <2>3. m = Head(channel["imu"])
    BY DEF m
  <2>4. /\ last' \in [Streams -> Nat] /\ waiting' \in [Streams -> BOOLEAN]
        /\ pushed' \in [Streams -> Nat] /\ PushedOK'
        /\ last'["imu"] = m.t /\ last'["image"] = last["image"] /\ ~waiting'["imu"]
        /\ \/ timeline' = timeline /\ pushed' = pushed /\ (waiting'["image"] <=> waiting["image"])
           \/ timeline' = timeline + 1
    BY <1>1, <2>1, <2>2, <2>3, AcceptFed
  <2>5. /\ timeline \in Nat /\ epoch \in Nat /\ epoch <= timeline
        /\ pc \in [{"imu", "image", "worker"} -> Places] /\ DOMAIN inHand = Streams
        /\ clock \in Nat /\ replay \in Replays
    BY <1>1 DEF CarriedOK
  <2>6. timeline' \in Nat /\ epoch' <= timeline'
    BY <2>1, <2>4, <2>5
  <2>7. /\ pc' \in [{"imu", "image", "worker"} -> Places] /\ DOMAIN inHand' = Streams
        /\ pc'["imu"] = "push" /\ pc'["image"] = pc["image"]
        /\ inHand'["imu"][1] = m /\ inHand'["image"] = inHand["image"]
    BY <1>1, <2>1, <2>5 DEF Places
  <2>8. CarriedOK'
    BY <2>1, <2>2, <2>4, <2>5, <2>6, <2>7 DEF CarriedOK
  <2>9. UnderWayOK'
    <3>1. ASSUME pc["image"] \in {"track", "push"}, epoch = timeline' PROVE ~waiting'["image"]
      <4>1. timeline' = timeline /\ epoch = timeline
        BY <2>4, <2>5, <3>1
      <4>2. ~waiting["image"]
        BY <1>1, <3>1, <4>1 DEF UnderWayOK
      <4> QED
        BY <2>4, <2>5, <4>1, <4>2
    <3>2. pc["image"] \in {"track", "push"} => inHand["image"][1].t = last["image"]
      BY <1>1 DEF UnderWayOK
    <3> QED
      BY <2>1, <2>4, <2>7, <3>1, <3>2 DEF UnderWayOK
  <2>10. timeline' = timeline => pushed' = pushed
    BY <2>4, <2>5
  <2> QED
    BY <2>4, <2>8, <2>9, <2>10 DEF FedInv
<1>3. CASE ImageGate /\ ~Refuse("image")
  <2> DEFINE m == Head(channel["image"])
  <2>1. /\ Dispatch("image") /\ Accept("image", m) /\ state_mutex_ = "free"
        /\ inHand' = [inHand EXCEPT !["image"] = <<m>>]
        /\ state_mutex_' = state_mutex_ /\ pc' = [pc EXCEPT !["image"] = "track"]
        /\ epoch' = timeline'
    BY <1>3 DEF ImageGate, Free
  <2>2. /\ channel' \in [Streams -> Seq(Message)] /\ clock' = clock /\ replay' = replay
        /\ channel["image"] # <<>>
    BY <1>1, <2>1, ChannelTaken
  <2> HIDE DEF m
  <2>3. m = Head(channel["image"])
    BY DEF m
  <2>4. /\ last' \in [Streams -> Nat] /\ waiting' \in [Streams -> BOOLEAN]
        /\ pushed' \in [Streams -> Nat] /\ PushedOK'
        /\ last'["image"] = m.t /\ last'["imu"] = last["imu"] /\ ~waiting'["image"]
        /\ \/ timeline' = timeline /\ pushed' = pushed /\ (waiting'["imu"] <=> waiting["imu"])
           \/ timeline' = timeline + 1
    BY <1>1, <2>1, <2>2, <2>3, AcceptFed
  <2>5. /\ timeline \in Nat
        /\ pc \in [{"imu", "image", "worker"} -> Places] /\ DOMAIN inHand = Streams
        /\ clock \in Nat /\ replay \in Replays /\ pc["imu"] # "push"
    BY <1>1, <2>1 DEF CarriedOK
  <2>6. timeline' \in Nat /\ epoch' <= timeline'
    BY <2>1, <2>4, <2>5
  <2>7. /\ pc' \in [{"imu", "image", "worker"} -> Places] /\ DOMAIN inHand' = Streams
        /\ pc'["image"] = "track" /\ pc'["imu"] = pc["imu"]
        /\ inHand'["image"][1] = m
    BY <1>1, <2>1, <2>5 DEF Places
  <2>8. CarriedOK'
    BY <2>1, <2>2, <2>4, <2>5, <2>6, <2>7 DEF CarriedOK
  <2>9. UnderWayOK'
    BY <2>4, <2>5, <2>7 DEF UnderWayOK
  <2>10. timeline' = timeline => pushed' = pushed
    BY <2>4, <2>5
  <2> QED
    BY <2>4, <2>8, <2>9, <2>10 DEF FedInv
<1>4. CASE ImuGate /\ Refuse("imu")
  <2>1. Dispatch("imu") /\ Refuse("imu")
    BY <1>4 DEF ImuGate
  <2> QED
    BY <1>1, <2>1, FedRefuse
<1>5. CASE ImageGate /\ Refuse("image")
  <2>1. Dispatch("image") /\ Refuse("image")
    BY <1>5 DEF ImageGate
  <2> QED
    BY <1>1, <2>1, FedRefuse
<1> QED
  BY <1>2, <1>3, <1>4, <1>5

\* The pushes: what a callback holds is at least what was pushed for its topic before.
LEMMA FedPushes ==
  ASSUME FedInv, ImuPush \/ Track \/ ImagePush
  PROVE  FedInv' /\ timeline' = timeline /\ \A s \in Streams : pushed'[s] >= pushed[s]
<1>1. /\ Streams = {"imu", "image"} /\ "imu" # "image"
      /\ CarriedOK /\ PushedOK /\ UnderWayOK
  BY Others DEF FedInv
<1>2. /\ pushed \in [Streams -> Nat] /\ last \in [Streams -> Nat]
      /\ pc \in [{"imu", "image", "worker"} -> Places] /\ DOMAIN inHand = Streams
  BY <1>1 DEF CarriedOK
<1>3. UNCHANGED <<player, gate, epoch, timeline>>
  BY DEF ImuPush, Track, ImagePush, queue, Queue!Sample, Queue!Frame
<1>4. UNCHANGED <<clock, replay, channel, last, waiting, epoch, timeline>>
  BY <1>3 DEF player, gate
<1>5. CASE ImuPush
  <2> DEFINE m == inHand["imu"][1]
  <2>1. /\ pc["imu"] = "push" /\ pushed' = [pushed EXCEPT !["imu"] = m.t]
        /\ inHand' = [inHand EXCEPT !["imu"] = <<>>]
        /\ pc' = [pc EXCEPT !["imu"] = "idle"] /\ state_mutex_' = "free"
    BY <1>5 DEF ImuPush, Push, Unlock, Free
  <2>2. m.t = last["imu"] /\ ~waiting["imu"]
    BY <1>1, <2>1 DEF UnderWayOK
  <2> HIDE DEF m
  <2>3. /\ pushed' \in [Streams -> Nat] /\ pushed'["imu"] = last["imu"]
        /\ pushed'["image"] = pushed["image"] /\ DOMAIN inHand' = Streams
        /\ pc' \in [{"imu", "image", "worker"} -> Places]
        /\ pc'["imu"] = "idle" /\ pc'["image"] = pc["image"] /\ inHand'["image"] = inHand["image"]
    BY <1>1, <1>2, <2>1, <2>2 DEF Places
  <2>4. CarriedOK'
    BY <1>1, <1>4, <2>1, <2>3 DEF CarriedOK
  <2>5. PushedOK'
    <3>1. last["imu"] <= last["imu"]
      BY <1>1, <1>2
    <3> QED
      BY <1>1, <1>4, <2>2, <2>3, <3>1 DEF PushedOK
  <2>6. UnderWayOK'
    BY <1>1, <1>4, <2>3 DEF UnderWayOK
  <2>7. \A s \in Streams : pushed'[s] >= pushed[s]
    BY <1>1, <1>2, <2>3 DEF PushedOK
  <2> QED
    BY <1>4, <2>4, <2>5, <2>6, <2>7 DEF FedInv
<1>6. CASE Track
  <2> DEFINE m == inHand["image"][1]
             f == [t |-> m.t, tl |-> epoch, replay |-> m.replay,
                   apart |-> Remembered \subseteq {m.replay}]
  <2>1. /\ pc["image"] = "track" /\ pc' = [pc EXCEPT !["image"] = "push"]
        /\ inHand' = [inHand EXCEPT !["image"] = <<f>>] /\ f.t = m.t
        /\ state_mutex_' = state_mutex_ /\ pushed' = pushed
    BY <1>6 DEF Track, history
  <2> HIDE DEF f
  <2>2. /\ pc' \in [{"imu", "image", "worker"} -> Places] /\ DOMAIN inHand' = Streams
        /\ pc'["imu"] = pc["imu"] /\ pc'["image"] = "push" /\ inHand'["imu"] = inHand["imu"]
        /\ inHand'["image"][1].t = inHand["image"][1].t
    BY <1>1, <1>2, <2>1 DEF Places
  <2>3. CarriedOK'
    BY <1>1, <1>4, <2>1, <2>2 DEF CarriedOK
  <2>4. PushedOK'
    BY <1>1, <1>4, <2>1 DEF PushedOK
  <2>5. UnderWayOK'
    BY <1>1, <1>4, <2>1, <2>2 DEF UnderWayOK
  <2>6. \A s \in Streams : pushed'[s] >= pushed[s]
    BY <1>2, <2>1
  <2> QED
    BY <1>4, <2>3, <2>4, <2>5, <2>6 DEF FedInv
<1>7. CASE ImagePush
  <2> DEFINE f == inHand["image"][1]
  <2>1. /\ pc["image"] = "push"
        /\ inHand' = [inHand EXCEPT !["image"] = <<>>]
        /\ pc' = [pc EXCEPT !["image"] = "idle"] /\ state_mutex_' = state_mutex_
        /\ \/ pushed' = pushed
           \/ epoch = timeline /\ pushed' = [pushed EXCEPT !["image"] = f.t]
    BY <1>7 DEF ImagePush, Push, history
  <2>2. f.t = last["image"] /\ (epoch = timeline => ~waiting["image"])
    BY <1>1, <2>1 DEF UnderWayOK
  <2> HIDE DEF f
  <2>3. /\ pc' \in [{"imu", "image", "worker"} -> Places] /\ DOMAIN inHand' = Streams
        /\ pc'["imu"] = pc["imu"] /\ pc'["image"] = "idle" /\ inHand'["imu"] = inHand["imu"]
    BY <1>1, <1>2, <2>1 DEF Places
  <2>4. /\ pushed' \in [Streams -> Nat] /\ pushed'["imu"] = pushed["imu"]
        /\ \/ pushed'["image"] = pushed["image"]
           \/ pushed'["image"] = last["image"] /\ ~waiting["image"]
    BY <1>1, <1>2, <2>1, <2>2
  <2>5. CarriedOK'
    BY <1>1, <1>4, <2>1, <2>3, <2>4 DEF CarriedOK
  <2>6. PushedOK'
    <3>1. last["image"] <= last["image"]
      BY <1>1, <1>2
    <3> QED
      BY <1>1, <1>4, <2>4, <3>1 DEF PushedOK
  <2>7. UnderWayOK'
    BY <1>1, <1>4, <2>3 DEF UnderWayOK
  <2>8. \A s \in Streams : pushed'[s] >= pushed[s]
    BY <1>1, <1>2, <2>4 DEF PushedOK
  <2> QED
    BY <1>4, <2>5, <2>6, <2>7, <2>8 DEF FedInv
<1> QED
  BY <1>5, <1>6, <1>7

LEMMA FedWorker ==
  ASSUME FedInv, Work \/ QueueDrops \/ Shutdown \/ UNCHANGED vars
  PROVE  FedInv' /\ UNCHANGED <<pushed, timeline>>
<1>1. /\ pc \in [{"imu", "image", "worker"} -> Places] /\ clock \in Nat /\ replay \in Replays
      /\ channel \in [Streams -> Seq(Message)]
  BY DEF FedInv, CarriedOK
<1>2. UNCHANGED <<player, gate, state_mutex_, locals, history>> /\ timeline' = timeline
  BY DEF Work, PopAndProcess, Handle, WorkerReturns, QueueDrops, Shutdown, vars, queue,
         Queue!HandOut, Queue!Finish, Queue!DropOldest, Queue!Close
<1>3. UNCHANGED <<clock, replay, channel, last, waiting, state_mutex_, inHand, epoch, timeline, pushed>>
  BY <1>2 DEF player, gate, locals, history
<1>4. pc' = pc \/ \E at \in {"waiting", "handling", "done"} : pc' = [pc EXCEPT !["worker"] = at]
  BY DEF Work, PopAndProcess, Handle, WorkerReturns, QueueDrops, Shutdown, vars
<1>5. /\ pc' \in [{"imu", "image", "worker"} -> Places]
      /\ pc'["imu"] = pc["imu"] /\ pc'["image"] = pc["image"]
  BY <1>1, <1>4 DEF Places
<1>6. FedInv'
  BY <1>1, <1>3, <1>5, FedUnseen
<1> QED
  BY <1>3, <1>6

LEMMA FedStep ==
  FedInv /\ [Next]_vars =>
    FedInv' /\ (timeline' = timeline => \A s \in Streams : pushed'[s] >= pushed[s])
<1> SUFFICES ASSUME FedInv, [Next]_vars
             PROVE  FedInv' /\ (timeline' = timeline => \A s \in Streams : pushed'[s] >= pushed[s])
  OBVIOUS
<1>1. FedInv' /\ \/ timeline' = timeline => pushed' = pushed
                 \/ \A s \in Streams : pushed'[s] >= pushed[s]
  <2>1. CASE Publish \/ StartOver \/ ImageUnreadable \/ \E s \in Streams : PublishStale(s)
    BY <2>1, FedPlayer
  <2>2. CASE ImuGate \/ ImageGate
    BY <2>2, FedGates
  <2>3. CASE ImuPush \/ Track \/ ImagePush
    BY <2>3, FedPushes
  <2>4. CASE Work \/ QueueDrops \/ Shutdown \/ UNCHANGED vars
    BY <2>4, FedWorker
  <2> QED
    BY <2>1, <2>2, <2>3, <2>4 DEF Next, Callback, Joined
<1>2. \A s \in Streams : pushed[s] >= pushed[s]
  BY DEF FedInv, CarriedOK
<1> QED
  BY <1>1, <1>2

-------------------------------------------------------------------------------
(*****************************************************************************)
(* Epochs and replays: the topic that is ahead is as many replays in as the  *)
(* queue has had epochs.                                                     *)
(*****************************************************************************)
AheadInv ==
  /\ lastReplay \in [Streams -> Replays]
  /\ \A s \in Streams : lastReplay[s] <= timeline
  /\ \E s \in Streams : lastReplay[s] = timeline

LEMMA AheadInit == Init => AheadInv
<1> SUFFICES ASSUME Init PROVE AheadInv
  OBVIOUS
<1>1. lastReplay = [s \in Streams |-> 0] /\ timeline = 0
  BY DEF Init, Queue!Init
<1>2. 0 \in Replays /\ "imu" \in Streams
  BY Settings, Others DEF Replays
<1> QED
  BY <1>1, <1>2 DEF AheadInv

LEMMA AheadGate ==
  ASSUME NodeInv, AheadInv, NEW s \in Streams, channel[s] # <<>>, Accept(s, Head(channel[s]))
  PROVE  AheadInv'
<1> DEFINE o == Other(s)
           m == Head(channel[s])
<1>1. o \in Streams /\ o # s /\ \A x \in Streams : x = s \/ x = o
  BY OtherTopic
<1>2. PlayerOK /\ GateOK
  BY DEF NodeInv
<1>3. o = Other(s) /\ m = Head(channel[s])
  OBVIOUS
<1> HIDE DEF o, m
<1>4. /\ m \in Message /\ lastReplay' \in [Streams -> Nat]
      /\ lastReplay'[s] = m.replay /\ lastReplay'[o] = lastReplay[o]
      /\ \/ m.replay = lastReplay[s] /\ timeline' = timeline
         \/ /\ m.replay = lastReplay[o] /\ lastReplay[s] < lastReplay[o]
            /\ timeline' = timeline
         \/ /\ m.replay = lastReplay[s] + 1 /\ lastReplay[o] = lastReplay[s]
            /\ timeline' = timeline + 1
  BY <1>2, <1>3, AcceptCases DEF queue, Queue!Restart
<1>5. /\ timeline \in Nat /\ lastReplay[s] \in Nat /\ lastReplay[o] \in Nat
      /\ lastReplay[s] <= timeline /\ lastReplay[o] <= timeline
      /\ lastReplay[s] = timeline \/ lastReplay[o] = timeline
      /\ lastReplay[o] \in Replays
  BY <1>1, <1>2 DEF GateOK, AheadInv
<1>6. m.replay \in Replays
  BY <1>4, MessageType
<1>7. /\ lastReplay'[s] <= timeline' /\ lastReplay'[o] <= timeline'
      /\ lastReplay'[s] = timeline' \/ lastReplay'[o] = timeline'
  BY <1>4, <1>5
<1>8. lastReplay' \in [Streams -> Replays]
  <2>1. lastReplay'[s] \in Replays /\ lastReplay'[o] \in Replays
    BY <1>4, <1>5, <1>6
  <2>2. \A x \in Streams : lastReplay'[x] \in Replays
    BY <1>1, <2>1
  <2> QED
    BY <1>4, <2>2
<1> QED
  BY <1>1, <1>7, <1>8 DEF AheadInv

LEMMA AheadStep == NodeInv /\ AheadInv /\ [Next]_vars => AheadInv'
<1> SUFFICES ASSUME NodeInv, AheadInv, [Next]_vars PROVE AheadInv'
  OBVIOUS
<1>1. CASE UNCHANGED <<lastReplay, timeline>>
  BY <1>1 DEF AheadInv
<1>2. CASE ImuGate
  <2>1. CASE Refuse("imu")
    BY <1>1, <2>1 DEF Refuse, gate, queue
  <2>2. CASE ~Refuse("imu")
    <3>1. /\ "imu" \in Streams /\ channel["imu"] # <<>> /\ Accept("imu", Head(channel["imu"]))
      BY <1>2, <2>2, Others DEF ImuGate, Dispatch
    <3> QED
      BY <3>1, AheadGate
  <2> QED
    BY <2>1, <2>2
<1>3. CASE ImageGate
  <2>1. CASE Refuse("image")
    BY <1>1, <2>1 DEF Refuse, gate, queue
  <2>2. CASE ~Refuse("image")
    <3>1. /\ "image" \in Streams /\ channel["image"] # <<>>
          /\ Accept("image", Head(channel["image"]))
      BY <1>3, <2>2, Others DEF ImageGate, Dispatch
    <3> QED
      BY <3>1, AheadGate
  <2> QED
    BY <2>1, <2>2
<1>4. CASE Publish \/ StartOver \/ ImageUnreadable \/ \E s \in Streams : PublishStale(s)
  BY <1>1, <1>4 DEF Publish, StartOver, ImageUnreadable, PublishStale, gate, queue
<1>5. CASE ImuPush \/ Track \/ ImagePush
  <2>1. UNCHANGED <<lastReplay, timeline>>
    BY <1>5 DEF ImuPush, Track, ImagePush, gate, queue, Queue!Sample, Queue!Frame
  <2> QED
    BY <1>1, <2>1
<1>6. CASE Work \/ QueueDrops \/ Shutdown \/ UNCHANGED vars
  <2>1. UNCHANGED <<lastReplay, timeline>>
    BY <1>6 DEF Work, PopAndProcess, Handle, WorkerReturns, QueueDrops, Shutdown, vars, gate, queue,
         Queue!HandOut, Queue!Finish, Queue!DropOldest, Queue!Close
  <2> QED
    BY <1>1, <2>1
<1> QED
  BY <1>2, <1>3, <1>4, <1>5, <1>6 DEF Next, Callback, Joined

\* What was pushed in an epoch is of the replay that bears its number.
LEMMA OriginOfEpoch ==
  ASSUME NodeInv, AheadInv
  PROVE  origin \subseteq {timeline} /\ timeline \in Replays
<1>1. timeline \in Replays /\ timeline \in Nat
  BY DEF AheadInv, NodeInv, GateOK
<1>2. \A q \in origin : q = timeline
  <2> SUFFICES ASSUME NEW q \in origin PROVE q = timeline
    OBVIOUS
  <2>1. q \in Nat /\ (\E s \in Streams : q = lastReplay[s]) /\ \A s \in Streams : lastReplay[s] <= q
    BY DEF NodeInv, OriginOK
  <2>2. q <= timeline /\ timeline <= q
    BY <2>1 DEF AheadInv
  <2> QED
    BY <1>1, <2>1, <2>2
<1> QED
  BY <1>1, <1>2

-------------------------------------------------------------------------------
(*****************************************************************************)
(* The ranges.                                                               *)
(*****************************************************************************)
GateTyped ==
  /\ last \in [Streams -> Ticks \cup {0}] /\ pushed \in [Streams -> Ticks \cup {0}]
  /\ tracker_reset_pending_ \in BOOLEAN /\ reset_tracker \in BOOLEAN

CallbacksTyped ==
  /\ state_mutex_ \in {Free, "imu"} /\ tracker \subseteq Replays
  /\ pc["imu"] \in {"idle", "push"} /\ pc["image"] \in {"idle", "track", "push"}
  /\ \A s \in Streams : inHand[s] = <<>> <=> pc[s] = "idle"
  /\ pc["imu"] = "push" => inHand["imu"][1].t \in Ticks
  /\ pc["image"] = "track" => inHand["image"][1].t \in Ticks
  /\ pc["image"] = "push" => inHand["image"][1] \in Tracked

WorkerTyped ==
  /\ pc["worker"] \in {"waiting", "handling", "done"}
  /\ pc["worker"] = "handling" <=> handed # <<>>
  /\ estimator \subseteq Replays
  /\ pending \in Seq(Tracked) /\ samples \subseteq Ticks

TypeInv == GateTyped /\ CallbacksTyped /\ WorkerTyped

LEMMA TypeInit == Init => TypeInv
<1> SUFFICES ASSUME Init PROVE TypeInv
  OBVIOUS
<1>1. /\ last = [s \in Streams |-> 0] /\ pushed = [s \in Streams |-> 0]
      /\ pc = [imu |-> "idle", image |-> "idle", worker |-> "waiting"]
      /\ inHand = [s \in Streams |-> <<>>] /\ state_mutex_ = Free
      /\ tracker_reset_pending_ = FALSE /\ reset_tracker = FALSE
      /\ tracker = {} /\ estimator = {}
      /\ pending = <<>> /\ handed = <<>> /\ samples = {}
  BY DEF Init, Queue!Init
<1>2. GateTyped
  BY <1>1 DEF GateTyped
<1>3. CallbacksTyped
  BY <1>1, Others DEF CallbacksTyped
<1>4. WorkerTyped
  BY <1>1 DEF WorkerTyped
<1> QED
  BY <1>2, <1>3, <1>4 DEF TypeInv

\* A restart empties what is typed, and a stamp that is let in is one of the player's.
LEMMA AcceptTyped ==
  ASSUME NodeInv, TypeInv, NEW s \in Streams, channel[s] # <<>>,
         NEW m, m = Head(channel[s]), Accept(s, m)
  PROVE  /\ m.t \in Ticks
         /\ last' \in [Streams -> Ticks \cup {0}] /\ pushed' \in [Streams -> Ticks \cup {0}]
         /\ handed' = handed /\ pending' \in Seq(Tracked) /\ samples' \subseteq Ticks
<1>1. channel \in [Streams -> Seq(Message)]
  BY DEF NodeInv, PlayerOK
<1>2. m \in Message
  BY <1>1, Taken
<1>3. m.t \in Ticks
  BY <1>2 DEF Message
<1>4. last' = [last EXCEPT ![s] = m.t]
  BY DEF Accept
<1>5. \/ UNCHANGED <<pending, samples, handed, pushed>>
      \/ /\ pending' = <<>> /\ samples' = {} /\ handed' = handed
         /\ pushed' = [x \in Streams |-> 0]
  BY DEF Accept, Queue!Restart, queue, history
<1>6. /\ last \in [Streams -> Ticks \cup {0}] /\ pushed \in [Streams -> Ticks \cup {0}]
      /\ pending \in Seq(Tracked) /\ samples \subseteq Ticks
  BY DEF TypeInv, GateTyped, WorkerTyped
<1>7. last' \in [Streams -> Ticks \cup {0}]
  BY <1>3, <1>4, <1>6
<1>8. pushed' \in [Streams -> Ticks \cup {0}]
  BY <1>5, <1>6
<1>9. pending' \in Seq(Tracked) /\ samples' \subseteq Ticks /\ handed' = handed
  <2>1. <<>> \in Seq(Tracked) /\ {} \subseteq Ticks
    OBVIOUS
  <2> QED
    BY <1>5, <1>6, <2>1, Zenon
<1> QED
  BY <1>3, <1>7, <1>8, <1>9

LEMMA TypeUnseen ==
  ASSUME TypeInv,
         UNCHANGED <<last, pushed, tracker_reset_pending_, reset_tracker, state_mutex_, tracker, pc,
                     inHand, handed, estimator, pending, samples>>
  PROVE  TypeInv'
BY DEF TypeInv, GateTyped, CallbacksTyped, WorkerTyped

LEMMA TypeGates ==
  ASSUME NodeInv, TypeInv, ImuGate \/ ImageGate
  PROVE  TypeInv'
<1>1. /\ Streams = {"imu", "image"} /\ "imu" # "image"
      /\ pc \in [{"imu", "image", "worker"} -> Places] /\ DOMAIN inHand = Streams
      /\ GateTyped /\ CallbacksTyped /\ WorkerTyped
  BY Others DEF NodeInv, HandsOK, Places, TypeInv
<1>2. CASE ImuGate /\ ~Refuse("imu")
  <2> DEFINE m == Head(channel["imu"])
  <2>1. /\ channel["imu"] # <<>> /\ Accept("imu", m)
        /\ inHand' = [inHand EXCEPT !["imu"] = <<m>>]
        /\ state_mutex_' = "imu" /\ pc' = [pc EXCEPT !["imu"] = "push"]
        /\ tracker_reset_pending_' = PendingAfter("imu", m.t)
        /\ UNCHANGED <<reset_tracker, tracker, worker>>
    BY <1>2 DEF ImuGate, Dispatch
  <2> HIDE DEF m
  <2>2. m = Head(channel["imu"])
    BY DEF m
  <2>3. /\ m.t \in Ticks
        /\ last' \in [Streams -> Ticks \cup {0}] /\ pushed' \in [Streams -> Ticks \cup {0}]
        /\ handed' = handed /\ pending' \in Seq(Tracked) /\ samples' \subseteq Ticks
    BY <1>1, <2>1, <2>2, AcceptTyped
  <2>4. /\ pc'["imu"] = "push" /\ pc'["image"] = pc["image"] /\ pc'["worker"] = pc["worker"]
        /\ inHand'["imu"] = <<m>> /\ inHand'["image"] = inHand["image"] /\ <<m>> # <<>>
        /\ inHand'["imu"][1] = m
    BY <1>1, <2>1
  <2>5. tracker_reset_pending_' \in BOOLEAN
    BY <1>1, <2>1 DEF PendingAfter, Restarts, GateTyped
  <2>6. GateTyped'
    BY <1>1, <2>1, <2>3, <2>5 DEF GateTyped
  <2>7. CallbacksTyped'
    BY <1>1, <2>1, <2>3, <2>4 DEF CallbacksTyped
  <2>8. WorkerTyped'
    BY <1>1, <2>1, <2>3, <2>4 DEF WorkerTyped, worker
  <2> QED
    BY <2>6, <2>7, <2>8 DEF TypeInv
<1>3. CASE ImageGate /\ ~Refuse("image")
  <2> DEFINE m == Head(channel["image"])
  <2>1. /\ channel["image"] # <<>> /\ Accept("image", m)
        /\ inHand' = [inHand EXCEPT !["image"] = <<m>>]
        /\ state_mutex_' = state_mutex_ /\ pc' = [pc EXCEPT !["image"] = "track"]
        /\ tracker_reset_pending_' = FALSE /\ reset_tracker' = PendingAfter("image", m.t)
        /\ UNCHANGED <<tracker, worker>>
    BY <1>3 DEF ImageGate, Dispatch
  <2> HIDE DEF m
  <2>2. m = Head(channel["image"])
    BY DEF m
  <2>3. /\ m.t \in Ticks
        /\ last' \in [Streams -> Ticks \cup {0}] /\ pushed' \in [Streams -> Ticks \cup {0}]
        /\ handed' = handed /\ pending' \in Seq(Tracked) /\ samples' \subseteq Ticks
    BY <1>1, <2>1, <2>2, AcceptTyped
  <2>4. /\ pc'["image"] = "track" /\ pc'["imu"] = pc["imu"] /\ pc'["worker"] = pc["worker"]
        /\ inHand'["image"] = <<m>> /\ inHand'["imu"] = inHand["imu"] /\ <<m>> # <<>>
        /\ inHand'["image"][1] = m
    BY <1>1, <2>1
  <2>5. reset_tracker' \in BOOLEAN
    BY <1>1, <2>1 DEF PendingAfter, Restarts, GateTyped
  <2>6. GateTyped'
    BY <1>1, <2>1, <2>3, <2>5 DEF GateTyped
  <2>7. CallbacksTyped'
    BY <1>1, <2>1, <2>3, <2>4 DEF CallbacksTyped
  <2>8. WorkerTyped'
    BY <1>1, <2>1, <2>3, <2>4 DEF WorkerTyped, worker
  <2> QED
    BY <2>6, <2>7, <2>8 DEF TypeInv
<1>4. CASE ImuGate /\ Refuse("imu")
  BY <1>4, TypeUnseen DEF ImuGate, Refuse, gate, locals, queue, history, worker
<1>5. CASE ImageGate /\ Refuse("image")
  BY <1>5, TypeUnseen DEF ImageGate, Refuse, gate, locals, queue, history, worker
<1> QED
  BY <1>2, <1>3, <1>4, <1>5

LEMMA TypeImuPush ==
  ASSUME NodeInv, TypeInv, ImuPush
  PROVE  TypeInv'
<1> DEFINE m == inHand["imu"][1]
<1>1. /\ Streams = {"imu", "image"} /\ "imu" # "image"
      /\ pc \in [{"imu", "image", "worker"} -> Places] /\ DOMAIN inHand = Streams
      /\ GateTyped /\ CallbacksTyped /\ WorkerTyped
  BY Others DEF NodeInv, HandsOK, Places, TypeInv
<1>2. /\ pc["imu"] = "push" /\ pushed' = [pushed EXCEPT !["imu"] = m.t]
      /\ inHand' = [inHand EXCEPT !["imu"] = <<>>]
      /\ pc' = [pc EXCEPT !["imu"] = "idle"] /\ state_mutex_' = Free
      /\ samples' = samples \cup {m.t}
      /\ UNCHANGED <<pending, handed, last, tracker_reset_pending_, reset_tracker, tracker, estimator>>
  BY DEF ImuPush, Push, Unlock, Queue!Sample, gate, worker
<1>3. m.t \in Ticks
  BY <1>1, <1>2 DEF CallbacksTyped
<1> HIDE DEF m
<1>4. /\ pc'["imu"] = "idle" /\ pc'["image"] = pc["image"] /\ pc'["worker"] = pc["worker"]
      /\ inHand'["imu"] = <<>> /\ inHand'["image"] = inHand["image"]
  BY <1>1, <1>2
<1>5. GateTyped'
  BY <1>1, <1>2, <1>3 DEF GateTyped
<1>6. CallbacksTyped'
  BY <1>1, <1>2, <1>4 DEF CallbacksTyped
<1>7. WorkerTyped'
  BY <1>1, <1>2, <1>3, <1>4 DEF WorkerTyped
<1> QED
  BY <1>5, <1>6, <1>7 DEF TypeInv

LEMMA TypeTrack ==
  ASSUME NodeInv, AheadInv, TypeInv, Track
  PROVE  TypeInv'
<1> DEFINE m == inHand["image"][1]
           f == [t |-> m.t, tl |-> epoch, replay |-> m.replay,
                 apart |-> Remembered \subseteq {m.replay}]
<1>1. /\ Streams = {"imu", "image"} /\ "imu" # "image"
      /\ pc \in [{"imu", "image", "worker"} -> Places] /\ DOMAIN inHand = Streams
      /\ GateTyped /\ CallbacksTyped /\ WorkerTyped
  BY Others DEF NodeInv, HandsOK, Places, TypeInv
<1>2. /\ pc["image"] = "track" /\ pc' = [pc EXCEPT !["image"] = "push"]
      /\ inHand' = [inHand EXCEPT !["image"] = <<f>>] /\ tracker' = {m.replay}
      /\ UNCHANGED <<last, pushed, state_mutex_, samples, pending, handed, tracker_reset_pending_,
                     reset_tracker, estimator>>
  BY DEF Track, gate, queue, history, worker
<1>3. f \in Tracked
  <2>1. m.t \in Ticks
    BY <1>1, <1>2 DEF CallbacksTyped
  <2>2. m.replay \in Replays /\ epoch \in Nat /\ epoch <= timeline
    BY <1>1, <1>2 DEF NodeInv, HandsOK, AheadInv
  <2>3. timeline \in Nat /\ timeline <= MaxReplay /\ MaxReplay \in Nat
    BY OriginOfEpoch, Settings DEF Replays
  <2>4. epoch \in Epochs
    BY <2>2, <2>3 DEF Epochs
  <2>5. (Remembered \subseteq {m.replay}) \in BOOLEAN
    OBVIOUS
  <2> QED
    BY <2>1, <2>2, <2>4, <2>5 DEF Tracked
<1>4. m.replay \in Replays
  BY <1>1, <1>2 DEF NodeInv, HandsOK, AheadInv
<1> HIDE DEF m, f
<1>5. /\ pc'["image"] = "push" /\ pc'["imu"] = pc["imu"] /\ pc'["worker"] = pc["worker"]
      /\ inHand'["image"] = <<f>> /\ inHand'["imu"] = inHand["imu"] /\ <<f>> # <<>>
      /\ inHand'["image"][1] = f
  BY <1>1, <1>2
<1>6. GateTyped'
  BY <1>1, <1>2 DEF GateTyped
<1>7. CallbacksTyped'
  BY <1>1, <1>2, <1>3, <1>4, <1>5 DEF CallbacksTyped
<1>8. WorkerTyped'
  BY <1>1, <1>2, <1>5 DEF WorkerTyped
<1> QED
  BY <1>6, <1>7, <1>8 DEF TypeInv

LEMMA TypeImagePush ==
  ASSUME NodeInv, TypeInv, ImagePush
  PROVE  TypeInv'
<1> DEFINE f == inHand["image"][1]
<1>1. /\ Streams = {"imu", "image"} /\ "imu" # "image"
      /\ pc \in [{"imu", "image", "worker"} -> Places] /\ DOMAIN inHand = Streams
      /\ GateTyped /\ CallbacksTyped /\ WorkerTyped
  BY Others DEF NodeInv, HandsOK, Places, TypeInv
<1>2. /\ pc["image"] = "push" /\ pc' = [pc EXCEPT !["image"] = "idle"]
      /\ inHand' = [inHand EXCEPT !["image"] = <<>>]
      /\ UNCHANGED <<last, state_mutex_, samples, handed, reset_tracker, estimator, tracker>>
      /\ \/ tracker_reset_pending_' = TRUE /\ UNCHANGED <<pending, pushed>>
         \/ /\ pending' = Append(pending, f) /\ pushed' = [pushed EXCEPT !["image"] = f.t]
            /\ tracker_reset_pending_' = tracker_reset_pending_
  BY DEF ImagePush, Push, Queue!Frame, gate, queue, history, worker
<1>3. f \in Tracked
  BY <1>1, <1>2 DEF CallbacksTyped
<1> HIDE DEF f
<1>4. f.t \in Ticks
  BY <1>3 DEF Tracked
<1>5. /\ pc'["image"] = "idle" /\ pc'["imu"] = pc["imu"] /\ pc'["worker"] = pc["worker"]
      /\ inHand'["image"] = <<>> /\ inHand'["imu"] = inHand["imu"]
  BY <1>1, <1>2
<1>6. GateTyped'
  BY <1>1, <1>2, <1>4 DEF GateTyped
<1>7. CallbacksTyped'
  BY <1>1, <1>2, <1>5 DEF CallbacksTyped
<1>8. WorkerTyped'
  <2>1. pending' \in Seq(Tracked)
    BY <1>1, <1>2, <1>3 DEF WorkerTyped
  <2> QED
    BY <1>1, <1>2, <1>5, <2>1 DEF WorkerTyped
<1> QED
  BY <1>6, <1>7, <1>8 DEF TypeInv

LEMMA TypeWorker ==
  ASSUME NodeInv, TypeInv, Work \/ QueueDrops \/ Shutdown
  PROVE  TypeInv'
<1>1. /\ Streams = {"imu", "image"}
      /\ pc \in [{"imu", "image", "worker"} -> Places]
      /\ GateTyped /\ CallbacksTyped /\ WorkerTyped
  BY Others DEF NodeInv, HandsOK, Places, TypeInv
<1>2. UNCHANGED <<last, pushed, tracker_reset_pending_, reset_tracker, state_mutex_, tracker, inHand>>
  BY DEF Work, PopAndProcess, Handle, WorkerReturns, QueueDrops, Shutdown, gate, locals, history
<1>3. pc' = pc \/ \E at \in {"waiting", "handling", "done"} : pc' = [pc EXCEPT !["worker"] = at]
  BY DEF Work, PopAndProcess, Handle, WorkerReturns, QueueDrops, Shutdown
<1>4. pc'["imu"] = pc["imu"] /\ pc'["image"] = pc["image"]
  BY <1>1, <1>3
<1>5. GateTyped'
  BY <1>1, <1>2 DEF GateTyped
<1>6. CallbacksTyped'
  BY <1>1, <1>2, <1>4 DEF CallbacksTyped
<1>7. WorkerTyped'
  <2>1. CASE PopAndProcess
    <3>1. /\ pending # <<>> /\ pending' = Tail(pending) /\ samples' = samples
          /\ pc' = [pc EXCEPT !["worker"] = "handling"]
          /\ estimator' = EstimatorFor(timeline) \cup {Head(pending).replay}
          /\ \E e : handed' = <<e>>
      BY <2>1 DEF PopAndProcess, Queue!HandOut
    <3>2. pending' \in Seq(Tracked) /\ Head(pending) \in Tracked
      BY <1>1, <3>1 DEF WorkerTyped
    <3>3. estimator' \subseteq Replays
      BY <1>1, <3>1, <3>2 DEF EstimatorFor, WorkerTyped, Tracked
    <3>4. pc'["worker"] = "handling" /\ handed' # <<>>
      BY <1>1, <3>1
    <3> QED
      BY <1>1, <3>1, <3>2, <3>3, <3>4 DEF WorkerTyped
  <2>2. CASE Handle
    <3>1. /\ handed' = <<>> /\ estimator' \in {estimator, {}} /\ UNCHANGED <<pending, samples>>
          /\ pc' = [pc EXCEPT !["worker"] = "waiting"]
      BY <2>2 DEF Handle, Queue!Finish
    <3> QED
      BY <1>1, <3>1 DEF WorkerTyped
  <2>3. CASE QueueDrops
    <3>1. pending' = Tail(pending) /\ UNCHANGED <<samples, handed, pc, estimator>>
      BY <2>3 DEF QueueDrops, Queue!DropOldest, worker
    <3>2. pending # <<>>
      BY <2>3, DropsSome
    <3>3. pending' \in Seq(Tracked)
      BY <1>1, <3>1, <3>2 DEF WorkerTyped
    <3> QED
      BY <1>1, <3>1, <3>3 DEF WorkerTyped
  <2>4. CASE WorkerReturns
    <3>1. /\ UNCHANGED <<handed, estimator, pending, samples>> /\ pc["worker"] = "waiting"
          /\ pc' = [pc EXCEPT !["worker"] = "done"]
      BY <2>4 DEF WorkerReturns, queue, worker
    <3> QED
      BY <1>1, <3>1 DEF WorkerTyped
  <2>5. CASE Shutdown
    BY <1>1, <2>5 DEF Shutdown, Queue!Close, worker, WorkerTyped
  <2> QED
    BY <2>1, <2>2, <2>3, <2>4, <2>5 DEF Work
<1> QED
  BY <1>5, <1>6, <1>7 DEF TypeInv

LEMMA TypeStep == NodeInv /\ AheadInv /\ TypeInv /\ [Next]_vars => TypeInv'
<1> SUFFICES ASSUME NodeInv, AheadInv, TypeInv, [Next]_vars PROVE TypeInv'
  OBVIOUS
<1>1. CASE Publish \/ StartOver \/ ImageUnreadable \/ \E s \in Streams : PublishStale(s)
  <2>1. UNCHANGED <<gate, tracker_reset_pending_, state_mutex_, pc, locals, tracker, queue, worker,
                    history>>
    BY <1>1 DEF Publish, StartOver, ImageUnreadable, PublishStale
  <2> QED
    BY <2>1, TypeUnseen DEF gate, locals, queue, worker, history
<1>2. CASE UNCHANGED vars
  BY <1>2, TypeUnseen DEF vars, gate, locals, queue, worker, history
<1> QED
  BY <1>1, <1>2, TypeGates, TypeImuPush, TypeTrack, TypeImagePush, TypeWorker
     DEF Next, Callback, Joined

\* The theorem's part.
LEMMA NodeTypes ==
  ASSUME NodeInv, AheadInv, TypeInv
  PROVE  TypeOK
<1>1. /\ GateTyped /\ CallbacksTyped /\ WorkerTyped
      /\ PlayerOK /\ GateOK /\ HandsOK /\ EstimatorOK
  BY DEF TypeInv, NodeInv
<1>2. timeline \in Replays /\ origin \subseteq Replays /\ timeline \in Nat
  BY <1>1, OriginOfEpoch DEF GateOK
<1>3. \A e \in Nat : e <= timeline => e \in Epochs
  BY <1>2, Settings DEF Epochs, Replays
<1>4. timeline \in Epochs /\ epoch \in Epochs /\ worker_epoch \in Epochs
  BY <1>1, <1>2, <1>3 DEF HandsOK, EstimatorOK
<1>5. /\ channel \in [Streams -> Seq(Message)] /\ waiting \in [Streams -> BOOLEAN]
      /\ lastReplay \in [Streams -> Replays]
      /\ state_mutex_ = "imu" <=> pc["imu"] = "push"
  BY <1>1 DEF PlayerOK, GateOK, HandsOK, AheadInv
<1> QED
  BY <1>1, <1>2, <1>4, <1>5 DEF TypeOK, GateTyped, CallbacksTyped, WorkerTyped

-------------------------------------------------------------------------------
(*****************************************************************************)
(* Nothing is lost: a message that was not overtaken is later than every     *)
(* other of its replay before it, in the channel or at the gate.             *)
(*****************************************************************************)
Fresh(ch, l, lr) ==
  /\ \A i \in 1 .. Len(ch) : ch[i].replay = lr /\ ~ch[i].stale => l < ch[i].t
  /\ \A i, j \in 1 .. Len(ch) :
       i < j /\ ch[i].replay = ch[j].replay /\ ~ch[j].stale => ch[i].t < ch[j].t

FreshInv == \A s \in Streams : Fresh(channel[s], last[s], lastReplay[s])

LEMMA FreshInit == Init => FreshInv
<1> SUFFICES ASSUME Init, NEW s \in Streams PROVE Fresh(channel[s], last[s], lastReplay[s])
  BY DEF FreshInv
<1>1. channel[s] = <<>>
  BY DEF Init
<1>2. Len(<<>>) = 0 /\ 1 .. 0 = {}
  OBVIOUS
<1> QED
  BY <1>1, <1>2 DEF Fresh

\* The next message of the replay is later than all before it; one that was overtaken need not be.
LEMMA FreshSent ==
  ASSUME NEW ch, NEW l, NEW lr, NEW clk \in Nat, NEW rep \in Nat, NEW unr,
         Flow(ch, l, lr, clk, rep, unr), Fresh(ch, l, lr),
         NEW m \in Message, m.replay = rep, m.stale \/ m.t = clk + 1
  PROVE  Fresh(Append(ch, m), l, lr)
<1> DEFINE n   == Len(ch)
           new == Append(ch, m)
<1>1. /\ ch \in Seq(Message) /\ n \in Nat /\ Len(new) = n + 1
      /\ \A i \in 1 .. n : new[i] = ch[i] /\ ch[i].t \in Nat
      /\ new[n + 1] = m /\ m.t \in Nat
  BY Appended, MessageType DEF Flow
<1>2. /\ l \in Nat /\ lr \in Nat /\ (lr = rep => l <= clk)
      /\ \A i \in 1 .. n : ch[i].replay = rep => ch[i].t <= clk
  BY DEF Flow
<1>3. /\ \A i \in 1 .. n : ch[i].replay = lr /\ ~ch[i].stale => l < ch[i].t
      /\ \A i, j \in 1 .. n :
           i < j /\ ch[i].replay = ch[j].replay /\ ~ch[j].stale => ch[i].t < ch[j].t
  BY DEF Fresh
<1>4. \A i \in 1 .. n + 1 : i \in 1 .. n \/ i = n + 1
  BY <1>1
<1>5. \A i, j \in 1 .. n + 1 : i < j => i \in 1 .. n
  BY <1>1
<1> HIDE DEF n, new
<1>6. \A i \in 1 .. n + 1 : new[i].replay = lr /\ ~new[i].stale => l < new[i].t
  <2>1. m.replay = lr /\ ~m.stale => l < m.t
    BY <1>1, <1>2
  <2> QED
    BY <1>1, <1>3, <1>4, <2>1
<1>7. ASSUME NEW i \in 1 .. n + 1, NEW j \in 1 .. n + 1, i < j, new[i].replay = new[j].replay,
             ~new[j].stale
      PROVE  new[i].t < new[j].t
  <2>1. i \in 1 .. n
    BY <1>5, <1>7
  <2>2. CASE j \in 1 .. n
    BY <1>1, <1>3, <1>7, <2>1, <2>2
  <2>3. CASE j = n + 1
    <3>1. ch[i].replay = rep /\ m.t = clk + 1
      BY <1>1, <1>7, <2>1, <2>3
    <3>2. ch[i].t <= clk /\ ch[i].t \in Nat
      BY <1>1, <1>2, <2>1, <3>1
    <3>3. ch[i].t < clk + 1
      BY <3>2
    <3> QED
      BY <1>1, <2>1, <2>3, <3>1, <3>3
  <2> QED
    BY <1>4, <2>2, <2>3
<1> QED
  BY <1>1, <1>6, <1>7 DEF Fresh, new

\* A message taken off the channel, and its stamp perhaps let in.
LEMMA FreshTaken ==
  ASSUME NEW ch \in Seq(Message), ch # <<>>, NEW l, NEW lr, Fresh(ch, l, lr)
  PROVE  Fresh(Tail(ch), l, lr) /\ Fresh(Tail(ch), ch[1].t, ch[1].replay)
<1> SUFFICES ASSUME NEW k, NEW kr,
                    \/ k = l /\ kr = lr
                    \/ k = ch[1].t /\ kr = ch[1].replay
             PROVE  Fresh(Tail(ch), k, kr)
  OBVIOUS
<1> DEFINE n    == Len(ch)
           rest == Tail(ch)
<1>1. /\ n \in Nat /\ n > 0 /\ Len(rest) = n - 1
      /\ \A i \in 1 .. n - 1 : rest[i] = ch[i + 1]
  BY Taken
<1>2. /\ \A i \in 1 .. n : ch[i].replay = lr /\ ~ch[i].stale => l < ch[i].t
      /\ \A i, j \in 1 .. n :
           i < j /\ ch[i].replay = ch[j].replay /\ ~ch[j].stale => ch[i].t < ch[j].t
  BY DEF Fresh
<1>3. /\ 1 \in 1 .. n
      /\ \A i \in 1 .. n - 1 : i + 1 \in 1 .. n /\ 1 < i + 1
      /\ \A i, j \in 1 .. n - 1 : i < j => i + 1 < j + 1
  BY <1>1
<1> HIDE DEF n, rest
<1>4. \A i \in 1 .. n - 1 : rest[i].replay = kr /\ ~rest[i].stale => k < rest[i].t
  BY <1>1, <1>2, <1>3
<1>5. \A i, j \in 1 .. n - 1 :
        i < j /\ rest[i].replay = rest[j].replay /\ ~rest[j].stale => rest[i].t < rest[j].t
  BY <1>1, <1>2, <1>3
<1> QED
  BY <1>1, <1>4, <1>5 DEF Fresh, rest

LEMMA FreshStep == NodeInv /\ FreshInv /\ [Next]_vars => FreshInv'
<1> SUFFICES ASSUME NodeInv, FreshInv, [Next]_vars PROVE FreshInv'
  OBVIOUS
<1>1. /\ channel \in [Streams -> Seq(Message)] /\ clock \in Nat /\ replay \in Replays
      /\ replay \in Nat /\ last \in [Streams -> Nat] /\ lastReplay \in [Streams -> Nat]
      /\ \A s \in Streams : Flow(channel[s], last[s], lastReplay[s], clock, replay, unreadable)
  BY Settings DEF NodeInv, PlayerOK, GateOK, Topic, Replays
<1>2. \A s \in Streams : Fresh(channel[s], last[s], lastReplay[s])
  BY DEF FreshInv
<1>3. CASE UNCHANGED <<channel, last, lastReplay>>
  BY <1>3 DEF FreshInv
<1>4. CASE Publish
  <2> DEFINE m == [t |-> clock + 1, replay |-> replay, stale |-> FALSE]
  <2>1. clock < Length /\ UNCHANGED <<last, lastReplay>>
    BY <1>4 DEF Publish, gate
  <2>2. channel' = [s \in Streams |-> Append(channel[s], m)]
    BY <1>4 DEF Publish
  <2>3. m \in Message /\ m.replay = replay /\ m.t = clock + 1
    BY <1>1, <2>1, Settings DEF Message, Ticks
  <2> HIDE DEF m
  <2>4. \A s \in Streams : Fresh(Append(channel[s], m), last[s], lastReplay[s])
    BY <1>1, <1>2, <2>3, FreshSent
  <2> QED
    BY <2>1, <2>2, <2>4 DEF FreshInv
<1>5. CASE \E s \in Streams : PublishStale(s)
  <2>1. PICK s \in Streams : PublishStale(s)
    BY <1>5
  <2>2. PICK t \in Ticks : Send(s, [t |-> t, replay |-> replay, stale |-> TRUE])
    BY <2>1 DEF PublishStale
  <2> DEFINE m == [t |-> t, replay |-> replay, stale |-> TRUE]
  <2>3. m \in Message /\ m.replay = replay /\ m.stale
    BY <1>1 DEF Message
  <2>4. channel' = [channel EXCEPT ![s] = Append(channel[s], m)]
    BY <2>2 DEF Send
  <2>5. UNCHANGED <<last, lastReplay>>
    BY <2>1 DEF PublishStale, gate
  <2> HIDE DEF m
  <2>6. Fresh(Append(channel[s], m), last[s], lastReplay[s])
    BY <1>1, <1>2, <2>3, FreshSent
  <2> QED
    BY <1>1, <1>2, <2>4, <2>5, <2>6 DEF FreshInv
<1>6. ASSUME NEW s \in Streams, Dispatch(s),
             \/ UNCHANGED <<last, lastReplay>>
             \/ /\ last' = [last EXCEPT ![s] = Head(channel[s]).t]
                /\ lastReplay' = [lastReplay EXCEPT ![s] = Head(channel[s]).replay]
      PROVE  FreshInv'
  <2>1. /\ channel[s] # <<>> /\ channel[s] \in Seq(Message)
        /\ channel' = [channel EXCEPT ![s] = Tail(channel[s])]
    BY <1>1, <1>6 DEF Dispatch
  <2>2. Head(channel[s]) = channel[s][1]
    BY <2>1
  <2>3. \/ last'[s] = last[s] /\ lastReplay'[s] = lastReplay[s]
        \/ last'[s] = channel[s][1].t /\ lastReplay'[s] = channel[s][1].replay
    BY <1>1, <1>6, <2>2
  <2>4. Fresh(Tail(channel[s]), last'[s], lastReplay'[s])
    <3>1. Fresh(channel[s], last[s], lastReplay[s])
      BY <1>2
    <3>2. /\ Fresh(Tail(channel[s]), last[s], lastReplay[s])
          /\ Fresh(Tail(channel[s]), channel[s][1].t, channel[s][1].replay)
      BY <2>1, <3>1, FreshTaken
    <3> QED
      BY <2>3, <3>2
  <2>5. \A x \in Streams : x # s => /\ last'[x] = last[x] /\ lastReplay'[x] = lastReplay[x]
                                    /\ channel'[x] = channel[x]
    BY <1>1, <1>6, <2>1
  <2>6. channel'[s] = Tail(channel[s])
    BY <1>1, <2>1
  <2>7. \A x \in Streams : Fresh(channel'[x], last'[x], lastReplay'[x])
    BY <1>2, <2>4, <2>5, <2>6
  <2> QED
    BY <2>7 DEF FreshInv
<1>7. CASE ImuGate
  BY <1>6, <1>7, Others DEF ImuGate, Accept, Refuse, gate
<1>8. CASE ImageGate
  BY <1>6, <1>8, Others DEF ImageGate, Accept, Refuse, gate
<1>9. CASE ImageUnreadable
  BY <1>6, <1>9, Others DEF ImageUnreadable, gate
<1>10. CASE StartOver \/ ImuPush \/ Track \/ ImagePush
  BY <1>3, <1>10 DEF StartOver, ImuPush, Track, ImagePush, player, gate
<1>11. CASE Work \/ QueueDrops \/ Shutdown \/ UNCHANGED vars
  BY <1>3, <1>11 DEF Work, PopAndProcess, Handle, WorkerReturns, QueueDrops, Shutdown, vars,
                     player, gate
<1> QED
  BY <1>4, <1>5, <1>7, <1>8, <1>9, <1>10, <1>11 DEF Next, Callback, Joined

LEMMA NothingLost ==
  ASSUME NodeInv, AheadInv, FreshInv
  PROVE  NeitherStreamLossy
<1> SUFFICES ASSUME NEW s \in Streams, channel[s] # <<>>, origin = {Head(channel[s]).replay},
                    ~Head(channel[s]).stale
             PROVE  Accepts(s, Head(channel[s]).t)
  BY DEF NeitherStreamLossy
<1> DEFINE m == Head(channel[s])
<1>1. /\ channel[s] \in Seq(Message) /\ last[s] \in Nat /\ lastReplay[s] \in Nat
      /\ unreadable \in Nat /\ unreadable <= MaxUnreadable
      /\ Flow(channel[s], last[s], lastReplay[s], clock, replay, unreadable)
      /\ clock \in Nat /\ replay \in Nat
      /\ waiting[s] <=> lastReplay[s] < lastReplay[Other(s)]
  BY Settings DEF NodeInv, PlayerOK, GateOK, Topic, Replays
<1>2. /\ m \in Message /\ m = channel[s][1] /\ 1 \in 1 .. Len(channel[s]) /\ m.t \in Nat
  BY <1>1, Taken, MessageType
<1>3. m.replay = timeline /\ timeline \in Nat
  BY OriginOfEpoch DEF NodeInv, GateOK
<1>4. CASE waiting[s]
  <2>1. lastReplay[Other(s)] <= timeline /\ lastReplay[Other(s)] \in Nat
    BY OtherTopic DEF AheadInv, NodeInv, GateOK
  <2>2. m.replay # lastReplay[s]
    BY <1>1, <1>3, <1>4, <2>1
  <2>3. m.t + Jump <= last[s]
    BY <1>1, <2>2, HeadTells
  <2> QED
    BY <1>4, <2>3 DEF Accepts, Rewound
<1>5. CASE ~waiting[s]
  <2>1. lastReplay[s] = timeline
    <3>1. /\ lastReplay[s] <= timeline /\ lastReplay[Other(s)] \in Nat
          /\ lastReplay[s] = timeline \/ lastReplay[Other(s)] = timeline
      BY OtherTopic DEF AheadInv, NodeInv, GateOK
    <3> QED
      BY <1>1, <1>3, <1>5, <3>1
  <2>2. last[s] < m.t
    BY <1>2, <1>3, <2>1 DEF FreshInv, Fresh
  <2>3. ~(m.t < last[s])
    BY <1>1, <1>2, <2>2
  <2> QED
    BY <1>5, <2>3 DEF Accepts, OutOfOrder
<1> QED
  BY <1>4, <1>5

-------------------------------------------------------------------------------
(*****************************************************************************)
(* The poses: within an epoch the frames are in the order of their stamps    *)
(* from the gate to the estimator, and the last pose is behind them all.     *)
(*****************************************************************************)
NoLater(t, frames, newest) ==
  /\ t \in Nat /\ t <= newest
  /\ \A i \in 1 .. Len(frames) : t <= frames[i].t

\* The worker is at a frame of the current epoch.
AtCurrent == pc["worker"] = "handling" /\ worker_epoch = timeline

PoseInv ==
  /\ \A i \in 1 .. Len(pending) : pending[i].t <= pushed["image"]
  /\ \A i, j \in 1 .. Len(pending) : i < j => pending[i].t <= pending[j].t
  /\ AtCurrent => handed[1].frame.replay \in origin /\ NoLater(handed[1].frame.t, pending, pushed["image"])
  /\ odom # <<>> =>
       /\ odom = <<[replay |-> odom[1].replay, t |-> odom[1].t]>>
       /\ odom[1].replay \in Nat /\ odom[1].replay <= timeline
       /\ odom[1].replay = timeline =>
            NoLater(odom[1].t, pending, pushed["image"]) /\ (AtCurrent => odom[1].t <= handed[1].frame.t)

LEMMA PoseInit == Init => PoseInv
<1> SUFFICES ASSUME Init PROVE PoseInv
  OBVIOUS
<1>1. pending = <<>> /\ odom = <<>> /\ pc["worker"] = "waiting"
  BY DEF Init, Queue!Init
<1>2. Len(<<>>) = 0 /\ 1 .. 0 = {}
  OBVIOUS
<1> QED
  BY <1>1, <1>2 DEF PoseInv, AtCurrent

LEMMA PoseUnseen ==
  ASSUME PoseInv, UNCHANGED <<pending, handed, worker_epoch, timeline, odom>>,
         pushed'["image"] = pushed["image"], origin \subseteq origin',
         pc'["worker"] = "handling" => pc["worker"] = "handling"
  PROVE  PoseInv'
BY DEF PoseInv, NoLater, AtCurrent

\* A restart: what is published so far is of an earlier epoch.
LEMMA PoseRestart ==
  ASSUME NodeInv, PoseInv, Queue!Restart, worker_epoch' = worker_epoch, odom' = odom
  PROVE  PoseInv'
<1>1. pending' = <<>> /\ timeline' = timeline + 1
  BY DEF Queue!Restart
<1>2. Len(pending') = 0 /\ 1 .. 0 = {}
  BY <1>1
<1>3. timeline \in Nat /\ worker_epoch \in Nat /\ worker_epoch <= timeline
  BY DEF NodeInv, GateOK, EstimatorOK
<1>4. ~AtCurrent'
  BY <1>1, <1>3 DEF AtCurrent
<1>5. odom # <<>> => /\ odom = <<[replay |-> odom[1].replay, t |-> odom[1].t]>>
                     /\ odom[1].replay \in Nat /\ odom[1].replay <= timeline
  BY DEF PoseInv
<1>6. odom # <<>> => odom[1].replay <= timeline' /\ odom[1].replay # timeline'
  BY <1>1, <1>3, <1>5
<1> QED
  BY <1>1, <1>2, <1>4, <1>5, <1>6 DEF PoseInv

LEMMA PoseGates ==
  ASSUME NodeInv, PoseInv, ImuGate \/ ImageGate
  PROVE  PoseInv'
<1>1. /\ Streams = {"imu", "image"} /\ "imu" # "image"
      /\ pc \in [{"imu", "image", "worker"} -> Places]
  BY Others DEF NodeInv, HandsOK, Places
<1>2. UNCHANGED worker
  BY DEF ImuGate, ImageGate
<1>3. worker_epoch' = worker_epoch /\ odom' = odom
  BY <1>2 DEF worker
<1>4. pc'["worker"] = pc["worker"]
  BY <1>1 DEF ImuGate, ImageGate, Refuse
<1>5. UNCHANGED <<queue, history>> \/ Queue!Restart
  BY DEF ImuGate, ImageGate, Refuse, Accept
<1>6. CASE UNCHANGED <<queue, history>>
  BY <1>3, <1>4, <1>6, PoseUnseen DEF queue, history
<1> QED
  BY <1>3, <1>5, <1>6, PoseRestart

LEMMA PoseImagePush ==
  ASSUME NodeInv, FedInv, TypeInv, PoseInv, ImagePush
  PROVE  PoseInv'
<1> DEFINE f == inHand["image"][1]
<1>1. /\ Streams = {"imu", "image"} /\ "imu" # "image"
      /\ pc \in [{"imu", "image", "worker"} -> Places] /\ pending \in Seq(Tracked)
      /\ pushed \in [Streams -> Nat]
  BY Others DEF NodeInv, HandsOK, Places, TypeInv, WorkerTyped, FedInv, CarriedOK
<1>2. /\ pc["image"] = "push" /\ pc' = [pc EXCEPT !["image"] = "idle"]
      /\ UNCHANGED <<handed, worker_epoch, timeline, odom>>
      /\ \/ UNCHANGED <<pending, pushed, origin>>
         \/ /\ pending' = Append(pending, f) /\ pushed' = [pushed EXCEPT !["image"] = f.t]
            /\ origin' = origin \cup {f.replay}
  BY DEF ImagePush, Push, Queue!Frame, queue, history, worker
<1>3. pc'["worker"] = pc["worker"]
  BY <1>1, <1>2
<1>4. CASE UNCHANGED <<pending, pushed, origin>>
  BY <1>2, <1>3, <1>4, PoseUnseen
<1>5. CASE /\ pending' = Append(pending, f) /\ pushed' = [pushed EXCEPT !["image"] = f.t]
           /\ origin' = origin \cup {f.replay}
  <2>1. f \in Tracked /\ f.t = last["image"]
    BY <1>2 DEF TypeInv, CallbacksTyped, FedInv, UnderWayOK
  <2>2. pushed["image"] <= f.t /\ f.t \in Nat /\ pushed["image"] \in Nat
    BY <1>1, <2>1 DEF FedInv, CarriedOK, PushedOK
  <2> HIDE DEF f
  <2>3. /\ Len(pending') = Len(pending) + 1 /\ Len(pending) \in Nat
        /\ pending'[Len(pending) + 1] = f
        /\ \A i \in 1 .. Len(pending) : pending'[i] = pending[i] /\ pending[i] \in Tracked
    BY <1>1, <1>5, <2>1
  <2>4. \A i \in 1 .. Len(pending) : pending[i].t \in Nat
    BY <2>3 DEF Tracked, Ticks
  <2>5. pushed'["image"] = f.t
    BY <1>1, <1>5
  <2>6. \A i \in 1 .. Len(pending') : i \in 1 .. Len(pending) \/ i = Len(pending) + 1
    BY <2>3
  <2>7. /\ \A i \in 1 .. Len(pending) : pending[i].t <= pushed["image"]
        /\ \A i, j \in 1 .. Len(pending) : i < j => pending[i].t <= pending[j].t
    BY DEF PoseInv
  <2>8. \A i \in 1 .. Len(pending) : pending[i].t <= f.t
    BY <2>2, <2>4, <2>7
  <2>9. f.t <= f.t
    BY <2>2
  <2>10. \A i \in 1 .. Len(pending') : pending'[i].t <= f.t
    BY <2>3, <2>6, <2>8, <2>9
  <2>11. ASSUME NEW i \in 1 .. Len(pending'), NEW j \in 1 .. Len(pending'), i < j
         PROVE  pending'[i].t <= pending'[j].t
    <3>1. i \in 1 .. Len(pending)
      BY <2>3, <2>11
    <3>2. CASE j \in 1 .. Len(pending)
      BY <2>3, <2>7, <2>11, <3>1, <3>2
    <3>3. CASE j = Len(pending) + 1
      BY <2>3, <2>8, <3>1, <3>3
    <3> QED
      BY <2>6, <3>2, <3>3
  <2>12. \A t : NoLater(t, pending, pushed["image"]) => NoLater(t, pending', pushed'["image"])
    <3> SUFFICES ASSUME NEW t, NoLater(t, pending, pushed["image"]) PROVE NoLater(t, pending', pushed'["image"])
      OBVIOUS
    <3>1. /\ t \in Nat /\ t <= pushed["image"]
          /\ \A i \in 1 .. Len(pending) : t <= pending[i].t
      BY DEF NoLater
    <3>2. t <= f.t
      BY <2>2, <3>1
    <3>3. \A i \in 1 .. Len(pending') : t <= pending'[i].t
      BY <2>3, <2>6, <3>1, <3>2
    <3> QED
      BY <2>5, <3>1, <3>2, <3>3 DEF NoLater
  <2>13. AtCurrent' <=> AtCurrent
    BY <1>2, <1>3 DEF AtCurrent
  <2>14. AtCurrent' => handed'[1].frame.replay \in origin' /\ NoLater(handed'[1].frame.t, pending', pushed'["image"])
    BY <1>2, <1>5, <2>12, <2>13 DEF PoseInv
  <2>15. odom' # <<>> =>
           /\ odom' = <<[replay |-> odom'[1].replay, t |-> odom'[1].t]>>
           /\ odom'[1].replay \in Nat /\ odom'[1].replay <= timeline'
           /\ odom'[1].replay = timeline' =>
                NoLater(odom'[1].t, pending', pushed'["image"]) /\ (AtCurrent' => odom'[1].t <= handed'[1].frame.t)
    BY <1>2, <2>12, <2>13 DEF PoseInv
  <2> QED
    BY <2>5, <2>10, <2>11, <2>14, <2>15 DEF PoseInv
<1> QED
  BY <1>2, <1>4, <1>5

\* The oldest frame leaves the queue: the rest is no earlier.
LEMMA HeadLeaves ==
  ASSUME TypeInv, PoseInv, pending # <<>>, pending' = Tail(pending), pushed' = pushed
  PROVE  /\ \A t : NoLater(t, pending, pushed["image"]) => NoLater(t, pending', pushed'["image"]) /\ t <= Head(pending).t
         /\ NoLater(Head(pending).t, pending', pushed'["image"]) /\ Head(pending) = pending[1] /\ 1 \in DOMAIN pending
         /\ \A i \in 1 .. Len(pending') : pending'[i].t <= pushed'["image"]
         /\ \A i, j \in 1 .. Len(pending') : i < j => pending'[i].t <= pending'[j].t
<1> DEFINE n == Len(pending)
<1>1. pending \in Seq(Tracked)
  BY DEF TypeInv, WorkerTyped
<1>2. /\ n \in Nat /\ n > 0 /\ Len(pending') = n - 1 /\ Head(pending) = pending[1]
      /\ DOMAIN pending = 1 .. n
      /\ \A i \in 1 .. n - 1 : pending'[i] = pending[i + 1]
      /\ \A i \in 1 .. n : pending[i] \in Tracked
  BY <1>1
<1> HIDE DEF n
<1>3. /\ 1 \in 1 .. n
      /\ \A i \in 1 .. n - 1 : i + 1 \in 1 .. n /\ 1 < i + 1
      /\ \A i, j \in 1 .. n - 1 : i < j => i + 1 < j + 1
  BY <1>2
<1>4. \A i \in 1 .. n : pending[i].t \in Nat
  BY <1>2 DEF Tracked, Ticks
<1>5. /\ \A i \in 1 .. n : pending[i].t <= pushed["image"]
      /\ \A i, j \in 1 .. n : i < j => pending[i].t <= pending[j].t
  BY DEF PoseInv, n
<1>6. /\ \A i \in 1 .. n - 1 : pending'[i].t <= pushed["image"]
      /\ \A i, j \in 1 .. n - 1 : i < j => pending'[i].t <= pending'[j].t
  BY <1>2, <1>3, <1>5
<1>7. ASSUME NEW t, NoLater(t, pending, pushed["image"]) PROVE NoLater(t, pending', pushed'["image"]) /\ t <= Head(pending).t
  <2>1. t \in Nat /\ t <= pushed["image"] /\ \A i \in 1 .. n : t <= pending[i].t
    BY <1>7 DEF NoLater, n
  <2>2. \A i \in 1 .. n - 1 : t <= pending'[i].t
    BY <1>2, <1>3, <2>1
  <2> QED
    BY <1>2, <1>3, <2>1, <2>2 DEF NoLater
<1>8. NoLater(Head(pending).t, pending', pushed'["image"])
  <2>1. \A i \in 1 .. n - 1 : pending[1].t <= pending'[i].t
    BY <1>2, <1>3, <1>5
  <2>2. pending[1].t \in Nat /\ pending[1].t <= pushed["image"]
    BY <1>3, <1>4, <1>5
  <2> QED
    BY <1>2, <2>1, <2>2 DEF NoLater
<1> QED
  BY <1>2, <1>3, <1>6, <1>7, <1>8

LEMMA PosePop ==
  ASSUME NodeInv, TypeInv, PoseInv, PopAndProcess
  PROVE  PoseInv'
<1>1. /\ pending # <<>> /\ pending' = Tail(pending) /\ timeline' = timeline
      /\ worker_epoch' = timeline /\ odom' = odom /\ pushed' = pushed /\ origin' = origin
      /\ pc' = [pc EXCEPT !["worker"] = "handling"]
  BY DEF PopAndProcess, Queue!HandOut, history
<1>2. /\ \A t : NoLater(t, pending, pushed["image"]) => NoLater(t, pending', pushed'["image"]) /\ t <= Head(pending).t
      /\ NoLater(Head(pending).t, pending', pushed'["image"]) /\ Head(pending) = pending[1] /\ 1 \in DOMAIN pending
      /\ \A i \in 1 .. Len(pending') : pending'[i].t <= pushed'["image"]
      /\ \A i, j \in 1 .. Len(pending') : i < j => pending'[i].t <= pending'[j].t
  BY <1>1, HeadLeaves
<1>3. handed'[1].frame = Head(pending)
  <2>1. \E imu : handed' = <<[frame |-> Head(pending), imu |-> imu]>>
    BY DEF PopAndProcess, Queue!HandOut
  <2> QED
    BY <2>1
<1>4. Head(pending).replay \in origin'
  BY <1>1, <1>2 DEF NodeInv, QueueOK
<1>5. handed'[1].frame.replay \in origin' /\ NoLater(handed'[1].frame.t, pending', pushed'["image"])
  BY <1>2, <1>3, <1>4
<1>6. odom' # <<>> =>
        /\ odom' = <<[replay |-> odom'[1].replay, t |-> odom'[1].t]>>
        /\ odom'[1].replay \in Nat /\ odom'[1].replay <= timeline'
        /\ odom'[1].replay = timeline' =>
             NoLater(odom'[1].t, pending', pushed'["image"]) /\ odom'[1].t <= handed'[1].frame.t
  BY <1>1, <1>2, <1>3 DEF PoseInv
<1> QED
  BY <1>2, <1>5, <1>6 DEF PoseInv

LEMMA PoseDrops ==
  ASSUME NodeInv, TypeInv, PoseInv, QueueDrops
  PROVE  PoseInv'
<1>1. /\ pending # <<>> /\ pending' = Tail(pending)
      /\ UNCHANGED <<timeline, worker_epoch, odom, pushed, origin, pc, handed>>
  BY DropsSome DEF QueueDrops, Queue!DropOldest, history, worker
<1>2. /\ \A t : NoLater(t, pending, pushed["image"]) => NoLater(t, pending', pushed'["image"]) /\ t <= Head(pending).t
      /\ \A i \in 1 .. Len(pending') : pending'[i].t <= pushed'["image"]
      /\ \A i, j \in 1 .. Len(pending') : i < j => pending'[i].t <= pending'[j].t
  BY <1>1, HeadLeaves
<1>3. AtCurrent' <=> AtCurrent
  BY <1>1 DEF AtCurrent
<1>4. AtCurrent' => handed'[1].frame.replay \in origin' /\ NoLater(handed'[1].frame.t, pending', pushed'["image"])
  BY <1>1, <1>2, <1>3 DEF PoseInv
<1>5. odom' # <<>> =>
        /\ odom' = <<[replay |-> odom'[1].replay, t |-> odom'[1].t]>>
        /\ odom'[1].replay \in Nat /\ odom'[1].replay <= timeline'
        /\ odom'[1].replay = timeline' =>
             NoLater(odom'[1].t, pending', pushed'["image"]) /\ (AtCurrent' => odom'[1].t <= handed'[1].frame.t)
  BY <1>1, <1>2, <1>3 DEF PoseInv
<1> QED
  BY <1>2, <1>4, <1>5 DEF PoseInv

\* A pose is published of the replay being received, and none before the last one.
PoseStep ==
  odom' # odom =>
    /\ origin \subseteq {odom'[1].replay}
    /\ odom # <<>> => \/ odom[1].replay < odom'[1].replay
                      \/ /\ odom[1].replay = odom'[1].replay
                         /\ odom[1].t < odom'[1].t

LEMMA PoseHandle ==
  ASSUME NodeInv, AheadInv, TypeInv, PoseInv, Handle
  PROVE  PoseInv' /\ PoseStep
<1> DEFINE pose == [replay |-> handed[1].frame.replay, t |-> handed[1].frame.t]
<1>1. /\ pc["worker"] = "handling" /\ pc' = [pc EXCEPT !["worker"] = "waiting"]
      /\ UNCHANGED <<pending, timeline, pushed, origin, worker_epoch>>
      /\ odom' = odom \/ (worker_epoch = timeline /\ odom' = <<pose>>)
  BY DEF Handle, Queue!Finish, history, Outdated
<1>2. pc'["worker"] = "waiting"
  BY <1>1 DEF NodeInv, HandsOK
<1>3. ~AtCurrent' /\ \A t : NoLater(t, pending, pushed["image"]) => NoLater(t, pending', pushed'["image"])
  BY <1>1, <1>2 DEF AtCurrent, NoLater
<1>4. CASE odom' = odom
  BY <1>1, <1>3, <1>4 DEF PoseInv, PoseStep
<1>5. CASE worker_epoch = timeline /\ odom' = <<pose>>
  <2>1. handed[1].frame.replay \in origin /\ NoLater(handed[1].frame.t, pending, pushed["image"])
    BY <1>1, <1>5 DEF PoseInv, AtCurrent
  <2>2. timeline \in Nat /\ handed[1].frame.replay = timeline /\ origin \subseteq {timeline}
    BY <2>1, OriginOfEpoch DEF NodeInv, GateOK
  <2>3. /\ odom' # <<>> /\ odom'[1] = pose /\ odom' = <<[replay |-> odom'[1].replay, t |-> odom'[1].t]>>
        /\ odom'[1].replay = timeline /\ odom'[1].t = handed[1].frame.t
    BY <1>5, <2>2
  <2>4. timeline <= timeline'
    BY <1>1, <2>2
  <2>5. PoseInv'
    BY <1>1, <1>3, <2>1, <2>2, <2>3, <2>4 DEF PoseInv
  <2>6. ASSUME odom' # odom, odom # <<>>
        PROVE  \/ odom[1].replay < timeline
               \/ odom[1].replay = timeline /\ odom[1].t < handed[1].frame.t
    <3>1. /\ odom = <<[replay |-> odom[1].replay, t |-> odom[1].t]>>
          /\ odom[1].replay \in Nat /\ odom[1].replay <= timeline
      BY <2>6 DEF PoseInv
    <3>2. CASE odom[1].replay = timeline
      <4>1. /\ odom[1].t \in Nat /\ handed[1].frame.t \in Nat
            /\ odom[1].t <= handed[1].frame.t
        BY <1>1, <1>5, <2>1, <2>6, <3>2 DEF PoseInv, AtCurrent, NoLater
      <4>2. odom[1].t # handed[1].frame.t
        BY <1>5, <2>2, <2>6, <3>1, <3>2
      <4> QED
        BY <3>2, <4>1, <4>2
    <3> QED
      BY <2>2, <3>1, <3>2
  <2>7. PoseStep
    BY <2>2, <2>3, <2>6 DEF PoseStep
  <2> QED
    BY <2>5, <2>7
<1> QED
  BY <1>1, <1>4, <1>5

LEMMA PoseOthers ==
  ASSUME NodeInv, FedInv, PoseInv,
         \/ Publish \/ StartOver \/ ImageUnreadable \/ \E s \in Streams : PublishStale(s)
         \/ ImuPush \/ Track \/ WorkerReturns \/ Shutdown \/ UNCHANGED vars
  PROVE  PoseInv' /\ odom' = odom
<1>1. /\ Streams = {"imu", "image"} /\ "imu" # "image" /\ DOMAIN pushed = Streams
      /\ pc \in [{"imu", "image", "worker"} -> Places]
  BY Others DEF NodeInv, HandsOK, Places, FedInv, CarriedOK
<1>2. UNCHANGED <<pending, handed, worker_epoch, timeline, odom>>
  BY DEF Publish, StartOver, ImageUnreadable, PublishStale, ImuPush, Track, WorkerReturns, Shutdown,
         vars, queue, worker, Queue!Sample, Queue!Close
<1>3. /\ pushed'["image"] = pushed["image"] /\ origin \subseteq origin'
  BY <1>1 DEF Publish, StartOver, ImageUnreadable, PublishStale, ImuPush, Push, Track, WorkerReturns,
              Shutdown, vars, history
<1>4. pc'["worker"] = "handling" => pc["worker"] = "handling"
  BY <1>1 DEF Publish, StartOver, ImageUnreadable, PublishStale, ImuPush, Push, Track, WorkerReturns,
              Shutdown, vars
<1> QED
  BY <1>2, <1>3, <1>4, PoseUnseen

-------------------------------------------------------------------------------
(*****************************************************************************)
(* The theorems.                                                             *)
(*****************************************************************************)
\* Everything that holds of the node while replays are started over only once both topics are
\* well under way.
SettledInv == NodeInv /\ FedInv /\ AheadInv /\ TypeInv /\ FreshInv /\ PoseInv

LEMMA PoseNext ==
  ASSUME NodeInv, FedInv, AheadInv, TypeInv, PoseInv, [Next]_vars
  PROVE  PoseInv' /\ PoseStep
<1>1. CASE Handle
  BY <1>1, PoseHandle
<1>2. CASE \/ Publish \/ StartOver \/ ImageUnreadable \/ \E s \in Streams : PublishStale(s)
           \/ ImuPush \/ Track \/ WorkerReturns \/ Shutdown \/ UNCHANGED vars
  BY <1>2, PoseOthers DEF PoseStep
<1>3. CASE ImuGate \/ ImageGate
  BY <1>3, PoseGates DEF PoseStep, ImuGate, ImageGate, worker
<1>4. CASE ImagePush
  BY <1>4, PoseImagePush DEF PoseStep, ImagePush, worker
<1>5. CASE PopAndProcess
  BY <1>5, PosePop DEF PoseStep, PopAndProcess
<1>6. CASE QueueDrops
  BY <1>6, PoseDrops DEF PoseStep, QueueDrops, worker
<1> QED
  BY <1>1, <1>2, <1>3, <1>4, <1>5, <1>6 DEF Next, Callback, Work, Joined

LEMMA SettledStep ==
  Settled /\ SettledInv /\ [Next]_vars => SettledInv' /\ PoseStep
<1> SUFFICES ASSUME Settled, SettledInv, [Next]_vars PROVE SettledInv' /\ PoseStep
  OBVIOUS
<1>1. NodeInv /\ FedInv /\ AheadInv /\ TypeInv /\ FreshInv /\ PoseInv
  BY DEF SettledInv
<1>2. NodeInv' /\ FedInv' /\ AheadInv' /\ TypeInv' /\ FreshInv'
  BY <1>1, NodeStep, FedStep, AheadStep, TypeStep, FreshStep
<1>3. PoseInv' /\ PoseStep
  BY <1>1, PoseNext
<1> QED
  BY <1>2, <1>3 DEF SettledInv

LEMMA SettledAlways ==
  ASSUME Settled
  PROVE  Safety => []SettledInv /\ [][PoseStep]_vars
<1>1. Init => SettledInv
  BY NodeInit, FedInit, AheadInit, TypeInit, FreshInit, PoseInit DEF SettledInv
<1>2. SettledInv /\ [Next]_vars => SettledInv' /\ PoseStep
  BY SettledStep
<1>3. SettledInv /\ [Next]_vars => [PoseStep]_vars
  BY <1>2
<1> QED
  BY <1>1, <1>2, <1>3, PTL DEF Safety

\* A step of the node that leaves the queue alone.
LEMMA QueueAtRest ==
  ASSUME \/ Publish \/ StartOver \/ ImageUnreadable \/ \E s \in Streams : PublishStale(s)
         \/ Track \/ WorkerReturns \/ UNCHANGED vars
  PROVE  UNCHANGED Queue!vars
<1>1. UNCHANGED queue
  BY DEF Publish, StartOver, ImageUnreadable, PublishStale, Track, WorkerReturns, vars
<1> QED
  BY <1>1 DEF queue, Queue!vars

\* What a step of the node does to the queue is one of the queue's own operations.
LEMMA QueueStep == TypeInv /\ [Next]_vars => [Queue!Next]_(Queue!vars)
<1> SUFFICES ASSUME TypeInv, [Next]_vars PROVE Queue!Next \/ UNCHANGED Queue!vars
  OBVIOUS
<1>1. CASE ImuGate \/ ImageGate
  <2>1. UNCHANGED queue \/ Queue!Restart
    BY <1>1 DEF ImuGate, ImageGate, Accept, Refuse
  <2> QED
    BY <2>1 DEF queue, Queue!vars, Queue!Next
<1>2. CASE ImuPush
  <2>1. inHand["imu"][1].t \in Ticks /\ Queue!Sample(inHand["imu"][1].t)
    BY <1>2 DEF ImuPush, TypeInv, CallbacksTyped
  <2> QED
    BY <2>1 DEF Queue!Next
<1>3. CASE ImagePush
  <2>1. inHand["image"][1] \in Tracked
    BY <1>3 DEF ImagePush, TypeInv, CallbacksTyped
  <2>2. UNCHANGED queue \/ Queue!Frame(inHand["image"][1])
    BY <1>3 DEF ImagePush
  <2> QED
    BY <2>1, <2>2 DEF queue, Queue!vars, Queue!Next
<1>4. CASE PopAndProcess \/ Handle \/ QueueDrops \/ Shutdown
  <2>1. Queue!HandOut \/ Queue!Finish \/ Queue!DropOldest \/ Queue!Close
    BY <1>4 DEF PopAndProcess, Handle, QueueDrops, Shutdown
  <2> QED
    BY <2>1 DEF Queue!Next
<1> QED
  BY <1>1, <1>2, <1>3, <1>4, QueueAtRest DEF Next, Callback, Work, Joined

\* When replays are started over only once both topics are well under way: whatever is still in
\* transit, stale or unreadable, no epoch of the queue ever holds two replays (acceptStamp).
THEOREM ReplaysApart ==
  ASSUME Settled
  PROVE  Safety => []TimelinesApart
<1>1. NodeInv /\ [Next]_vars => NodeInv'
  BY NodeStep
<1> QED
  BY <1>1, NodeInit, Promised, PTL DEF Safety

\* Under the same condition: no frame is queued or estimated whose tracks were followed from an
\* image of another replay, wherever a restart meets the image callback (imageCallback).
THEOREM TracksOfOneReplay ==
  ASSUME Settled
  PROVE  Safety => []TracksApart
<1>1. NodeInv /\ [Next]_vars => NodeInv'
  BY NodeStep
<1> QED
  BY <1>1, NodeInit, Promised, PTL DEF Safety

\* Under the same condition: a state estimated on one replay never meets a frame of another,
\* however far the worker is behind (workerLoop and handleFrame).
THEOREM EstimatorOfOneReplay ==
  ASSUME Settled
  PROVE  Safety => []EstimatorApart
<1>1. NodeInv /\ [Next]_vars => NodeInv'
  BY NodeStep
<1> QED
  BY <1>1, NodeInit, Promised, PTL DEF Safety

\* Whenever replays are started over: within an epoch neither topic's stamps go back, which is
\* what lets the queue's buffers stay sorted (acceptStamp, and the epoch imageCallback looks at
\* again before it pushes).
THEOREM FedInOrder == Safety => QueueFedInOrder
<1>1. Init => FedInv
  BY FedInit
<1>2. FedInv /\ [Next]_vars => FedInv'
  BY FedStep
<1>3. FedInv /\ [Next]_vars
        => [timeline' = timeline => \A s \in Streams : pushed'[s] >= pushed[s]]_vars
  BY FedStep
<1> QED
  BY <1>1, <1>2, <1>3, PTL DEF Safety, QueueFedInOrder

\* When replays are started over only once both topics are well under way: every variable stays
\* in its range; the queue has had no more epochs than there were replays, and state_mutex_ is
\* held across a step by imuCallback alone.
THEOREM TypeCorrect ==
  ASSUME Settled
  PROVE  Safety => []TypeOK
<1>1. SettledInv => TypeOK
  BY NodeTypes DEF SettledInv
<1> QED
  BY <1>1, SettledAlways, PTL

\* Under the same condition: the gate lets in every message of the replay being received that
\* was not overtaken, on both topics, the one that is still to join included (acceptStamp).
THEOREM NothingThrownAway ==
  ASSUME Settled
  PROVE  Safety => []NeitherStreamLossy
<1>1. SettledInv => NeitherStreamLossy
  BY NothingLost DEF SettledInv
<1> QED
  BY <1>1, SettledAlways, PTL

\* Under the same condition: however far the estimator is behind, a pose is published only of the
\* replay being received, and the poses never go back to an earlier replay or in time
\* (handleFrame's look at the epoch).
THEOREM PosesNeverGoBack ==
  ASSUME Settled
  PROVE  Safety => PosesInOrder
<1>1. Safety => [][PoseStep]_vars
  BY SettledAlways
<1> QED
  BY <1>1 DEF PosesInOrder, PoseStep

\* Under the same condition: all the callbacks and the worker do to measurements_ are operations
\* of the stream that MeasureQueue is shown to implement, with arguments of its types; so what
\* that stream promises holds of the queue the node is given (GlassVioNode's use of
\* MeasureQueue).
THEOREM QueueIsAStream ==
  ASSUME Settled
  PROVE  Safety => Queue!Spec
<1>1. Init => Queue!Init
  BY DEF Init
<1>2. SettledInv /\ [Next]_vars => [Queue!Next]_(Queue!vars)
  BY QueueStep DEF SettledInv
<1> QED
  BY <1>1, <1>2, SettledAlways, PTL DEF Safety, Queue!Spec

===============================================================================
