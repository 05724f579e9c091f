---------------------------- MODULE MCVioInitializer ----------------------------
(***************************************************************************)
(* A small world for VioInitializer.                                         *)
(***************************************************************************)
EXTENDS VioInitializer

CONSTANTS
  FrameCounts,    \* how many frames run is called with
  LastSample      \* the samples are at 0, 2, 4, ... LastSample

Lifetimes(n) == {<<a, b>> \in (1 .. n) \X (1 .. n) : a < b}

\* Tracks live without a break and ids are given out in the order the tracks begin.
MCInputs == UNION {
  {[i \in 1 .. n |-> {id \in Ids : life[id][1] <= i /\ i <= life[id][2]}] :
     life \in {f \in [Ids -> Lifetimes(n)] :
                 \A a, b \in Ids : a < b => f[a][1] <= f[b][1]}} :
  n \in FrameCounts}

Readings == {2 * j : j \in 0 .. LastSample \div 2}

\* Every sample arrives twice, as the bracket of two groups, but for those lost.
Stream(lost, bad) ==
  SelectSeq([j \in 1 .. LastSample + 2 |->
               [t |-> 2 * ((j - 1) \div 2), finite |-> 2 * ((j - 1) \div 2) \notin bad]],
            LAMBDA s : s.t \notin lost)

\* A whole stream, one without its beginning, one with a sample lost, one with a bad one.
MCStreams ==
  {Stream({}, {}), Stream({0, 2}, {})}
    \cup {Stream({t}, {}) : t \in Readings} \cup {Stream({}, {t}) : t \in Readings}

===============================================================================
