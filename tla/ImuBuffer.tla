------------------------------- MODULE ImuBuffer -------------------------------
(***************************************************************************)
(* ImuBuffer (include/glassvio/dataset.hpp): the samples between two frames    *)
(* and the time each is held for.  samples is a sequence of records: the       *)
(* stamp t, a natural number, and whether the readings are finite.             *)
(***************************************************************************)
EXTENDS Integers, Sequences, SequencesExt

CONSTANT MaxGap     \* kDefaultMaxGap

ASSUME GapAssumption == MaxGap \in Nat \ {0}

Later(a, b)   == IF a < b THEN b ELSE a
Earlier(a, b) == IF a < b THEN a ELSE b

\* add
Added(samples, s) ==
  IF samples = <<>> \/ s.t > Last(samples).t THEN Append(samples, s) ELSE samples

\* The buffer when every sample of a stream has been added.
Buffered(stream) ==
  LET after[n \in 0 .. Len(stream)] == IF n = 0 THEN <<>> ELSE Added(after[n - 1], stream[n])
  IN  after[Len(stream)]

\* Seeded fault: upper_bound without the step back to the sample that brackets t0.
VisitedAfter(samples, t0, t1) == {i \in DOMAIN samples : t0 < samples[i].t /\ samples[i].t < t1}

\* The samples the two loops visit: from the last at or before t0 to the last before t1.
Visited(samples, t0, t1) ==
  {i \in DOMAIN samples :
     /\ samples[i].t < t1
     /\ \A j \in DOMAIN samples : samples[j].t <= t0 => j <= i}

Bracketed(samples, t0, t1) ==
  /\ Len(samples) >= 2
  /\ samples[1].t <= t0 /\ t1 <= samples[Len(samples)].t

\* continuous
Continuous(samples, t0, t1) ==
  /\ t0 < t1
  /\ Bracketed(samples, t0, t1)
  /\ \A i \in Visited(samples, t0, t1) :
       samples[i + 1].t - samples[i].t <= MaxGap /\ samples[i].finite

\* The instants that sample i is held for; its dt is their number.
Portion(samples, t0, t1, i) ==
  Later(t0, samples[i].t) .. Earlier(t1, samples[i + 1].t) - 1

\* preintegrate: the instants integrated with each sample, of which there are none when it fails.
Preintegrated(samples, t0, t1) ==
  [i \in IF Continuous(samples, t0, t1) THEN Visited(samples, t0, t1) ELSE {} |->
     Portion(samples, t0, t1, i)]

-------------------------------------------------------------------------------
(***************************************************************************)
(* What it should be.                                                       *)
(***************************************************************************)
\* The readings in force at an instant are those of the latest sample by then ...
InForce(samples, u) == {i \in DOMAIN samples :
  samples[i].t <= u /\ \A j \in DOMAIN samples : samples[j].t <= u => samples[j].t <= samples[i].t}

\* ... and they are good if they are finite and not held over a hole.
Good(samples, i) ==
  /\ samples[i].finite
  /\ \E j \in DOMAIN samples : samples[i].t < samples[j].t /\ samples[j].t - samples[i].t <= MaxGap

Measured(samples, t0, t1) ==
  \A u \in t0 .. t1 - 1 : \E i \in InForce(samples, u) : Good(samples, i)

\* Exactly the time from t0 to t1 is integrated, each instant once and with the readings in
\* force then; and the interval is refused only if it is empty or at some instant of it there
\* are none that are good.
Exact(samples, t0, t1, pre) ==
  IF t0 < t1 /\ Measured(samples, t0, t1)
  THEN /\ UNION {{<<i, u>> : u \in pre[i]} : i \in DOMAIN pre} =
            {<<CHOOSE i \in InForce(samples, u) : TRUE, u>> : u \in t0 .. t1 - 1}
  ELSE DOMAIN pre = {}

===============================================================================
