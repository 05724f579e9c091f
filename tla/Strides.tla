-------------------------------- MODULE Strides --------------------------------
(***************************************************************************)
(* Every n-th frame of those that were posed: how VioInitializer::align        *)
(* (src/vio/vio_initializer.cpp) thins the frames it aligns, and                *)
(* VioEstimator those it makes keyframes.                                     *)
(***************************************************************************)
EXTENDS Integers, FiniteSets

\* Every n-th of a finite set of indices, in order.
Strided(posed, n) ==
  LET below(k) == Cardinality({j \in posed : j < k})
      kept     == {k \in posed : below(k) % n = 0}
  IN  [i \in 1 .. Cardinality(kept) |-> CHOOSE k \in kept : below(k) = (i - 1) * n]

===============================================================================
