---------------------------- MODULE MCBarycenter ----------------------------
(* Small instances of Barycenter, with diffbins made by its constructor from *)
(* drifts that never turn round.                                           *)
EXTENDS Barycenter, FiniteSets
B == INSTANCE BaryBins

Step == 3
Nums == {0, 1, 2, 3, 5, 6, 8, 11}

\* After any of the points the drift grows by five quarters of a sample, always
\* in the same direction.
Gain == 5
Drifts(len, dir) ==
  LET points == 0..(B!NumPoints(len, Step) - 1) IN
  {[i \in points |-> dir * Cardinality({j \in gain : j < i}) * Gain] : gain \in SUBSET points}

MCCases ==
  UNION {{[num |-> n, diffs |-> B!Diffbins(dr, n, Step),
           slots |-> B!Slots(dr, n, Step)] : dr \in Drifts(n, dir)} :
         n \in Nums, dir \in {1, -1}}
=============================================================================
