------------------------------ MODULE BaryBins ------------------------------
(***************************************************************************)
(* Barycenter's constructor: where bins are to be added or removed so that  *)
(* the samples of a file come at equal steps of barycentric time.          *)
(*                                                                         *)
(* drift[i] is the time the barycentre has gained on the telescope i steps  *)
(* of 20 seconds after the start, in units of 1/Unit of a sample (the code  *)
(* has doubles), and step the number of samples in 20 seconds.  A quotient  *)
(* p/q is rounded as the code rounds doubles.                              *)
(***************************************************************************)
EXTENDS Integers, Sequences

Unit == 4
Abs(x) == IF x < 0 THEN -x ELSE x
Sign(x) == IF x > 0 THEN 1 ELSE -1

\* NEAREST_LONG of p/q: halves are rounded away from zero.
Nearest(p, q) ==
  LET n == Abs(p) IN
  (IF p < 0 THEN -1 ELSE 1) * (IF q < 0 THEN -1 ELSE 1)
    * ((2 * n + Abs(q)) \div (2 * Abs(q)))

\* Barycentric points: 10% more than the file is long, and some to spare.
NumPoints(num, step) == (11 * num + 65 * step) \div (10 * step)

\* The drifts at which point i crosses into another bin, after bin old:
\* half-way between bins, one after the other, as long as they are smaller
\* than the drift at i.
Crossing(old, cur, j) == old * Unit + Sign(cur) * (Unit \div 2 + j * Unit)
NumCrossings(old, cur, x) ==
  LET past == {j \in 0..(Abs(old) + Abs(cur) + 1) : Abs(Crossing(old, cur, j)) >= Abs(x)}
  IN  CHOOSE j \in past : \A k \in past : j <= k

\* The sample at which the drift is x, between points i - 1 and i; negative
\* if the bin there is to be removed.
SampleOf(drift, step, i, cur, x) ==
  LET slope == drift[i] - drift[i - 1] IN
  Nearest(Sign(cur) * step * ((i - 1) * slope + (x - drift[i - 1])), slope)

\* The samples found between points i - 1 and i.
Between(drift, step, i) ==
  LET old == Nearest(drift[i - 1], Unit)
      cur == Nearest(drift[i], Unit)
  IN  IF cur = old THEN << >>
      ELSE [j \in 1..NumCrossings(old, cur, drift[i]) |->
              SampleOf(drift, step, i, cur, Crossing(old, cur, j - 1))]

\* The loop over the points.
Found(drift, step, n) ==
  LET upTo[i \in 0..(n - 1)] ==
        IF i = 0 THEN << >> ELSE upTo[i - 1] \o Between(drift, step, i)
  IN  upTo[n - 1]

\* mDiffbins, ended by the number of samples, and the room made for it.
Diffbins(drift, num, step) ==
  Append(Found(drift, step, NumPoints(num, step)), num)
Slots_NoMarker(drift, num, step) == \* a slip: no room for the marker
  Abs(Nearest(drift[NumPoints(num, step) - 1], Unit))
Slots(drift, num, step) ==
  Abs(Nearest(drift[NumPoints(num, step) - 1], Unit)) + 1
=============================================================================
