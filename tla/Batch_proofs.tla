--------------------------- MODULE Batch_proofs ---------------------------
(***************************************************************************)
(* Theorems about Batch, for every number of outputs, channels, files and   *)
(* spectra and every schedule of the threads: the words written are the     *)
(* right ones, the outputs stay in step, and a regular end means that all   *)
(* was copied.                                                             *)
(***************************************************************************)
EXTENDS Batch, FiniteSetTheorems, TLAPS

\* What the code takes for granted of its input and does not check: four
\* interleaved streams make up the channels, and every file has a header.
\* Stale stands for no word of a file.
WellFormed ==
  /\ NumChannels % Stride = 0
  /\ \A l \in SizeArgs : \A i \in DOMAIN l : HeaderWords <= l[i]
  /\ Stale \notin Nat \X Nat \X Nat

-----------------------------------------------------------------------------
(* Arithmetic.                                                             *)

LEMMA DivBounds ==
  ASSUME NEW x \in Nat, NEW y \in Nat \ {0}
  PROVE  /\ x \div y \in Nat
         /\ y * (x \div y) <= x
         /\ x < y * (x \div y) + y
OBVIOUS

LEMMA ModDef ==
  ASSUME NEW x \in Nat, NEW y \in Nat \ {0}
  PROVE  x % y = x - y * (x \div y)
OBVIOUS

LEMMA MulMonotone ==
  ASSUME NEW x \in Nat, NEW y \in Nat, NEW z \in Nat, x <= y
  PROVE  x * z <= y * z /\ z * x <= z * y
OBVIOUS

LEMMA MulType ==
  ASSUME NEW x \in Nat, NEW y \in Nat
  PROVE  /\ x * y \in Nat /\ y * x = x * y
         /\ x * (y + 1) = x * y + x /\ (y + 1) * x = y * x + x
OBVIOUS

\* Two multiples of y with remainders below y are equal only if both are.
LEMMA SameQuotient ==
  ASSUME NEW y \in Nat \ {0}, NEW q \in Nat, NEW p \in Nat,
         NEW r \in 0..(y - 1), NEW t \in 0..(y - 1), y * q + r = y * p + t
  PROVE  q = p /\ r = t
<1>1. /\ y * q \in Nat /\ y * p \in Nat
      /\ y * (q + 1) = y * q + y /\ y * (p + 1) = y * p + y
  BY MulType
<1>2. ASSUME q < p PROVE FALSE
  <2>1. y * (q + 1) <= y * p
    BY <1>2, MulMonotone
  <2> QED
    BY <1>1, <2>1
<1>3. ASSUME p < q PROVE FALSE
  <2>1. y * (p + 1) <= y * q
    BY <1>3, MulMonotone
  <2> QED
    BY <1>1, <2>1
<1>4. q = p
  BY <1>2, <1>3
<1> QED
  BY <1>1, <1>4

\* Quotient and remainder of a number given by them.
LEMMA DivMod ==
  ASSUME NEW y \in Nat \ {0}, NEW q \in Nat, NEW r \in 0..(y - 1)
  PROVE  (y * q + r) \div y = q /\ (y * q + r) % y = r
<1> DEFINE x == y * q + r
           p == x \div y
           t == x % y
<1>1. x \in Nat
  BY MulType
<1>2. p \in Nat /\ y * p <= x /\ x < y * p + y /\ y * p \in Nat
  BY <1>1, DivBounds, MulType
<1>3. t = x - y * p
  BY <1>1, ModDef
<1>4. t \in 0..(y - 1) /\ y * q + r = y * p + t
  BY <1>1, <1>2, <1>3
<1> HIDE DEF p, t
<1>5. q = p /\ r = t
  BY <1>2, <1>4, SameQuotient
<1> QED
  BY <1>5 DEF p, t

\* A quotient lies between what its numerator lies between.
LEMMA DivBetween ==
  ASSUME NEW x \in Nat, NEW y \in Nat \ {0}, NEW q \in Nat,
         y * q <= x, x <= y * (q + 1)
  PROVE  x \div y \in Nat /\ q <= x \div y /\ x \div y <= q + 1
<1> DEFINE p == x \div y
<1>1. p \in Nat /\ y * p <= x /\ x < y * p + y
  BY DivBounds
<1> HIDE DEF p
<1>2. /\ y * p \in Nat /\ y * (p + 1) = y * p + y /\ y * q \in Nat
      /\ y * (q + 1) = y * q + y /\ y * (q + 1 + 1) = y * (q + 1) + y
  BY <1>1, MulType
<1>3. ASSUME p < q PROVE FALSE
  <2>1. y * (p + 1) <= y * q
    BY <1>1, <1>3, MulMonotone
  <2> QED
    BY <1>1, <1>2, <2>1
<1>4. ASSUME p > q + 1 PROVE FALSE
  <2>1. y * (q + 1 + 1) <= y * p
    BY <1>1, <1>4, MulMonotone
  <2> QED
    BY <1>1, <1>2, <2>1
<1>5. p \in Nat /\ q <= p /\ p <= q + 1
  BY <1>1, <1>3, <1>4
<1> QED
  BY <1>5 DEF p

-----------------------------------------------------------------------------
(* How many spectra come before a given one.                               *)

Earlier(W, q) == {r \in W : r[1] < q[1] \/ (r[1] = q[1] /\ r[2] < q[2])}
RankIn(W, q)  == Cardinality(Earlier(W, q))

LEMMA RankType ==
  ASSUME NEW W, IsFiniteSet(W), NEW q
  PROVE  IsFiniteSet(Earlier(W, q)) /\ RankIn(W, q) \in Nat
<1>1. Earlier(W, q) \in SUBSET W
  BY DEF Earlier
<1> QED
  BY <1>1, FS_Subset, FS_CardinalityType DEF RankIn

LEMMA RankFirst == ASSUME NEW W \in SUBSET (Nat \X Nat) PROVE RankIn(W, <<0, 0>>) = 0
<1>1. Earlier(W, <<0, 0>>) = {}
  BY DEF Earlier
<1> QED
  BY <1>1, FS_EmptySet DEF RankIn

\* The next spectrum of a file.
LEMMA RankNext ==
  ASSUME NEW W \in SUBSET (Nat \X Nat), IsFiniteSet(W), NEW a \in Nat,
         NEW b \in Nat, <<a, b>> \in W
  PROVE  RankIn(W, <<a, b + 1>>) = RankIn(W, <<a, b>>) + 1
<1> DEFINE E == Earlier(W, <<a, b>>)
<1>1. \A r \in W : r[1] \in Nat /\ r[2] \in Nat /\ r = <<r[1], r[2]>>
  OBVIOUS
<1>2. Earlier(W, <<a, b + 1>>) = E \cup {<<a, b>>}
  <2>1. \A r \in W : r[1] = a /\ r[2] < b + 1 <=> r[1] = a /\ (r[2] < b \/ r = <<a, b>>)
    BY <1>1
  <2>2. \A r \in W : r = <<a, b>> => r[1] = a
    OBVIOUS
  <2> QED
    BY <1>1, <2>1, <2>2 DEF Earlier
<1>3. <<a, b>> \notin E
  BY DEF Earlier
<1>4. IsFiniteSet(E)
  BY RankType
<1> QED
  BY <1>2, <1>3, <1>4, FS_AddElement DEF RankIn

\* The first spectrum of the next file.
LEMMA RankFile ==
  ASSUME NEW W \in SUBSET (Nat \X Nat), NEW a \in Nat, NEW b \in Nat,
         \A r \in W : r[1] = a => r[2] < b
  PROVE  RankIn(W, <<a + 1, 0>>) = RankIn(W, <<a, b>>)
<1>1. \A r \in W : r[1] \in Nat /\ r[2] \in Nat
  OBVIOUS
<1>2. Earlier(W, <<a + 1, 0>>) = Earlier(W, <<a, b>>)
  BY <1>1 DEF Earlier
<1> QED
  BY <1>2 DEF RankIn

\* Behind the last file.
LEMMA RankLast ==
  ASSUME NEW W \in SUBSET (Nat \X Nat), NEW a \in Nat, \A r \in W : r[1] < a
  PROVE  RankIn(W, <<a, 0>>) = Cardinality(W)
<1>1. Earlier(W, <<a, 0>>) = W
  BY DEF Earlier
<1> QED
  BY <1>1 DEF RankIn

-----------------------------------------------------------------------------
(* The slices of the buffers.                                              *)

Channels == 0..(NumChannels - 1)

LEMMA PartDef ==
  ASSUME WellFormed
  PROVE  Part \in Nat \ {0} /\ NumChannels = 4 * Part
BY BatchAssumption DEF WellFormed, Part, Stride

LEMMA InSlice ==
  ASSUME NEW f \in Fils, NEW c \in Channels
  PROVE  Off(f) \in Nat /\ Off(f) + c \in Words
<1>1. /\ NumFils \in Nat \ {0} /\ NumChannels \in Nat \ {0}
      /\ f \in Nat /\ f + 1 <= NumFils
  BY BatchAssumption DEF Fils
<1>2. /\ f * NumChannels \in Nat
      /\ (f + 1) * NumChannels = f * NumChannels + NumChannels
  BY <1>1, MulType
<1>3. (f + 1) * NumChannels <= NumFils * NumChannels
  BY <1>1, MulMonotone
<1>4. NumFils * NumChannels \in Nat
  BY <1>1, MulType
<1> QED
  BY <1>1, <1>2, <1>3, <1>4 DEF Off, Words, SpecSize, Channels

LEMMA Apart ==
  ASSUME NEW f \in Fils, NEW g \in Fils, NEW a \in Channels, NEW b \in Channels,
         Off(f) + a = Off(g) + b
  PROVE  f = g /\ a = b
<1>1. f \in Nat /\ g \in Nat /\ NumChannels \in Nat \ {0}
  BY BatchAssumption DEF Fils
<1>2. NumChannels * f + a = NumChannels * g + b
  BY <1>1, MulType DEF Off
<1> QED
  BY <1>1, <1>2, SameQuotient DEF Channels

\* The cell of the loop that fills channel c.
FlipOf(fl, c)  == IF fl THEN NumChannels - 1 - c ELSE c
CellOf(fl, c)  == <<FlipOf(fl, c) \div Part, FlipOf(fl, c) % Part>>
SourceIn(fl, f, c) == Off(f) + Stride * (FlipOf(fl, c) % Part) + (FlipOf(fl, c) \div Part)

LEMMA CellRight ==
  ASSUME WellFormed, flip \in BOOLEAN, NEW c \in Channels
  PROVE  /\ CellOf(flip, c) \in Cells /\ InIdx(CellOf(flip, c)) = c
         /\ Stride * CellOf(flip, c)[2] + CellOf(flip, c)[1] \in Channels
<1> DEFINE d == FlipOf(flip, c)
           q == d \div Part
           r == d % Part
<1>1. NumChannels \in Nat /\ Part \in Nat \ {0} /\ NumChannels = 4 * Part
  BY PartDef, BatchAssumption
<1>2. d \in Nat /\ d < NumChannels
  BY <1>1 DEF FlipOf, Channels
<1>3. q \in Nat /\ Part * q <= d /\ d < Part * q + Part /\ r = d - Part * q
  BY <1>1, <1>2, DivBounds, ModDef
<1>4. CellOf(flip, c) = <<q, r>> /\ FlipOf(flip, d) = c
  BY <1>1 DEF CellOf, FlipOf, Channels
<1> HIDE DEF d, q, r
<1>5. q <= 3
  <2>1. SUFFICES ASSUME 4 <= q PROVE FALSE
    BY <1>3
  <2>2. Part * 4 <= Part * q
    BY <1>1, <1>3, <2>1, MulMonotone
  <2>3. Part * q \in Nat
    BY <1>1, <1>3, MulType
  <2> QED
    BY <1>1, <1>2, <1>3, <2>2, <2>3
<1>6. Part * q \in Nat /\ q * Part = Part * q
  BY <1>1, <1>3, MulType
<1>7. r \in 0..(Part - 1) /\ q * Part + r = d
  BY <1>1, <1>2, <1>3, <1>6
<1>8. <<q, r>> \in Cells
  BY <1>3, <1>5, <1>7 DEF Cells, Stride
<1>9. InIdx(<<q, r>>) = c
  BY <1>4, <1>7 DEF InIdx, FlipOf
<1>10. 4 * r + q \in Channels
  BY <1>1, <1>3, <1>5, <1>7 DEF Channels
<1> QED
  BY <1>4, <1>8, <1>9, <1>10 DEF Stride

LEMMA CellUnique ==
  ASSUME WellFormed, flip \in BOOLEAN, NEW e \in Cells
  PROVE  InIdx(e) \in Channels /\ e = CellOf(flip, InIdx(e))
<1>1. NumChannels \in Nat /\ Part \in Nat \ {0} /\ NumChannels = 4 * Part
  BY PartDef, BatchAssumption
<1>2. e[1] \in Nat /\ e[1] <= 3 /\ e[2] \in 0..(Part - 1) /\ e = <<e[1], e[2]>>
  BY <1>1 DEF Cells, Stride
<1> DEFINE d == Part * e[1] + e[2]
<1>3. Part * e[1] \in Nat /\ e[1] * Part = Part * e[1] /\ Part * e[1] <= Part * 3
  BY <1>1, <1>2, MulType, MulMonotone
<1>4. d \in Nat /\ d < NumChannels
  BY <1>1, <1>2, <1>3
<1>5. d \div Part = e[1] /\ d % Part = e[2]
  BY <1>1, <1>2, DivMod
<1>6. InIdx(e) = FlipOf(flip, d)
  BY <1>3 DEF InIdx, FlipOf
<1> HIDE DEF d
<1>7. InIdx(e) \in Channels /\ FlipOf(flip, InIdx(e)) = d
  BY <1>1, <1>4, <1>6 DEF FlipOf, Channels
<1> QED
  BY <1>2, <1>5, <1>7 DEF CellOf

\* Converting fills the thread's slice from its own slice of the input and
\* leaves the other slices alone.
LEMMA Converted ==
  ASSUME WellFormed, flip \in BOOLEAN, NEW f \in Fils, Convert(f)
  PROVE  /\ \A c \in Channels :
              outBuf'[Off(f) + c] = inBuf[SourceIn(flip, f, c)]
         /\ \A g \in Fils \ {f} : \A c \in Channels :
              outBuf'[Off(g) + c] = outBuf[Off(g) + c]
<1>1. outBuf' = [w \in Words |->
       IF \E c \in Cells : w = Off(f) + InIdx(c)
       THEN LET c == CHOOSE d \in Cells : w = Off(f) + InIdx(d)
            IN  inBuf[Off(f) + Stride * c[2] + c[1]]
       ELSE outBuf[w]]
  BY DEF Convert
<1>2. ASSUME NEW c \in Channels
      PROVE  outBuf'[Off(f) + c] = inBuf[SourceIn(flip, f, c)]
  <2> DEFINE e == CHOOSE d \in Cells : Off(f) + c = Off(f) + InIdx(d)
  <2>1. CellOf(flip, c) \in Cells /\ Off(f) + c = Off(f) + InIdx(CellOf(flip, c))
    BY CellRight
  <2>2. e \in Cells /\ Off(f) + c = Off(f) + InIdx(e)
    BY <2>1
  <2> HIDE DEF e
  <2>3. InIdx(e) \in Channels /\ e = CellOf(flip, InIdx(e))
    BY <2>2, CellUnique
  <2>4. InIdx(e) = c
    BY <2>2, <2>3, Apart
  <2>5. Off(f) + c \in Words
    BY InSlice
  <2>6. outBuf'[Off(f) + c] = inBuf[Off(f) + Stride * e[2] + e[1]]
    BY <1>1, <2>1, <2>5 DEF e
  <2> QED
    BY <2>3, <2>4, <2>6 DEF CellOf, SourceIn
<1>3. ASSUME NEW g \in Fils \ {f}, NEW c \in Channels
      PROVE  outBuf'[Off(g) + c] = outBuf[Off(g) + c]
  <2>1. \A d \in Cells : Off(g) + c # Off(f) + InIdx(d)
    BY CellUnique, Apart
  <2>2. Off(g) + c \in Words
    BY InSlice
  <2> QED
    BY <1>1, <2>1, <2>2
<1> QED
  BY <1>2, <1>3

-----------------------------------------------------------------------------
(* The inductive invariant.                                                *)

Triples == Nat \X Nat \X Nat

\* The arguments and the directory.
Given ==
  /\ sizes \in Seq(0..(Wrap - 1))
  /\ \A i \in DOMAIN sizes : HeaderWords <= sizes[i]
  /\ ranges \in [Fils -> Int \X Int] /\ flip \in BOOLEAN
  /\ skip \in Nat /\ num \in Nat

Working == pc \in {"next", "read", "parallel"}

\* The channels of every output lie in the spectrum.
ChannelsFit ==
  Working \/ pc = "list" =>
    \A f \in Fils : /\ start[f] \in Nat /\ numChans[f] \in Nat \ {0}
                    /\ start[f] + numChans[f] <= NumChannels

\* The spectrum that is copied is a wanted one of the file it is in.
Position ==
  /\ k \in Nat /\ s \in Nat /\ numSpec \in Nat
  /\ pc \in {"construct", "list"} => k = 0
  /\ pc \in {"read", "parallel"} =>
       /\ k < Len(sizes) /\ skip <= k /\ (num > 0 => k < skip + num)
       /\ HeaderWords + numSpec * SpecSize = sizes[k + 1] /\ s <= numSpec
  /\ pc = "parallel" => s < numSpec

\* While the threads run, mInBuf holds that spectrum and a converted slice of
\* mOutBuf holds its channels.
Buffers ==
  /\ tpc \in [Fils -> {"convert", "write", "joined"}]
  /\ pc = "parallel" =>
       /\ \A w \in Words : inBuf[w] = <<k, s, w>>
       /\ \A f \in Fils : tpc[f] = "write" =>
            \A c \in Channels : outBuf[Off(f) + c] = <<k, s, SourceIn(flip, f, c)>>

\* Every output holds the spectra before that one, and the one itself if its
\* thread is through.
Place == <<k, IF pc = "next" THEN 0 ELSE s>>
Through(f) == IF pc = "parallel" /\ tpc[f] = "joined" THEN 1 ELSE 0
Lengths ==
  /\ pc \in {"construct", "list"} =>
       fil = [f \in Fils |-> <<>>] /\ durable = [f \in Fils |-> 0]
  /\ Working => \A f \in Fils :
       Len(fil[f]) = numChans[f] * (RankIn(Wanted, Place) + Through(f))
  /\ pc = "next" => \A f \in Fils : durable[f] = Len(fil[f])

\* Every word is the right one.
Right(W, fl, f, st, n, i, v) ==
  /\ v[3] = SourceIn(fl, f, st + ((i - 1) % n))
  /\ <<v[1], v[2]>> \in W /\ RankIn(W, <<v[1], v[2]>>) = (i - 1) \div n
Contents ==
  /\ fil \in [Fils -> Seq(Triples)]
  /\ \A f \in Fils : \A i \in DOMAIN fil[f] :
       Right(Wanted, flip, f, start[f], numChans[f], i, fil[f][i])

Inv == /\ Given /\ ChannelsFit /\ Position /\ Buffers /\ Lengths /\ Contents
       /\ (pc = "failed" => InStep) /\ CompleteWhenClosed

LEMMA WantedSame == UNCHANGED inputs => UNCHANGED Wanted /\ (Given => Given')
BY DEF inputs, Wanted, Given

LEMMA SpecSizeType == SpecSize \in Nat \ {0}
<1>1. NumFils \in Nat \ {0} /\ NumChannels \in Nat \ {0}
  BY BatchAssumption
<1>2. 1 * NumChannels <= NumFils * NumChannels
  BY <1>1, MulMonotone
<1>3. NumFils * NumChannels \in Nat /\ 1 * NumChannels = NumChannels
  BY <1>1, MulType
<1> QED
  BY <1>1, <1>2, <1>3 DEF SpecSize

LEMMA WantedFinite ==
  ASSUME Given
  PROVE  /\ Wanted \in SUBSET (Nat \X Nat) /\ IsFiniteSet(Wanted)
         /\ \A r \in Wanted : r[1] < Len(sizes)
<1> DEFINE P == (0..(Len(sizes) - 1)) \X (0..Wrap)
<1>1. Len(sizes) \in Nat /\ Wrap \in Nat
  BY BatchAssumption DEF Given
<1>2. Wanted \in SUBSET P
  BY DEF Wanted
<1>3. IsFiniteSet(P)
  <2>1. IsFiniteSet(0..(Len(sizes) - 1)) /\ IsFiniteSet(0..Wrap)
    BY <1>1, FS_Interval
  <2> QED
    BY <2>1, FS_Product
<1>4. IsFiniteSet(Wanted)
  BY <1>2, <1>3, FS_Subset
<1>5. P \in SUBSET (Nat \X Nat) /\ \A r \in P : r[1] < Len(sizes)
  BY <1>1
<1> QED
  BY <1>2, <1>4, <1>5

\* The wanted spectra of a file with m of them.
LEMMA WantedOf ==
  ASSUME Given, NEW a \in Nat, a < Len(sizes), NEW m \in Nat,
         HeaderWords + m * SpecSize = sizes[a + 1]
  PROVE  /\ \A r \in Wanted : r[1] = a => r[2] < m
         /\ skip <= a /\ (num > 0 => a < skip + num)
              => \A b \in Nat : b < m => <<a, b>> \in Wanted
<1> DEFINE S == SpecSize
<1>1. /\ S \in Nat \ {0} /\ HeaderWords \in Nat /\ Wrap \in Nat
      /\ a + 1 \in 1..Len(sizes) /\ sizes[a + 1] \in 0..(Wrap - 1)
  BY SpecSizeType, BatchAssumption DEF Given
<1>2. HeaderWords + m * S = sizes[a + 1]
  OBVIOUS
<1> HIDE DEF S
<1>3. ASSUME NEW b \in Nat
      PROVE  HeaderWords + (b + 1) * S <= sizes[a + 1] <=> b < m
  <2>1. m * S \in Nat /\ (b + 1) * S \in Nat /\ (m + 1) * S = m * S + S
    BY <1>1, MulType
  <2>2. CASE b < m
    <3>1. (b + 1) * S <= m * S
      BY <1>1, <2>2, MulMonotone
    <3> QED
      BY <1>1, <1>2, <2>1, <2>2, <3>1
  <2>3. CASE ~(b < m)
    <3>1. (m + 1) * S <= (b + 1) * S
      BY <1>1, <2>3, MulMonotone
    <3> QED
      BY <1>1, <1>2, <2>1, <2>3, <3>1
  <2> QED
    BY <2>2, <2>3
<1>4. ASSUME NEW r \in Wanted, r[1] = a PROVE r[2] < m
  <2>1. r[2] \in Nat /\ HeaderWords + (r[2] + 1) * S <= sizes[a + 1]
    BY <1>1, <1>4, SMTT(30) DEF Wanted, S
  <2> QED
    BY <1>3, <2>1
<1>5. ASSUME skip <= a, num > 0 => a < skip + num, NEW b \in Nat, b < m
      PROVE  <<a, b>> \in Wanted
  <2>1. b <= Wrap
    <3>1. m * 1 <= m * S /\ m * S \in Nat
      BY <1>1, MulMonotone, MulType
    <3> QED
      BY <1>1, <1>2, <1>5, <3>1
  <2>2. HeaderWords + (b + 1) * S <= sizes[a + 1]
    BY <1>3, <1>5
  <2>3. a \in 0..(Len(sizes) - 1) /\ b \in 0..Wrap
    BY <1>1, <2>1
  <2> QED
    BY <1>5, <2>2, <2>3 DEF Wanted, S
<1> QED
  BY <1>4, <1>5

-----------------------------------------------------------------------------
(* The invariant holds at the start and is preserved by the main thread.   *)

\* Outputs that hold at least q and at most q + 1 spectra are in step.
LEMMA DivsClose ==
  ASSUME NEW n, NEW fl, NEW q \in Nat,
         \A f \in Fils : n[f] > 0 =>
           /\ n[f] \in Nat \ {0} /\ Len(fl[f]) \in Nat
           /\ n[f] * q <= Len(fl[f]) /\ Len(fl[f]) <= n[f] * (q + 1)
  PROVE  \A f, g \in Fils : n[f] > 0 /\ n[g] > 0 =>
           Len(fl[f]) \div n[f] <= Len(fl[g]) \div n[g] + 1
<1> SUFFICES ASSUME NEW f \in Fils, NEW g \in Fils, n[f] > 0, n[g] > 0
             PROVE  Len(fl[f]) \div n[f] <= Len(fl[g]) \div n[g] + 1
  OBVIOUS
<1>1. Len(fl[f]) \div n[f] \in Nat /\ Len(fl[f]) \div n[f] <= q + 1
  BY DivBetween
<1>2. Len(fl[g]) \div n[g] \in Nat /\ q <= Len(fl[g]) \div n[g]
  BY DivBetween
<1> QED
  BY <1>1, <1>2

LEMMA RankNat ==
  ASSUME Given, NEW q PROVE RankIn(Wanted, q) \in Nat
BY WantedFinite, RankType

\* What the lengths say while the threads rest.
LEMMA LengthsAtRest ==
  ASSUME Inv, pc \in {"next", "read"}
  PROVE  \A f \in Fils :
           /\ numChans[f] \in Nat \ {0} /\ RankIn(Wanted, Place) \in Nat
           /\ Len(fil[f]) = numChans[f] * RankIn(Wanted, Place)
<1>1. /\ RankIn(Wanted, Place) \in Nat
      /\ \A f \in Fils : numChans[f] \in Nat \ {0} /\ Through(f) = 0
      /\ \A f \in Fils :
           Len(fil[f]) = numChans[f] * (RankIn(Wanted, Place) + Through(f))
  BY RankNat DEF Inv, ChannelsFit, Working, Through, Lengths
<1> QED
  BY <1>1

LEMMA InitInv == ASSUME WellFormed, Init PROVE Inv
<1>1. Given
  BY BatchAssumption DEF WellFormed, Init, Given
<1>2. pc = "construct"
  BY DEF Init
<1>3. ChannelsFit /\ Position /\ CompleteWhenClosed
  BY DEF Init, ChannelsFit, Working, Position, CompleteWhenClosed
<1>4. Buffers /\ Lengths
  BY DEF Init, Buffers, Lengths, Working
<1>5. Contents
  BY DEF Init, Contents
<1> QED
  BY <1>1, <1>2, <1>3, <1>4, <1>5 DEF Inv

\* A step that writes nothing keeps what was written.
LEMMA ContentsSame ==
  ASSUME Inv, UNCHANGED <<inputs, start, numChans, fil>> PROVE Contents'
<1>1. Wanted' = Wanted /\ flip' = flip
  BY WantedSame DEF inputs
<1> QED
  BY <1>1 DEF Inv, Contents

LEMMA ConstructInv == ASSUME WellFormed, Inv, Construct PROVE Inv'
<1>1. /\ pc = "construct" /\ pc' \in {"list", "failed"}
      /\ start' = [f \in Fils |-> StartOf(ranges[f])]
      /\ numChans' = [f \in Fils |-> NumOf(ranges[f])]
      /\ pc' = "list" => \A f \in Fils : ~(numChans'[f] <= 0)
      /\ UNCHANGED <<inputs, k, numSpec, s, inBuf, outBuf, tpc, fil, durable>>
      /\ fil = [f \in Fils |-> <<>>] /\ durable = [f \in Fils |-> 0]
  BY DEF Construct, Inv, Lengths
<1>2. Given' /\ Given
  BY <1>1, WantedSame DEF Inv
<1>3. \A f \in Fils : numChans'[f] \in Int /\
        (numChans'[f] > 0 => /\ start'[f] \in Nat /\ numChans'[f] \in Nat \ {0}
                             /\ start'[f] + numChans'[f] <= NumChannels)
  <2> SUFFICES ASSUME NEW f \in Fils
               PROVE  numChans'[f] \in Int /\
                 (numChans'[f] > 0 =>
                    /\ start'[f] \in Nat /\ numChans'[f] \in Nat \ {0}
                    /\ start'[f] + numChans'[f] <= NumChannels)
    OBVIOUS
  <2>1. ranges[f][1] \in Int /\ ranges[f][2] \in Int /\ NumChannels \in Nat \ {0}
    BY <1>2, BatchAssumption DEF Given
  <2>2. start'[f] = StartOf(ranges[f]) /\ numChans'[f] = NumOf(ranges[f])
    BY <1>1
  <2> QED
    BY <2>1, <2>2 DEF StartOf, NumOf, ValidRange
<1>4. ChannelsFit'
  <2>1. pc' = "list" => \A f \in Fils : numChans'[f] > 0
    BY <1>1, <1>3
  <2> QED
    BY <1>1, <1>3, <2>1 DEF ChannelsFit, Working
<1>5. Position' /\ Buffers' /\ Lengths' /\ CompleteWhenClosed'
  BY <1>1 DEF Inv, Position, Buffers, Lengths, Working, CompleteWhenClosed
<1>6. Contents'
  BY <1>1 DEF Inv, Contents
<1>7. InStep'
  <2>1. \A f \in Fils : numChans'[f] > 0 =>
           /\ numChans'[f] \in Nat \ {0} /\ Len(fil'[f]) \in Nat
           /\ numChans'[f] * 0 <= Len(fil'[f])
           /\ Len(fil'[f]) <= numChans'[f] * (0 + 1)
    BY <1>1, <1>3
  <2> QED
    BY <2>1, DivsClose DEF InStep
<1> QED
  BY <1>2, <1>4, <1>5, <1>6, <1>7 DEF Inv

LEMMA ListDirectoryInv == ASSUME WellFormed, Inv, ListDirectory PROVE Inv'
<1>1. /\ pc = "list" /\ pc' = IF sizes = <<>> THEN "closed" ELSE "next"
      /\ UNCHANGED <<inputs, start, numChans, k, numSpec, s, inBuf, outBuf,
                     tpc, fil, durable>>
      /\ fil = [f \in Fils |-> <<>>] /\ durable = [f \in Fils |-> 0] /\ k = 0
  BY DEF ListDirectory, Inv, Lengths, Position
<1>2. Given' /\ Given /\ Wanted' = Wanted
  BY <1>1, WantedSame DEF Inv
<1>3. ChannelsFit' /\ Position' /\ Buffers'
  BY <1>1 DEF Inv, ChannelsFit, Working, Position, Buffers
<1>4. \A f \in Fils : numChans[f] \in Nat \ {0} /\ Len(fil[f]) = 0
  BY <1>1 DEF Inv, ChannelsFit
<1>5. Lengths'
  <2>1. RankIn(Wanted, <<0, 0>>) = 0
    BY <1>2, WantedFinite, RankFirst
  <2>2. pc' = "next" => \A f \in Fils :
          Len(fil'[f]) = numChans'[f] * (RankIn(Wanted', Place') + Through(f)')
    <3> SUFFICES ASSUME pc' = "next", NEW f \in Fils
                 PROVE  Len(fil'[f])
                          = numChans'[f] * (RankIn(Wanted', Place') + Through(f)')
      OBVIOUS
    <3>1. Place' = <<0, 0>> /\ Through(f)' = 0
      BY <1>1 DEF Place, Through
    <3>2. RankIn(Wanted', Place') + Through(f)' = 0
      BY <1>2, <2>1, <3>1
    <3> QED
      BY <1>1, <1>4, <3>2
  <2>3. \A f \in Fils : durable'[f] = Len(fil'[f])
    BY <1>1, <1>4
  <2> QED
    BY <1>1, <2>2, <2>3 DEF Lengths, Working
<1>6. CompleteWhenClosed'
  <2> SUFFICES ASSUME sizes = <<>>, NEW f \in Fils
               PROVE  /\ Len(fil'[f]) = numChans'[f] * Cardinality(Wanted')
                      /\ durable'[f] = Len(fil'[f])
    BY <1>1 DEF CompleteWhenClosed
  <2>1. Wanted = {}
    BY DEF Wanted
  <2>2. Cardinality(Wanted') = 0
    BY <1>2, <2>1, FS_EmptySet
  <2> QED
    BY <1>1, <1>4, <2>2
<1>7. Contents' /\ pc' # "failed"
  BY <1>1, ContentsSame
<1> QED
  BY <1>2, <1>3, <1>5, <1>6, <1>7 DEF Inv

LEMMA SkipFileInv == ASSUME WellFormed, Inv, SkipFile PROVE Inv'
<1>1. /\ pc = "next" /\ pc' = "next" /\ k' = k + 1 /\ k < skip /\ k \in Nat
      /\ UNCHANGED <<inputs, start, numChans, numSpec, s, inBuf, outBuf, tpc,
                     fil, durable>>
  BY DEF SkipFile, Inv, Position
<1>2. Given' /\ Given /\ Wanted' = Wanted
  BY <1>1, WantedSame DEF Inv
<1>3. ChannelsFit' /\ Position' /\ Buffers' /\ CompleteWhenClosed'
  BY <1>1 DEF Inv, ChannelsFit, Working, Position, Buffers, CompleteWhenClosed
<1>4. RankIn(Wanted, <<k + 1, 0>>) = RankIn(Wanted, <<k, 0>>)
  <2>1. \A r \in Wanted : r[1] # k
    BY <1>1, <1>2 DEF Wanted, Given
  <2> QED
    BY <1>1, <1>2, <2>1, WantedFinite, RankFile
<1>5. Lengths'
  <2>1. Place = <<k, 0>> /\ Place' = <<k + 1, 0>>
    BY <1>1 DEF Place
  <2>2. \A f \in Fils : Through(f) = 0 /\ Through(f)' = 0
    BY <1>1 DEF Through
  <2> QED
    BY <1>1, <1>2, <1>4, <2>1, <2>2 DEF Inv, Lengths, Working
<1>6. Contents'
  BY <1>1, ContentsSame
<1> QED
  BY <1>1, <1>2, <1>3, <1>5, <1>6 DEF Inv

LEMMA CloseSigProcFilesInv ==
  ASSUME WellFormed, Inv, CloseSigProcFiles PROVE Inv'
<1>1. /\ pc = "next" /\ pc' = "closed" /\ k >= End /\ k \in Nat
      /\ UNCHANGED <<inputs, start, numChans, k, numSpec, s, inBuf, outBuf,
                     tpc, fil, durable>>
  BY DEF CloseSigProcFiles, Inv, Position
<1>2. Given' /\ Given /\ Wanted' = Wanted
  BY <1>1, WantedSame DEF Inv
<1>3. ChannelsFit' /\ Position' /\ Buffers' /\ Lengths'
  BY <1>1 DEF Inv, ChannelsFit, Working, Position, Buffers, Lengths
<1>4. RankIn(Wanted, <<k, 0>>) = Cardinality(Wanted)
  <2>1. \A r \in Wanted : r[1] < k
    <3> SUFFICES ASSUME NEW r \in Wanted PROVE r[1] < k
      OBVIOUS
    <3>1. r[1] \in Nat /\ r[1] < Len(sizes) /\ (num > 0 => r[1] < skip + num)
      BY <1>2, WantedFinite DEF Wanted
    <3>2. Len(sizes) \in Nat /\ skip \in Nat /\ num \in Nat
      BY <1>2 DEF Given
    <3>3. r[1] < End /\ End \in Nat
      BY <3>1, <3>2 DEF End, LesserOf
    <3> QED
      BY <1>1, <3>1, <3>3
  <2> QED
    BY <1>1, <1>2, <2>1, WantedFinite, RankLast
<1>5. CompleteWhenClosed'
  <2>1. Place = <<k, 0>>
    BY <1>1 DEF Place
  <2>2. \A f \in Fils : Len(fil[f]) = numChans[f] * Cardinality(Wanted)
    BY <1>1, <1>4, <2>1, LengthsAtRest
  <2>3. \A f \in Fils : durable[f] = Len(fil[f])
    BY <1>1 DEF Inv, Lengths
  <2> QED
    BY <1>1, <1>2, <2>2, <2>3 DEF CompleteWhenClosed
<1>6. Contents'
  BY <1>1, ContentsSame
<1> QED
  BY <1>1, <1>2, <1>3, <1>5, <1>6 DEF Inv

\* The size check of a file with a header means what it says.
LEMMA SizeCheck ==
  ASSUME NEW sz \in 0..(Wrap - 1), HeaderWords <= sz
  PROVE  /\ SpectraOf(sz) \in Nat
         /\ WholeSpectra(sz) => HeaderWords + SpectraOf(sz) * SpecSize = sz
<1>1. HeaderWords \in Nat /\ Wrap \in Nat \ {0} /\ SpecSize \in Nat \ {0}
  BY BatchAssumption, SpecSizeType
<1>2. sz - HeaderWords \in 0..(Wrap - 1)
  BY <1>1
<1>3. DataWords(sz) = sz - HeaderWords
  <2> DEFINE x == sz - HeaderWords
  <2>1. x \in 0..(Wrap - 1)
    BY <1>2
  <2> HIDE DEF x
  <2>2. x % Wrap = x
    BY <1>1, <2>1
  <2> QED
    BY <2>2 DEF DataWords, x
<1>4. SpectraOf(sz) \in Nat
  BY <1>1, <1>2, <1>3, DivBounds DEF SpectraOf
<1>5. SpectraOf(sz) * SpecSize \in Nat
  BY <1>1, <1>4, MulType
<1> QED
  BY <1>1, <1>3, <1>4, <1>5 DEF WholeSpectra

LEMMA Element ==
  ASSUME NEW S, NEW q \in Seq(S), NEW i \in DOMAIN q PROVE q[i] \in S
OBVIOUS

LEMMA OpenFileInv == ASSUME WellFormed, Inv, OpenFile PROVE Inv'
<1>1. /\ pc = "next" /\ k < End /\ k >= skip /\ k \in Nat
      /\ numSpec' = SpectraOf(sizes[k + 1]) /\ s' = 0
      /\ pc' = IF WholeSpectra(sizes[k + 1]) THEN "read" ELSE "failed"
      /\ UNCHANGED <<inputs, start, numChans, k, inBuf, outBuf, tpc, fil, durable>>
  BY DEF OpenFile, Inv, Position
<1>2. Given' /\ Given /\ Wanted' = Wanted
  BY <1>1, WantedSame DEF Inv
<1>3. k < Len(sizes) /\ skip <= k /\ (num > 0 => k < skip + num)
  BY <1>1, <1>2 DEF Given, End, LesserOf
<1>4. /\ numSpec' \in Nat
      /\ pc' = "read" => HeaderWords + numSpec' * SpecSize = sizes[k + 1]
  <2>1. k + 1 \in DOMAIN sizes
    BY <1>1, <1>2, <1>3 DEF Given
  <2>2. HeaderWords <= sizes[k + 1]
    BY <1>2, <2>1 DEF Given
  <2>3. sizes \in Seq(0..(Wrap - 1))
    BY <1>2 DEF Given
  <2>4. sizes[k + 1] \in 0..(Wrap - 1)
    BY <2>1, <2>3, Element
  <2> QED
    BY <1>1, <2>2, <2>4, SizeCheck
<1>5. ChannelsFit' /\ Buffers' /\ CompleteWhenClosed'
  BY <1>1 DEF Inv, ChannelsFit, Working, Buffers, CompleteWhenClosed
<1>6. Position'
  <2>1. inputs' = inputs /\ sizes' = sizes /\ skip' = skip /\ num' = num
    BY <1>1 DEF inputs
  <2> QED
    BY <1>1, <1>3, <1>4, <2>1 DEF Position
<1>7. Lengths'
  <2>1. pc' = "read" => Place = <<k, 0>> /\ Place' = <<k, 0>>
    BY <1>1 DEF Place
  <2>2. \A f \in Fils : Through(f) = 0 /\ Through(f)' = 0
    BY <1>1 DEF Through
  <2> QED
    BY <1>1, <1>2, <2>1, <2>2 DEF Inv, Lengths, Working
<1>8. InStep'
  <2> DEFINE q == RankIn(Wanted, Place)
  <2>1. q \in Nat
    BY <1>2, RankNat
  <2>2. \A f \in Fils : numChans[f] \in Nat \ {0} /\ Len(fil[f]) = numChans[f] * q
    BY <1>1, LengthsAtRest
  <2> HIDE DEF q
  <2>3. \A f \in Fils : /\ numChans'[f] \in Nat \ {0} /\ Len(fil'[f]) \in Nat
                        /\ numChans'[f] * q <= Len(fil'[f])
                        /\ Len(fil'[f]) <= numChans'[f] * (q + 1)
    BY <1>1, <2>1, <2>2, MulType
  <2> QED
    BY <2>1, <2>3, DivsClose DEF InStep
<1>9. Contents'
  BY <1>1, ContentsSame
<1> QED
  BY <1>2, <1>5, <1>6, <1>7, <1>8, <1>9 DEF Inv

LEMMA ReadInv == ASSUME WellFormed, Inv, Read PROVE Inv'
<1>1. /\ pc = "read" /\ s < numSpec /\ pc' = "parallel"
      /\ inBuf' = [w \in Words |-> IF Present(s, w) THEN <<k, s, w>> ELSE inBuf[w]]
      /\ tpc' = [f \in Fils |-> "convert"]
      /\ UNCHANGED <<inputs, start, numChans, k, numSpec, s, outBuf, fil, durable>>
  BY DEF Read
<1>2. Given' /\ Given /\ Wanted' = Wanted /\ UNCHANGED <<sizes, skip, num, flip>>
  BY <1>1, WantedSame DEF Inv, inputs
<1>3. \A w \in Words : Present(s, w)
  <2> SUFFICES ASSUME NEW w \in Words PROVE Present(s, w)
    OBVIOUS
  <2>1. /\ s \in Nat /\ numSpec \in Nat /\ SpecSize \in Nat \ {0}
        /\ HeaderWords + numSpec * SpecSize = sizes[k + 1]
        /\ w \in 0..(SpecSize - 1) /\ HeaderWords \in Nat
    BY <1>1, SpecSizeType, BatchAssumption DEF Inv, Position, Words
  <2>2. (s + 1) * SpecSize <= numSpec * SpecSize
    BY <1>1, <2>1, MulMonotone
  <2>3. /\ (s + 1) * SpecSize = s * SpecSize + SpecSize
        /\ s * SpecSize \in Nat /\ numSpec * SpecSize \in Nat
    BY <2>1, MulType
  <2> QED
    BY <2>1, <2>2, <2>3 DEF Present
<1>4. ChannelsFit' /\ Position' /\ CompleteWhenClosed'
  BY <1>1, <1>2 DEF Inv, ChannelsFit, Working, Position, CompleteWhenClosed
<1>5. Buffers'
  BY <1>1, <1>3 DEF Buffers
<1>6. Lengths'
  <2>1. Place' = Place /\ \A f \in Fils : Through(f) = 0 /\ Through(f)' = 0
    BY <1>1 DEF Place, Through
  <2> QED
    BY <1>1, <1>2, <2>1 DEF Inv, Lengths, Working
<1>7. Contents'
  BY <1>1, ContentsSame
<1> QED
  BY <1>1, <1>2, <1>4, <1>5, <1>6, <1>7 DEF Inv

LEMMA JoinInv == ASSUME WellFormed, Inv, Join PROVE Inv'
<1>1. /\ pc = "parallel" /\ \A f \in Fils : tpc[f] = "joined"
      /\ s' = s + 1 /\ pc' = "read"
      /\ UNCHANGED <<inputs, start, numChans, k, numSpec, inBuf, outBuf, tpc,
                     fil, durable>>
  BY DEF Join
<1>2. Given' /\ Given /\ Wanted' = Wanted /\ UNCHANGED <<sizes, skip, num>>
  BY <1>1, WantedSame DEF Inv, inputs
<1>3. ChannelsFit' /\ Position' /\ Buffers' /\ CompleteWhenClosed'
  BY <1>1, <1>2 DEF Inv, ChannelsFit, Working, Position, Buffers,
     CompleteWhenClosed
<1>4. RankIn(Wanted, <<k, s + 1>>) = RankIn(Wanted, <<k, s>>) + 1
  <2>1. k \in Nat /\ s \in Nat /\ <<k, s>> \in Wanted
    BY <1>1, <1>2, WantedOf DEF Inv, Position
  <2> QED
    BY <1>2, <2>1, WantedFinite, RankNext
<1>5. Lengths'
  <2>1. Place = <<k, s>> /\ Place' = <<k, s + 1>>
    BY <1>1 DEF Place
  <2>2. \A f \in Fils : Through(f) = 1 /\ Through(f)' = 0
    BY <1>1 DEF Through
  <2>3. RankIn(Wanted, <<k, s>>) \in Nat
    BY <1>2, RankNat
  <2> QED
    BY <1>1, <1>2, <1>4, <2>1, <2>2, <2>3 DEF Inv, Lengths, Working
<1>6. Contents'
  BY <1>1, ContentsSame
<1> QED
  BY <1>1, <1>2, <1>3, <1>5, <1>6 DEF Inv

LEMMA HardFlushInv == ASSUME WellFormed, Inv, HardFlush PROVE Inv'
<1>1. /\ pc = "read" /\ s >= numSpec /\ k' = k + 1 /\ pc' = "next"
      /\ durable' = [f \in Fils |-> Len(fil[f])]
      /\ UNCHANGED <<inputs, start, numChans, numSpec, s, inBuf, outBuf, tpc, fil>>
  BY DEF HardFlush
<1>2. Given' /\ Given /\ Wanted' = Wanted
  BY <1>1, WantedSame DEF Inv
<1>3. ChannelsFit' /\ Position' /\ Buffers' /\ CompleteWhenClosed'
  BY <1>1 DEF Inv, ChannelsFit, Working, Position, Buffers, CompleteWhenClosed
<1>4. RankIn(Wanted, <<k + 1, 0>>) = RankIn(Wanted, <<k, s>>)
  <2>1. /\ k \in Nat /\ k < Len(sizes) /\ numSpec \in Nat /\ s \in Nat
        /\ HeaderWords + numSpec * SpecSize = sizes[k + 1] /\ s = numSpec
    BY <1>1 DEF Inv, Position
  <2>2. \A r \in Wanted : r[1] = k => r[2] < s
    BY <1>2, <2>1, WantedOf
  <2> QED
    BY <1>2, <2>1, <2>2, WantedFinite, RankFile
<1>5. Lengths'
  <2>1. Place = <<k, s>> /\ Place' = <<k + 1, 0>>
    BY <1>1 DEF Place
  <2>2. \A f \in Fils : Through(f) = 0 /\ Through(f)' = 0
    BY <1>1 DEF Through
  <2> QED
    BY <1>1, <1>2, <1>4, <2>1, <2>2 DEF Inv, Lengths, Working
<1>6. Contents'
  BY <1>1, ContentsSame
<1> QED
  BY <1>1, <1>2, <1>3, <1>5, <1>6 DEF Inv

-----------------------------------------------------------------------------
(* The threads preserve it.                                                *)

LEMMA ConvertInv ==
  ASSUME WellFormed, Inv, NEW f \in Fils, Convert(f) PROVE Inv'
<1>1. /\ pc = "parallel" /\ tpc[f] = "convert"
      /\ tpc' = [tpc EXCEPT ![f] = "write"]
      /\ UNCHANGED <<inputs, start, numChans, pc, k, numSpec, s, inBuf, fil, durable>>
  BY DEF Convert
<1>2. /\ Given' /\ Given /\ Wanted' = Wanted /\ UNCHANGED <<sizes, skip, num, flip>>
      /\ tpc \in [Fils -> {"convert", "write", "joined"}] /\ flip \in BOOLEAN
  BY <1>1, WantedSame DEF Inv, inputs, Buffers, Given
<1>3. ChannelsFit' /\ Position' /\ CompleteWhenClosed'
  BY <1>1, <1>2 DEF Inv, ChannelsFit, Working, Position, CompleteWhenClosed
<1>4. Buffers'
  <2>1. \A c \in Channels : outBuf'[Off(f) + c] = <<k, s, SourceIn(flip, f, c)>>
    <3> SUFFICES ASSUME NEW c \in Channels
                 PROVE  outBuf'[Off(f) + c] = <<k, s, SourceIn(flip, f, c)>>
      OBVIOUS
    <3>1. outBuf'[Off(f) + c] = inBuf[SourceIn(flip, f, c)]
      BY <1>2, Converted
    <3> DEFINE e == CellOf(flip, c)
    <3>2. /\ Stride * e[2] + e[1] \in Channels /\ Stride * e[2] \in Int
          /\ e[1] \in Int /\ Off(f) \in Nat
          /\ SourceIn(flip, f, c) = Off(f) + Stride * e[2] + e[1]
      <4>1. e \in Cells /\ Part \in Nat
        BY <1>2, CellRight, PartDef
      <4>2. e[1] \in Nat /\ e[2] \in Nat /\ 4 * e[2] \in Nat
        BY <4>1 DEF Cells, Stride
      <4>3. Stride * e[2] + e[1] \in Channels
        BY <1>2, CellRight
      <4>4. Off(f) \in Nat
        BY InSlice
      <4>5. SourceIn(flip, f, c) = Off(f) + Stride * e[2] + e[1]
        BY DEF SourceIn, CellOf
      <4>6. Stride * e[2] \in Int
        BY <4>2 DEF Stride
      <4> HIDE DEF e
      <4> QED
        BY <4>2, <4>3, <4>4, <4>5, <4>6
    <3>3. SourceIn(flip, f, c) = Off(f) + (Stride * e[2] + e[1])
      BY <3>2
    <3>4. SourceIn(flip, f, c) \in Words
      BY <3>2, <3>3, InSlice
    <3> QED
      BY <1>1, <3>1, <3>4 DEF Inv, Buffers
  <2>2. \A g \in Fils \ {f} : tpc'[g] = "write" =>
          \A c \in Channels : outBuf'[Off(g) + c] = <<k, s, SourceIn(flip, g, c)>>
    BY <1>1, <1>2, Converted DEF Inv, Buffers
  <2>3. tpc' \in [Fils -> {"convert", "write", "joined"}]
    BY <1>1, <1>2
  <2>4. \A w \in Words : inBuf'[w] = <<k', s', w>>
    BY <1>1 DEF Inv, Buffers
  <2>5. \A g \in Fils : tpc'[g] = "write" =>
          \A c \in Channels : outBuf'[Off(g) + c] = <<k', s', SourceIn(flip', g, c)>>
    BY <1>1, <1>2, <2>1, <2>2
  <2> QED
    BY <1>1, <2>3, <2>4, <2>5 DEF Buffers
<1>5. Lengths'
  <2>1. Place' = Place /\ \A g \in Fils : Through(g)' = Through(g)
    BY <1>1, <1>2 DEF Place, Through
  <2> QED
    BY <1>1, <1>2, <2>1 DEF Inv, Lengths, Working
<1>6. Contents'
  BY <1>1, ContentsSame
<1> QED
  BY <1>1, <1>2, <1>3, <1>4, <1>5, <1>6 DEF Inv

LEMMA ConcatElements ==
  ASSUME NEW S, NEW q \in Seq(S), NEW w \in Seq(S), NEW l \in Nat,
         NEW m \in Nat, Len(q) = l, Len(w) = m
  PROVE  /\ q \o w \in Seq(S) /\ Len(q \o w) = l + m
         /\ DOMAIN (q \o w) = 1..(l + m)
         /\ \A i \in 1..l : i \in DOMAIN q /\ (q \o w)[i] = q[i]
         /\ \A i \in (l + 1)..(l + m) : (q \o w)[i] = w[i - l]
<1>1. q \o w \in Seq(S) /\ Len(q \o w) = l + m
  OBVIOUS
<1>2. DOMAIN (q \o w) = 1..(l + m)
  BY <1>1
<1>3. \A i \in 1..l : i \in DOMAIN q /\ (q \o w)[i] = q[i]
  OBVIOUS
<1>4. \A i \in (l + 1)..(l + m) : (q \o w)[i] = w[i - l]
  OBVIOUS
<1> QED
  BY <1>1, <1>2, <1>3, <1>4

\* The words of an output, and those of the next spectrum.
RightWords(W, fl, f, st, n, q) ==
  \A i \in DOMAIN q : Right(W, fl, f, st, n, i, q[i])
NextWords(W, fl, f, st, N, m, w) ==
  \A j \in 1..m : /\ w[j][3] = SourceIn(fl, f, st + (j - 1))
                 /\ <<w[j][1], w[j][2]>> \in W
                 /\ RankIn(W, <<w[j][1], w[j][2]>>) = N

\* Appending to an output that holds N spectra some channels of the next.
LEMMA Appended ==
  ASSUME NEW W, NEW fl, NEW f, NEW st, NEW n \in Nat \ {0}, NEW N \in Nat,
         NEW q \in Seq(Triples), Len(q) = n * N,
         RightWords(W, fl, f, st, n, q),
         NEW m \in 0..n, NEW w \in Seq(Triples), Len(w) = m,
         NextWords(W, fl, f, st, N, m, w)
  PROVE  /\ q \o w \in Seq(Triples) /\ Len(q \o w) = n * N + m
         /\ RightWords(W, fl, f, st, n, q \o w)
<1>1. /\ q \o w \in Seq(Triples) /\ Len(q \o w) = n * N + m
      /\ DOMAIN (q \o w) = 1..(n * N + m) /\ n * N \in Nat
      /\ \A i \in 1..(n * N) : i \in DOMAIN q /\ (q \o w)[i] = q[i]
      /\ \A i \in (n * N + 1)..(n * N + m) : (q \o w)[i] = w[i - n * N]
  <2>1. n * N \in Nat
    BY MulType
  <2> DEFINE l == n * N
  <2>2. l \in Nat /\ Len(q) = l
    BY <2>1
  <2> HIDE DEF l
  <2>3. /\ q \o w \in Seq(Triples) /\ Len(q \o w) = l + m
        /\ DOMAIN (q \o w) = 1..(l + m)
        /\ \A i \in 1..l : i \in DOMAIN q /\ (q \o w)[i] = q[i]
        /\ \A i \in (l + 1)..(l + m) : (q \o w)[i] = w[i - l]
    <3>1. m \in Nat
      OBVIOUS
    <3> QED
      BY <2>2, <3>1, ConcatElements, SMTT(30)
  <2> QED
    BY <2>1, <2>3 DEF l
<1>2. ASSUME NEW i \in 1..(n * N)
      PROVE  Right(W, fl, f, st, n, i, (q \o w)[i])
  BY <1>1, <1>2 DEF RightWords
<1>3. ASSUME NEW i \in (n * N + 1)..(n * N + m)
      PROVE  Right(W, fl, f, st, n, i, (q \o w)[i])
  <2> DEFINE j == i - n * N
  <2>1. j \in 1..m /\ j - 1 \in 0..(n - 1) /\ i - 1 = n * N + (j - 1)
    BY <1>1, <1>3
  <2>2. (i - 1) \div n = N /\ (i - 1) % n = j - 1
    <3> DEFINE r == j - 1
    <3>1. r \in 0..(n - 1) /\ i - 1 = n * N + r
      BY <2>1
    <3> HIDE DEF r
    <3>2. (n * N + r) \div n = N /\ (n * N + r) % n = r
      BY <3>1, DivMod
    <3> QED
      BY <3>1, <3>2 DEF r
  <2>3. (q \o w)[i] = w[j]
    BY <1>1
  <2> HIDE DEF j
  <2> QED
    BY <2>1, <2>2, <2>3 DEF Right, NextWords
<1>4. 1..(n * N + m) = (1..(n * N)) \cup ((n * N + 1)..(n * N + m))
  BY <1>1
<1> QED
  BY <1>1, <1>2, <1>3, <1>4 DEF RightWords

\* What a thread writes of its converted slice.
LEMMA Written ==
  ASSUME WellFormed, Inv, pc = "parallel", NEW f \in Fils, tpc[f] = "write",
         NEW m \in 0..numChans[f],
         fil' = [fil EXCEPT ![f] = fil[f] \o OutWords(f, m)],
         UNCHANGED <<inputs, start, numChans>>
  PROVE  /\ Contents' /\ RankIn(Wanted, Place) \in Nat
         /\ Len(fil'[f]) = numChans[f] * RankIn(Wanted, Place) + m
         /\ \A g \in Fils \ {f} : fil'[g] = fil[g]
<1> DEFINE N == RankIn(Wanted, Place)
           w == OutWords(f, m)
<1>1. /\ Given /\ Wanted' = Wanted /\ flip' = flip /\ flip \in BOOLEAN
      /\ fil \in [Fils -> Seq(Triples)]
  BY WantedSame DEF Inv, Given, Contents, inputs
<1>2. /\ numChans[f] \in Nat \ {0} /\ start[f] \in Nat
      /\ start[f] + numChans[f] <= NumChannels /\ NumChannels \in Nat
  BY BatchAssumption DEF Inv, ChannelsFit, Working
<1>3. /\ Place = <<k, s>> /\ k \in Nat /\ s \in Nat /\ <<k, s>> \in Wanted
      /\ N \in Nat
  BY <1>1, WantedOf, RankNat DEF Inv, Position, Place
<1>4. Len(fil[f]) = numChans[f] * N
  <2>1. Through(f) = 0
    BY DEF Through
  <2>2. Len(fil[f]) = numChans[f] * (N + Through(f))
    BY DEF Inv, Lengths, Working
  <2> QED
    BY <1>3, <2>1, <2>2
<1>5. \A j \in 1..m : /\ w[j] = <<k, s, SourceIn(flip, f, start[f] + (j - 1))>>
                      /\ w[j] \in Triples
  <2> SUFFICES ASSUME NEW j \in 1..m
               PROVE  /\ w[j] = <<k, s, SourceIn(flip, f, start[f] + (j - 1))>>
                      /\ w[j] \in Triples
    OBVIOUS
  <2> DEFINE c == start[f] + (j - 1)
  <2>1. c \in Channels
    BY <1>2 DEF Channels
  <2>2. w[j] = outBuf[Off(f) + c]
    <3>1. w[j] = outBuf[Off(f) + start[f] + j - 1]
      BY DEF OutWords
    <3>2. Off(f) + start[f] + j - 1 = Off(f) + c
      BY <1>2, <2>1, InSlice
    <3> QED
      BY <3>1, <3>2
  <2> HIDE DEF c, w
  <2>3. w[j] = <<k, s, SourceIn(flip, f, c)>>
    BY <2>1, <2>2 DEF Inv, Buffers
  <2>4. SourceIn(flip, f, c) \in Nat
    <3> DEFINE e == CellOf(flip, c)
    <3>1. e \in Cells /\ Part \in Nat \ {0}
      BY <1>1, <2>1, CellRight, PartDef
    <3>2. e[1] \in Nat /\ e[2] \in Nat
      BY <3>1 DEF Cells, Stride
    <3>3. SourceIn(flip, f, c) = Off(f) + 4 * e[2] + e[1]
      BY DEF SourceIn, CellOf, Stride
    <3>4. Off(f) \in Nat
      BY <2>1, InSlice
    <3> HIDE DEF e
    <3> QED
      BY <3>2, <3>3, <3>4
  <2> QED
    BY <1>3, <2>3, <2>4 DEF Triples, c
<1>6. w \in Seq(Triples) /\ Len(w) = m
  <2>1. w = [j \in 1..m |-> w[j]]
    BY DEF OutWords
  <2> HIDE DEF w
  <2>2. m \in Nat
    BY <1>2
  <2>3. w \in [1..m -> Triples]
    BY <1>5, <2>1
  <2> QED
    BY <2>2, <2>3
<1>7. fil'[f] = fil[f] \o w /\ \A g \in Fils \ {f} : fil'[g] = fil[g]
  BY <1>1
<1> HIDE DEF N, w
<1>8. /\ fil[f] \o w \in Seq(Triples) /\ Len(fil[f] \o w) = numChans[f] * N + m
      /\ \A i \in DOMAIN (fil[f] \o w) :
           Right(Wanted, flip, f, start[f], numChans[f], i, (fil[f] \o w)[i])
  <2>1. \A i \in DOMAIN fil[f] :
          Right(Wanted, flip, f, start[f], numChans[f], i, fil[f][i])
    BY DEF Inv, Contents
  <2>2. \A j \in 1..m : /\ w[j][3] = SourceIn(flip, f, start[f] + (j - 1))
                        /\ <<w[j][1], w[j][2]>> \in Wanted
                        /\ RankIn(Wanted, <<w[j][1], w[j][2]>>) = N
    BY <1>3, <1>5, SMTT(30) DEF N
  <2>3. fil[f] \in Seq(Triples)
    BY <1>1
  <2> DEFINE n == numChans[f]
             st == start[f]
             q == fil[f]
  <2>4. n \in Nat \ {0} /\ N \in Nat /\ m \in 0..n /\ q \in Seq(Triples)
    BY <1>2, <1>3, <2>3
  <2>5. Len(q) = n * N /\ w \in Seq(Triples) /\ Len(w) = m
    BY <1>4, <1>6
  <2>6. RightWords(Wanted, flip, f, st, n, q)
    BY <2>1 DEF RightWords
  <2>7. NextWords(Wanted, flip, f, st, N, m, w)
    BY <2>2 DEF NextWords
  <2> HIDE DEF n, st, q
  <2>8. /\ q \o w \in Seq(Triples) /\ Len(q \o w) = n * N + m
        /\ RightWords(Wanted, flip, f, st, n, q \o w)
    BY <2>4, <2>5, <2>6, <2>7, Appended
  <2> QED
    BY <2>8 DEF n, st, q, RightWords
<1>9. Contents'
  <2>1. fil' \in [Fils -> Seq(Triples)]
    BY <1>1, <1>7, <1>8
  <2>2. ASSUME NEW g \in Fils, NEW i \in DOMAIN fil'[g]
        PROVE  Right(Wanted', flip', g, start'[g], numChans'[g], i, fil'[g][i])
    <3>1. CASE g = f
      BY <1>1, <1>7, <1>8, <2>2, <3>1
    <3>2. CASE g # f
      BY <1>1, <1>7, <2>2, <3>2 DEF Inv, Contents
    <3> QED
      BY <3>1, <3>2
  <2> QED
    BY <2>1, <2>2 DEF Contents
<1> QED
  BY <1>3, <1>7, <1>8, <1>9 DEF N

LEMMA WriteInv == ASSUME WellFormed, Inv, NEW f \in Fils, Write(f) PROVE Inv'
<1>1. /\ pc = "parallel" /\ tpc[f] = "write" /\ pc' = "parallel"
      /\ fil' = [fil EXCEPT ![f] = fil[f] \o OutWords(f, numChans[f])]
      /\ tpc' = [tpc EXCEPT ![f] = "joined"]
      /\ UNCHANGED <<inputs, start, numChans, pc, k, numSpec, s, inBuf, outBuf,
                     durable>>
  BY DEF Write
<1>2. /\ Given' /\ Given /\ Wanted' = Wanted /\ UNCHANGED <<sizes, skip, num, flip>>
      /\ tpc \in [Fils -> {"convert", "write", "joined"}]
      /\ numChans[f] \in Nat \ {0} /\ numChans[f] \in 0..numChans[f]
  BY <1>1, WantedSame DEF Inv, inputs, Buffers, ChannelsFit, Working
<1>3. ChannelsFit' /\ Position' /\ CompleteWhenClosed'
  BY <1>1, <1>2 DEF Inv, ChannelsFit, Working, Position, CompleteWhenClosed
<1>4. Buffers'
  BY <1>1, <1>2 DEF Inv, Buffers
<1>5. /\ Contents' /\ RankIn(Wanted, Place) \in Nat
      /\ Len(fil'[f]) = numChans[f] * RankIn(Wanted, Place) + numChans[f]
      /\ \A g \in Fils \ {f} : fil'[g] = fil[g]
  BY <1>1, <1>2, Written
<1>6. Lengths'
  <2>1. /\ Place' = Place /\ Through(f)' = 1
        /\ \A g \in Fils \ {f} : Through(g)' = Through(g)
    BY <1>1, <1>2 DEF Place, Through
  <2>2. Len(fil'[f]) = numChans[f] * (RankIn(Wanted, Place) + 1)
    BY <1>2, <1>5, MulType
  <2>3. \A g \in Fils :
          Len(fil'[g]) = numChans'[g] * (RankIn(Wanted', Place') + Through(g)')
    <3>1. Len(fil'[f]) = numChans'[f] * (RankIn(Wanted', Place') + Through(f)')
      BY <1>1, <1>2, <2>1, <2>2
    <3>2. ASSUME NEW g \in Fils \ {f}
          PROVE  Len(fil'[g]) = numChans'[g] * (RankIn(Wanted', Place') + Through(g)')
      <4>1. Len(fil[g]) = numChans[g] * (RankIn(Wanted, Place) + Through(g))
        BY <1>1 DEF Inv, Lengths, Working
      <4> QED
        BY <1>1, <1>2, <1>5, <2>1, <4>1
    <3> QED
      BY <3>1, <3>2
  <2> QED
    BY <1>1, <2>3 DEF Lengths, Working
<1> QED
  BY <1>1, <1>2, <1>3, <1>4, <1>5, <1>6 DEF Inv

LEMMA WriteFailsInv ==
  ASSUME WellFormed, Inv, NEW f \in Fils, WriteFails(f) PROVE Inv'
<1>1. /\ pc = "parallel" /\ tpc[f] = "write" /\ pc' = "failed"
      /\ UNCHANGED <<inputs, start, numChans, k, numSpec, s, inBuf, outBuf,
                     tpc, durable>>
  BY DEF WriteFails
<1>2. PICK m \in 0..(numChans[f] - 1) :
        fil' = [fil EXCEPT ![f] = fil[f] \o OutWords(f, m)]
  BY DEF WriteFails
<1>3. /\ Given' /\ Given /\ Wanted' = Wanted
      /\ numChans[f] \in Nat \ {0} /\ m \in 0..numChans[f]
  BY <1>1, WantedSame DEF Inv, ChannelsFit, Working
<1>4. ChannelsFit' /\ Position' /\ Buffers' /\ Lengths' /\ CompleteWhenClosed'
  BY <1>1 DEF Inv, ChannelsFit, Working, Position, Buffers, Lengths,
     CompleteWhenClosed
<1>5. /\ Contents' /\ RankIn(Wanted, Place) \in Nat
      /\ Len(fil'[f]) = numChans[f] * RankIn(Wanted, Place) + m
      /\ \A g \in Fils \ {f} : fil'[g] = fil[g]
  BY <1>1, <1>2, <1>3, Written
<1>6. InStep'
  <2> DEFINE q == RankIn(Wanted, Place)
  <2>1. ASSUME NEW g \in Fils
        PROVE  /\ numChans'[g] \in Nat \ {0} /\ Len(fil'[g]) \in Nat
               /\ numChans'[g] * q <= Len(fil'[g])
               /\ Len(fil'[g]) <= numChans'[g] * (q + 1)
    <3>1. numChans'[g] = numChans[g] /\ numChans[g] \in Nat \ {0} /\ q \in Nat
      BY <1>1, <1>5 DEF Inv, ChannelsFit, Working
    <3>2. /\ numChans[g] * q \in Nat
          /\ numChans[g] * (q + 1) = numChans[g] * q + numChans[g]
      BY <3>1, MulType
    <3>3. CASE g = f
      BY <1>3, <1>5, <3>1, <3>2, <3>3
    <3>4. CASE g # f
      <4>1. Len(fil'[g]) = numChans[g] * (q + Through(g))
        BY <1>1, <1>5, <3>4 DEF Inv, Lengths, Working
      <4>2. Through(g) = 0 \/ Through(g) = 1
        BY DEF Through
      <4> HIDE DEF q
      <4>3. Len(fil'[g]) = numChans[g] * q \/ Len(fil'[g]) = numChans[g] * (q + 1)
        BY <3>1, <4>1, <4>2
      <4> QED
        BY <3>1, <3>2, <4>3
    <3> QED
      BY <3>3, <3>4
  <2>2. q \in Nat
    BY <1>5
  <2> HIDE DEF q
  <2> QED
    BY <2>1, <2>2, DivsClose DEF InStep
<1> QED
  BY <1>1, <1>3, <1>4, <1>5, <1>6 DEF Inv

LEMMA StepInv == ASSUME WellFormed, Inv, [Next]_vars PROVE Inv'
<1>1. CASE Main
  BY <1>1, ConstructInv, ListDirectoryInv, SkipFileInv, CloseSigProcFilesInv,
     OpenFileInv, ReadInv, JoinInv, HardFlushInv DEF Main
<1>2. ASSUME NEW f \in Fils, Thread(f) PROVE Inv'
  BY <1>2, ConvertInv, WriteInv, WriteFailsInv DEF Thread
<1>3. CASE UNCHANGED vars
  <2>1. /\ UNCHANGED <<inputs, start, numChans, pc, k, numSpec, s, inBuf,
                       outBuf, tpc, fil, durable, Wanted>>
        /\ UNCHANGED <<sizes, ranges, flip, skip, num>> /\ Given'
    BY <1>3, WantedSame DEF vars, inputs, Inv
  <2>2. Contents'
    BY <2>1, ContentsSame
  <2>3. Buffers' /\ Position' /\ ChannelsFit'
    BY <2>1 DEF Inv, Buffers, Position, ChannelsFit, Working
  <2>4. Lengths'
    BY <2>1 DEF Inv, Lengths, Working, Place, Through
  <2>5. CompleteWhenClosed' /\ (pc' = "failed" => InStep')
    BY <2>1 DEF Inv, CompleteWhenClosed, InStep
  <2> QED
    BY <2>1, <2>2, <2>3, <2>4, <2>5 DEF Inv
<1> QED
  BY <1>1, <1>2, <1>3 DEF Next

LEMMA AlwaysInv == ASSUME WellFormed PROVE Spec => []Inv
<1>1. Init => Inv
  BY InitInv
<1>2. Inv /\ [Next]_vars => Inv'
  BY StepInv
<1> QED
  BY <1>1, <1>2, PTL DEF Spec

-----------------------------------------------------------------------------
(* The properties.                                                         *)

LEMMA InvDeinterleaved == ASSUME WellFormed, Inv PROVE Deinterleaved
<1> SUFFICES ASSUME NEW f \in Fils, NEW i \in DOMAIN fil[f]
             PROVE  LET c == start[f] + ((i - 1) % numChans[f])
                        v == fil[f][i]
                    IN  /\ v # Stale
                        /\ v[3] = Source(f, c)
                        /\ <<v[1], v[2]>> \in Wanted
                        /\ Rank(<<v[1], v[2]>>) = (i - 1) \div numChans[f]
  BY DEF Deinterleaved
<1> DEFINE c == start[f] + ((i - 1) % numChans[f])
           v == fil[f][i]
<1>1. Right(Wanted, flip, f, start[f], numChans[f], i, v)
  BY DEF Inv, Contents
<1>2. v # Stale
  <2>1. fil[f] \in Seq(Triples)
    BY DEF Inv, Contents
  <2>2. v \in Triples
    BY <2>1, Element
  <2> QED
    BY <2>2 DEF Triples, WellFormed
<1>3. SourceIn(flip, f, c) = Source(f, c)
  BY DEF SourceIn, Source, FlipOf
<1>4. \A q : RankIn(Wanted, q) = Rank(q)
  BY DEF RankIn, Earlier, Rank
<1> QED
  BY <1>1, <1>2, <1>3, <1>4 DEF Right

LEMMA InvInStep == ASSUME WellFormed, Inv PROVE InStep
<1>1. CASE Working
  <2> DEFINE q == RankIn(Wanted, Place)
  <2>1. q \in Nat
    BY RankNat DEF Inv
  <2>2. \A f \in Fils : numChans[f] \in Nat \ {0} /\ Len(fil[f]) = numChans[f] * (q + Through(f))
    BY <1>1 DEF Inv, ChannelsFit, Lengths
  <2> HIDE DEF q
  <2>3. ASSUME NEW f \in Fils
        PROVE  /\ numChans[f] \in Nat \ {0} /\ Len(fil[f]) \in Nat
               /\ numChans[f] * q <= Len(fil[f])
               /\ Len(fil[f]) <= numChans[f] * (q + 1)
    <3>1. Through(f) = 0 \/ Through(f) = 1
      BY DEF Through
    <3>2. /\ numChans[f] * q \in Nat
          /\ numChans[f] * (q + 1) = numChans[f] * q + numChans[f]
      BY <2>1, <2>2, MulType
    <3>3. Len(fil[f]) = numChans[f] * q \/ Len(fil[f]) = numChans[f] * (q + 1)
      BY <2>1, <2>2, <3>1
    <3> QED
      BY <2>2, <3>2, <3>3
  <2> QED
    BY <2>1, <2>3, DivsClose DEF InStep
<1>2. CASE pc = "failed"
  BY <1>2 DEF Inv
<1>3. CASE pc \notin {"next", "read", "parallel", "failed"}
  BY <1>3 DEF InStep
<1> QED
  BY <1>1, <1>2, <1>3 DEF Working

\* Every word of every filterbank file is the right channel of the right
\* spectrum, whatever the order of the threads of the parallel loop and
\* wherever the run stops (MakeFilterbank.cpp:472-500).
THEOREM AlwaysDeinterleaved ==
  ASSUME WellFormed PROVE Spec => []Deinterleaved
<1>1. Inv => Deinterleaved
  BY InvDeinterleaved
<1> QED
  BY <1>1, AlwaysInv, PTL

\* The filterbank files never differ by more than the spectrum being written,
\* not even when a write failed (MakeFilterbank.cpp:494-500).
THEOREM AlwaysInStep == ASSUME WellFormed PROVE Spec => []InStep
<1>1. Inv => InStep
  BY InvInStep
<1> QED
  BY <1>1, AlwaysInv, PTL

\* A run that ends regularly has copied every wanted spectrum to every file
\* and flushed it (MakeFilterbank.cpp:151-200, 509-512).
THEOREM AlwaysCompleteWhenClosed ==
  ASSUME WellFormed PROVE Spec => []CompleteWhenClosed
<1>1. Inv => CompleteWhenClosed
  BY DEF Inv
<1> QED
  BY <1>1, AlwaysInv, PTL
=============================================================================
