-------------------------- MODULE Batches_proofs --------------------------
(***************************************************************************)
(* The batches and chunks of prepfil fit into their buffers and cover the   *)
(* work exactly, for every size of file and memory.                        *)
(***************************************************************************)
EXTENDS Batches, TLAPS

LEMMA DivBounds ==
  ASSUME NEW x \in Nat, NEW y \in Nat \ {0}
  PROVE  /\ x \div y \in Nat
         /\ y * (x \div y) <= x
         /\ x < y * (x \div y) + y
OBVIOUS

LEMMA MulMonotone ==
  ASSUME NEW x \in Nat, NEW y \in Nat, NEW z \in Nat, x <= y
  PROVE  x * z <= y * z /\ z * x <= z * y
OBVIOUS

LEMMA MulPositive ==
  ASSUME NEW x \in Nat, NEW y \in Nat
  PROVE  x * y \in Nat /\ y * x = x * y
OBVIOUS

LEMMA ModDef ==
  ASSUME NEW x \in Nat, NEW y \in Nat \ {0}
  PROVE  x % y = x - y * (x \div y)
OBVIOUS

LEMMA DivParts ==
  ASSUME NEW x \in Nat, NEW y \in Nat \ {0}
  PROVE  /\ x \div y \in Nat /\ x % y \in 0..(y - 1)
         /\ x = y * (x \div y) + (x % y) /\ y * (x \div y) \in Nat
<1> DEFINE q == x \div y
           r == x % y
<1>1. q \in Nat /\ y * q <= x /\ x < y * q + y /\ y * q \in Nat
  BY DivBounds, MulPositive
<1>2. r = x - y * q
  BY ModDef
<1> HIDE DEF q, r
<1>3. q \in Nat /\ r \in 0..(y - 1) /\ x = y * q + r /\ y * q \in Nat
  BY <1>1, <1>2
<1> QED BY <1>3 DEF q, r

LEMMA Distribute ==
  ASSUME NEW x \in Nat, NEW y \in Nat, NEW z \in Nat
  PROVE  /\ x * (y + z) = x * y + x * z /\ (y + z) * x = y * x + z * x
         /\ x * (y * z) = (x * y) * z
OBVIOUS

\* Two multiples of y with remainders below y are equal only if both are.
LEMMA SameQuotient ==
  ASSUME NEW y \in Nat \ {0}, NEW q \in Nat, NEW p \in Nat,
         NEW r \in 0..(y - 1), NEW s \in 0..(y - 1), y * q + r = y * p + s
  PROVE  q = p /\ r = s
<1>1. /\ y * q \in Nat /\ y * p \in Nat
      /\ y * (q + 1) = y * q + y /\ y * (p + 1) = y * p + y
  BY MulPositive, Distribute
<1>2. ASSUME q < p PROVE FALSE
  <2>1. y * (q + 1) <= y * p
    BY <1>2, MulMonotone
  <2> QED BY <1>1, <2>1
<1>3. ASSUME p < q PROVE FALSE
  <2>1. y * (p + 1) <= y * q
    BY <1>3, MulMonotone
  <2> QED BY <1>1, <2>1
<1>4. q = p
  BY <1>2, <1>3
<1> QED BY <1>1, <1>4

\* Quotient and remainder of a number given by them.
LEMMA DivMod ==
  ASSUME NEW y \in Nat \ {0}, NEW q \in Nat, NEW r \in 0..(y - 1)
  PROVE  (y * q + r) \div y = q /\ (y * q + r) % y = r
<1> DEFINE x == y * q + r
           p == x \div y
           s == x % y
<1>1. x \in Nat
  BY MulPositive
<1>2. p \in Nat /\ y * p <= x /\ x < y * p + y /\ y * p \in Nat
  BY <1>1, DivBounds, MulPositive
<1>3. s = x - y * p
  BY <1>1, ModDef
<1>4. s \in 0..(y - 1) /\ y * q + r = y * p + s
  BY <1>1, <1>2, <1>3
<1> HIDE DEF p, s
<1>5. q = p /\ r = s
  BY <1>2, <1>4, SameQuotient
<1> QED BY <1>5 DEF p, s

\* A quotient is at most q when the numerator is at most q times the divisor.
LEMMA DivAtMost ==
  ASSUME NEW x \in Nat, NEW y \in Nat \ {0}, NEW q \in Nat, x <= y * q
  PROVE  x \div y <= q
<1> DEFINE r == x \div y
<1>1. r \in Nat /\ y * r <= x
  BY DivBounds
<1> HIDE DEF r
<1>2. SUFFICES ASSUME q + 1 <= r PROVE FALSE
  BY <1>1 DEF r
<1>3. y * (q + 1) <= y * r
  BY <1>1, <1>2, MulMonotone
<1>4. y * (q + 1) = y * q + y
  OBVIOUS
<1>5. y * q \in Nat /\ y * r \in Nat
  BY <1>1, MulPositive
<1> QED BY <1>1, <1>3, <1>4, <1>5

\* And at least q when it is at least q times the divisor.
LEMMA DivAtLeast ==
  ASSUME NEW x \in Nat, NEW y \in Nat \ {0}, NEW q \in Nat, y * q <= x
  PROVE  q <= x \div y
<1> DEFINE r == x \div y
<1>1. r \in Nat /\ x < y * r + y
  BY DivBounds
<1> HIDE DEF r
<1>2. SUFFICES ASSUME r + 1 <= q PROVE FALSE
  BY <1>1 DEF r
<1>3. y * (r + 1) <= y * q
  BY <1>1, <1>2, MulMonotone
<1>4. y * (r + 1) = y * r + y
  BY <1>1
<1>5. y * q \in Nat /\ y * r \in Nat
  BY <1>1, MulPositive
<1> QED BY <1>1, <1>3, <1>4, <1>5

\* A division that rounds up covers its numerator.
LEMMA CeilCovers ==
  ASSUME NEW a \in Nat \ {0}, NEW p \in Nat \ {0}
  PROVE  /\ CeilDiv(a, p) \in Nat \ {0}
         /\ CeilDiv(a, p) <= a
         /\ a <= p * CeilDiv(a, p)
         /\ p * CeilDiv(a, p) <= a + p - 1
<1> DEFINE k == CeilDiv(a, p)
<1>1. a + p - 1 \in Nat
  OBVIOUS
<1>2. k \in Nat /\ p * k <= a + p - 1 /\ a + p - 1 < p * k + p
  BY <1>1, DivBounds DEF CeilDiv
<1>3. k <= a
  <2>1. a + p - 1 <= p * a
    <3>1. (a - 1) * 1 <= (a - 1) * p
      BY MulMonotone
    <3>2. (a - 1) * p = p * a - p
      OBVIOUS
    <3>3. p * a \in Nat
      BY MulPositive
    <3> QED BY <3>1, <3>2, <3>3
  <2> QED BY <1>1, <2>1, DivAtMost DEF CeilDiv
<1> HIDE DEF k
<1>4. p * k \in Nat
  BY <1>2, MulPositive
<1>5. a <= p * k
  BY <1>2, <1>4
<1>6. k # 0
  <2>1. SUFFICES ASSUME k = 0 PROVE FALSE
    OBVIOUS
  <2>2. p * k = 0
    BY <2>1
  <2> QED BY <1>5, <2>2
<1> QED BY <1>2, <1>3, <1>5, <1>6 DEF k

-----------------------------------------------------------------------------
\* GetBatches: with memory for at least one channel a batch has at least one
\* channel and at most all of them, and its buffers fit into the memory.
THEOREM BatchFits ==
  ASSUME NEW buffer \in Nat, NEW fpc \in Nat \ {0}, NEW nchans \in Nat \ {0},
         fpc <= buffer
  PROVE  /\ BatchSize(buffer, fpc, nchans) \in 1..nchans
         /\ BatchSize(buffer, fpc, nchans) * fpc <= buffer
<1> DEFINE fit == Fitting(buffer, fpc, nchans)
           k   == CeilDiv(nchans, fit)
           bs  == BatchSize(buffer, fpc, nchans)
<1>1. /\ buffer \div fpc \in Nat /\ 1 <= buffer \div fpc
      /\ fpc * (buffer \div fpc) <= buffer
  <2>1. fpc * 1 <= buffer
    OBVIOUS
  <2> QED BY <2>1, DivBounds, DivAtLeast
<1>2. fit \in 1..nchans /\ fit <= buffer \div fpc
  BY <1>1 DEF Fitting, LesserOf
<1>3. fpc * fit <= buffer
  <2>1. fpc * fit <= fpc * (buffer \div fpc)
    BY <1>1, <1>2, MulMonotone
  <2>2. fpc * fit \in Nat /\ fpc * (buffer \div fpc) \in Nat
    BY <1>1, <1>2, MulPositive
  <2> QED BY <1>1, <2>1, <2>2
<1> HIDE DEF fit
<1>4. fit \in Nat \ {0}
  BY <1>2
<1>5. k \in Nat \ {0} /\ k <= nchans /\ nchans <= fit * k
  BY <1>4, CeilCovers
<1>6. bs = nchans \div k
  BY DEF BatchSize, fit
<1> HIDE DEF k, bs
<1>7. bs \in Nat /\ 1 <= bs
  <2>1. k * 1 <= nchans
    BY <1>5
  <2> QED BY <1>5, <1>6, <2>1, DivBounds, DivAtLeast
<1>8. bs <= fit
  <2>1. nchans <= k * fit
    BY <1>4, <1>5, MulPositive
  <2> QED BY <1>4, <1>5, <1>6, <2>1, DivAtMost
<1>9. bs * fpc <= buffer
  <2>1. bs * fpc <= fit * fpc
    BY <1>4, <1>7, <1>8, MulMonotone
  <2>2. fit * fpc = fpc * fit /\ fit * fpc \in Nat /\ bs * fpc \in Nat
    BY <1>4, <1>7, MulPositive
  <2> QED BY <1>3, <2>1, <2>2
<1>10. bs \in 1..nchans
  BY <1>2, <1>7, <1>8
<1> QED BY <1>9, <1>10 DEF bs

\* The pieces of DoProcess's loops: every channel (or sample) is in one batch
\* (or chunk), in no other, and none lies outside the work.
THEOREM PiecesPartition ==
  ASSUME NEW n \in Nat \ {0}, NEW p \in Nat \ {0}
  PROVE  /\ \A b \in 0..(NumPieces(n, p) - 1) :
              Piece(n, b, p) \subseteq 0..(n - 1) /\ Piece(n, b, p) # {}
         /\ \A c \in 0..(n - 1) :
              /\ \E b \in 0..(NumPieces(n, p) - 1) : c \in Piece(n, b, p)
              /\ \A b1, b2 \in 0..(NumPieces(n, p) - 1) :
                   c \in Piece(n, b1, p) /\ c \in Piece(n, b2, p) => b1 = b2
<1> DEFINE k == NumPieces(n, p)
<1>1. k \in Nat \ {0} /\ n <= p * k /\ p * k <= n + p - 1
  BY CeilCovers DEF NumPieces
<1> HIDE DEF k
<1>2. ASSUME NEW b \in 0..(k - 1)
      PROVE  /\ b * p \in Nat /\ b * p < n
             /\ Piece(n, b, p) = {c \in 0..(n - 1) : b * p <= c /\ c < b * p + p}
  <2>1. b \in Nat /\ b + 1 \in Nat /\ b + 1 <= k
    BY <1>1
  <2>2. p * (b + 1) <= p * k /\ p * (b + 1) = b * p + p
    BY <1>1, <2>1, MulMonotone
  <2>3. b * p \in Nat /\ p * k \in Nat
    BY <1>1, <2>1, MulPositive
  <2>4. b * p < n
    BY <1>1, <2>2, <2>3
  <2>5. Piece(n, b, p) = (b * p)..(b * p + LesserOf(p, n - b * p) - 1)
    BY DEF Piece, First, Length
  <2> DEFINE o == b * p
  <2>6. o \in Nat /\ o < n /\ Piece(n, b, p) = o..(o + LesserOf(p, n - o) - 1)
    BY <2>3, <2>4, <2>5
  <2> HIDE DEF o
  <2>7. Piece(n, b, p) = {c \in 0..(n - 1) : o <= c /\ c < o + p}
    BY <2>6 DEF LesserOf
  <2> QED BY <2>3, <2>4, <2>7 DEF o
<1>3. ASSUME NEW b \in 0..(k - 1)
      PROVE  Piece(n, b, p) \subseteq 0..(n - 1) /\ Piece(n, b, p) # {}
  <2>1. b * p \in Piece(n, b, p)
    BY <1>2
  <2> QED BY <1>2, <2>1
<1>4. ASSUME NEW c \in 0..(n - 1)
      PROVE  \E b \in 0..(k - 1) : c \in Piece(n, b, p)
  <2> DEFINE b == c \div p
  <2>1. b \in Nat /\ p * b <= c /\ c < p * b + p
    BY DivBounds
  <2> HIDE DEF b
  <2>2. b < k
    <3>1. SUFFICES ASSUME k <= b PROVE FALSE
      BY <1>1, <2>1
    <3>2. p * k <= p * b /\ p * k \in Nat /\ p * b \in Nat
      BY <1>1, <2>1, <3>1, MulMonotone, MulPositive
    <3> QED BY <1>1, <2>1, <3>2
  <2>3. b \in 0..(k - 1) /\ b * p = p * b
    BY <1>1, <2>1, <2>2, MulPositive
  <2>4. c \in Piece(n, b, p)
    BY <1>2, <2>1, <2>3
  <2> QED BY <2>3, <2>4
<1>5. ASSUME NEW c \in 0..(n - 1), NEW b1 \in 0..(k - 1), NEW b2 \in 0..(k - 1),
             c \in Piece(n, b1, p), c \in Piece(n, b2, p), b1 < b2
      PROVE  FALSE
  <2>1. /\ b1 * p <= c /\ c < b1 * p + p /\ b2 * p <= c
        /\ b1 * p \in Nat /\ b2 * p \in Nat
    BY <1>2, <1>5
  <2>2. b1 \in Nat /\ b2 \in Nat /\ b1 + 1 <= b2
    BY <1>5
  <2>3. (b1 + 1) * p <= b2 * p /\ (b1 + 1) * p = b1 * p + p
    BY <2>2, MulMonotone
  <2> QED BY <2>1, <2>3
<1>6. ASSUME NEW c \in 0..(n - 1), NEW b1 \in 0..(k - 1), NEW b2 \in 0..(k - 1),
             c \in Piece(n, b1, p), c \in Piece(n, b2, p)
      PROVE  b1 = b2
  <2>1. b1 \in Int /\ b2 \in Int /\ ~(b1 < b2) /\ ~(b2 < b1)
    BY <1>5, <1>6
  <2> QED BY <2>1
<1> QED BY <1>3, <1>4, <1>6 DEF k

\* A chunk of the bandpass measurement fits into the input buffer of a batch.
THEOREM ChunkFits ==
  ASSUME NEW batch \in Nat, NEW nsamples \in Nat, NEW nchans \in Nat \ {0},
         NEW limit \in Nat, NEW wanted \in Nat
  PROVE  /\ TimeChunk(batch, nsamples, nchans, limit, wanted) \in Nat
         /\ TimeChunk(batch, nsamples, nchans, limit, wanted) * nchans
              <= batch * nsamples
<1> DEFINE q == (batch * nsamples) \div nchans
           l == limit \div nchans
           s == TimeChunk(batch, nsamples, nchans, limit, wanted)
<1>1. batch * nsamples \in Nat
  BY MulPositive
<1>2. q \in Nat /\ nchans * q <= batch * nsamples /\ l \in Nat
  BY <1>1, DivBounds
<1>3. s = LesserOf(LesserOf(q, l), wanted)
  BY DEF TimeChunk
<1> HIDE DEF q, l, s
<1>4. s \in Nat /\ s <= q
  BY <1>2, <1>3 DEF LesserOf
<1>5. s * nchans <= q * nchans /\ q * nchans = nchans * q
      /\ s * nchans \in Nat /\ q * nchans \in Nat
  BY <1>2, <1>4, MulMonotone, MulPositive
<1> QED BY <1>1, <1>2, <1>4, <1>5 DEF s

\* Which piece n is in.
LEMMA PieceOf ==
  ASSUME NEW n \in Nat, NEW p \in Nat \ {0}, NEW b \in Nat, NEW c \in 0..(n - 1)
  PROVE  c \in Piece(n, b, p) <=> b = c \div p
<1> DEFINE x == b * p
<1>1. x \in Nat /\ x = p * b
  BY MulPositive
<1>2. Piece(n, b, p) = x..(x + LesserOf(p, n - x) - 1)
  BY DEF Piece, First, Length
<1>3. c \in Piece(n, b, p) <=> x <= c /\ c - x \in 0..(p - 1)
  <2> HIDE DEF x
  <2> QED BY <1>1, <1>2 DEF LesserOf
<1>4. ASSUME c \in Piece(n, b, p) PROVE b = c \div p
  <2>1. c - x \in 0..(p - 1) /\ c = p * b + (c - x)
    BY <1>1, <1>3, <1>4
  <2> DEFINE r == c - x
  <2> HIDE DEF r
  <2> QED BY <2>1, DivMod DEF r
<1>5. ASSUME b = c \div p PROVE c \in Piece(n, b, p)
  <2>1. p * b <= c /\ c < p * b + p
    BY <1>5, DivBounds
  <2> QED BY <1>1, <1>3, <2>1
<1> QED BY <1>4, <1>5

\* What comes before the next piece is in this one or before it.
LEMMA BeforeNextPiece ==
  ASSUME NEW n \in Nat, NEW p \in Nat \ {0}, NEW b \in Nat, NEW c \in 0..(n - 1),
         c < First(b + 1, p)
  PROVE  c < First(b, p) \/ c \in Piece(n, b, p)
<1> DEFINE x == b * p
<1>1. x \in Nat /\ First(b, p) = x /\ First(b + 1, p) = x + p
  BY MulPositive, Distribute DEF First
<1>2. Piece(n, b, p) = x..(x + LesserOf(p, n - x) - 1)
  BY DEF Piece, First, Length
<1> HIDE DEF x
<1> QED BY <1>1, <1>2 DEF LesserOf
=============================================================================
