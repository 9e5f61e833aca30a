----------------------------- MODULE Barycenter -----------------------------
(***************************************************************************)
(* DoBarycenterCorrection: one channel is copied from datIn to datOut block *)
(* by block; before sample diffs[d] a bin is added, and sample -diffs[d] is *)
(* left out.  The state is that of the code's loops; the lengths given to   *)
(* memcpy are what its safety rests on.                                    *)
(***************************************************************************)
EXTENDS Integers, Sequences

CONSTANTS
  Block,     \* a block is a multiple of this (1024)
  MaxBlocks, \* and at most so many of them (8)
  Cases      \* numbers of samples with their diffbins: [num, diffs, slots]

Abs(x) == IF x < 0 THEN -x ELSE x
LesserOf(a, b) == IF a < b THEN a ELSE b

\* The diffbins increase up to one that lies beyond the samples.
Good(num, diffs) ==
  \E last \in DOMAIN diffs :
    /\ Abs(diffs[last]) >= num
    /\ \A i, j \in 1..last : i < j => Abs(diffs[i]) < Abs(diffs[j])

\* One beyond the samples is followed by none among them: the constructor goes
\* on beyond the end of the file, and its marker is the number of samples.
Beyond(num, diffs) ==
  \A i, j \in DOMAIN diffs : i < j /\ Abs(diffs[i]) >= num => Abs(diffs[j]) >= num

ASSUME BarycenterAssumption ==
  /\ Block \in Nat \ {0} /\ MaxBlocks \in Nat \ {0}
  /\ Cases \subseteq [num : Nat, diffs : Seq(Int), slots : Nat]
  /\ \A c \in Cases : Good(c.num, c.diffs)

ASSUME BarycenterBeyond == \A c \in Cases : Beyond(c.num, c.diffs)

VARIABLES
  case,       \* num, mDiffbins and the room made for them
  pc,         \* where the loops are
  inputIdx,   \* samples read so far
  numread,    \* samples in outdata, the block last read
  numwritten, \* samples of the block used so far, written or left out
  skip,       \* where in the block to go on
  numtowrite, \* length of the last memcpy
  datawrote, totwrote, \* samples used so far, values written so far
  d,          \* diffbinptr
  datOut      \* the output, up to outputIdx

vars == <<case, pc, inputIdx, numread, numwritten, skip, numtowrite, datawrote,
          totwrote, d, datOut>>

num   == case.num
diffs == case.diffs

\* Whole blocks, and none at all if there are fewer samples than in a block.
worklen == (LesserOf(MaxBlocks * Block, num) \div Block) * Block

In(i)      == <<"in", i>>
Average(i) == <<"average", i>>
Zero       == <<"zero", 0>>

-----------------------------------------------------------------------------
Read ==
  /\ pc = "read"
  /\ numread' = LesserOf(worklen, num - inputIdx)
  /\ inputIdx' = inputIdx + numread' /\ numwritten' = 0 /\ skip' = 0
  /\ pc' = IF numread' = 0 THEN "pad" ELSE "first"
  /\ UNCHANGED <<case, numtowrite, datawrote, totwrote, d, datOut>>

\* memcpy of n values from position from of the block.
start == inputIdx - numread
Copied(from, n) == [i \in 1..n |-> In(start + from + i - 1)]

Copy(from, n) ==
  /\ numtowrite' = n
  /\ datOut' = datOut \o Copied(from, n)
  /\ datawrote' = datawrote + n /\ totwrote' = totwrote + n
  /\ numwritten' = numwritten + n

\* What is left before the next diffbin, in the output, and of the block.
Writable == LesserOf(LesserOf(Abs(diffs[d]) - datawrote, num - totwrote),
                     numread - numwritten)

FirstPart ==
  /\ pc = "first"
  /\ Copy(0, Writable) /\ skip' = Writable
  /\ pc' = IF datawrote' = Abs(diffs[d]) /\ numwritten' # numread /\ totwrote' < num
           THEN "bin" ELSE "next"
  /\ UNCHANGED <<case, inputIdx, numread, d>>

\* A bin of the average of the block is added,
AddBin ==
  /\ pc = "bin" /\ diffs[d] > 0
  /\ datOut' = Append(datOut, Average(start)) /\ totwrote' = totwrote + 1
  /\ d' = d + 1 /\ pc' = "rest"
  /\ UNCHANGED <<case, inputIdx, numread, numwritten, skip, numtowrite, datawrote>>

\* or a sample is left out.
RemoveBin_NoSkip == \* a slip: the sample is counted but not skipped
  /\ pc = "bin" /\ diffs[d] <= 0
  /\ datawrote' = datawrote + 1 /\ numwritten' = numwritten + 1
  /\ skip' = skip
  /\ d' = d + 1 /\ pc' = "rest"
  /\ UNCHANGED <<case, inputIdx, numread, numtowrite, totwrote, datOut>>
RemoveBin ==
  /\ pc = "bin" /\ diffs[d] <= 0
  /\ datawrote' = datawrote + 1 /\ numwritten' = numwritten + 1
  /\ skip' = skip + 1
  /\ d' = d + 1 /\ pc' = "rest"
  /\ UNCHANGED <<case, inputIdx, numread, numtowrite, totwrote, datOut>>

\* The part after the diffbin, up to the next one.
RestPart_WholeBlock == \* a slip: what the block has left is taken from its start
  /\ pc = "rest"
  /\ LET n == LesserOf(LesserOf(Abs(diffs[d]) - datawrote, num - totwrote), numread)
     IN  Copy(skip, n) /\ skip' = skip + n
  /\ pc' = IF totwrote' # num /\ numwritten' < numread THEN "bin" ELSE "next"
  /\ UNCHANGED <<case, inputIdx, numread, d>>
RestPart ==
  /\ pc = "rest"
  /\ Copy(skip, Writable) /\ skip' = skip + Writable
  /\ pc' = IF totwrote' # num /\ numwritten' < numread THEN "bin" ELSE "next"
  /\ UNCHANGED <<case, inputIdx, numread, d>>

NextBlock ==
  /\ pc = "next"
  /\ pc' = IF totwrote = num THEN "done" ELSE "read"
  /\ UNCHANGED <<case, inputIdx, numread, numwritten, skip, numtowrite,
       datawrote, totwrote, d, datOut>>

\* Removed bins leave the end of the output to be filled with zeros.
Pad ==
  /\ pc = "pad"
  /\ datOut' = datOut \o [i \in 1..(num - totwrote) |-> Zero]
  /\ pc' = "done"
  /\ UNCHANGED <<case, inputIdx, numread, numwritten, skip, numtowrite,
       datawrote, totwrote, d>>

Init ==
  /\ case \in Cases /\ pc = "read"
  /\ inputIdx = 0 /\ numread = 0 /\ numwritten = 0 /\ skip = 0 /\ numtowrite = 0
  /\ datawrote = 0 /\ totwrote = 0 /\ d = 1 /\ datOut = << >>

Next == Read \/ FirstPart \/ AddBin \/ RemoveBin \/ RestPart \/ NextBlock \/ Pad

Spec == Init /\ [][Next]_vars

-----------------------------------------------------------------------------
(* Properties.                                                             *)

\* The type invariant.
TypeOK ==
  /\ case \in [num : Nat, diffs : Seq(Int), slots : Nat]
  /\ pc \in {"read", "first", "bin", "rest", "next", "pad", "done"}
  /\ inputIdx \in Nat /\ numread \in Nat /\ numwritten \in Nat /\ skip \in Nat
  /\ numtowrite \in Int /\ datawrote \in Nat /\ totwrote \in Nat /\ d \in Nat
  /\ datOut \in Seq({"in", "average", "zero"} \X Int)

\* No memcpy of DoBarycenterCorrection has a negative length (size_t would
\* wrap), reads beyond the block (which ends at numread) or writes beyond the
\* num values of datOut; and diffbinptr stays within mDiffbins.
MemorySafe ==
  /\ numtowrite >= 0
  /\ skip <= numread /\ numread <= worklen /\ inputIdx <= num
  /\ Len(datOut) <= num
  /\ d \in DOMAIN diffs

\* What the correction is for, without blocks and counters: the samples in
\* their order, one left out at each negative diffbin, the average of the
\* block added before the sample at each positive one, cut to num values or
\* filled with zeros.
Merged[i \in Nat] ==
  IF i = 0 THEN << >>
  ELSE LET s == i - 1 IN
       Merged[s]
         \o (IF \E k \in DOMAIN diffs : diffs[k] = s /\ s > 0
             THEN <<Average((s \div worklen) * worklen)>> ELSE << >>)
         \o (IF \E k \in DOMAIN diffs : diffs[k] = -s THEN << >> ELSE <<In(s)>>)

\* This is for files of at least one block: of shorter ones nothing is copied.
Corrected ==
  pc = "done" =>
    /\ Len(datOut) = num
    /\ num >= Block => \A i \in 1..num :
         datOut[i] = IF i <= Len(Merged[num]) THEN Merged[num][i] ELSE Zero

\* The constructor writes as many diffbins as it has made room for, if the
\* drift does not turn round.
DiffbinsFit == Len(diffs) <= case.slots
=============================================================================
