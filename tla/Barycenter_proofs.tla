------------------------- MODULE Barycenter_proofs -------------------------
(***************************************************************************)
(* What is shown of Barycenter, for files of any length, blocks of any     *)
(* size and any increasing diffbins.                                       *)
(*                                                                         *)
(* Memory safety: the counters are tied to each other (Counters), the      *)
(* loops leave them in a known relation (Places), and the diffbin the      *)
(* pointer is at lies ahead of the samples used (Ahead): as long as        *)
(* samples are left, so does a further diffbin.                            *)
(*                                                                         *)
(* The constructor: between two points at most as many samples are found   *)
(* as bins are crossed, so that their sum is bounded by the last bin.      *)
(*                                                                         *)
(* The output: it is at all times what Merged makes of the samples used,   *)
(* with the average that is added ahead of the next sample (MergeInv).     *)
(***************************************************************************)
EXTENDS Barycenter, WellFoundedInduction, TLAPS

Values == {"in", "average", "zero"} \X Int

Counters ==
  /\ inputIdx <= num /\ numread <= worklen /\ numread <= inputIdx
  /\ numwritten <= numread /\ skip = numwritten /\ totwrote <= num
  /\ datawrote = (inputIdx - numread) + numwritten
  /\ numtowrite >= 0
  /\ Len(datOut) <= num /\ (pc # "done" => Len(datOut) = totwrote)

Places ==
  /\ pc = "read" => numwritten = numread
  /\ pc = "first" => numwritten = 0
  /\ pc = "next" => totwrote = num \/ numwritten = numread
  /\ pc = "bin" => numwritten < numread /\ totwrote < num
                   /\ datawrote = Abs(diffs[d])

\* Diffbin l lies beyond the samples, and up to it they increase.
Ends(c, l) ==
  /\ l \in DOMAIN c.diffs /\ Abs(c.diffs[l]) >= c.num
  /\ \A i, j \in 1..l : i < j => Abs(c.diffs[i]) < Abs(c.diffs[j])

Ahead ==
  \E l \in Nat : Ends(case, l) /\ d \in 1..l /\ datawrote <= Abs(diffs[d])

Inv == case \in Cases /\ TypeOK /\ Counters /\ Places /\ Ahead

-----------------------------------------------------------------------------
(* Lemmas.                                                                 *)

LEMMA CaseType ==
  ASSUME NEW c \in Cases
  PROVE  /\ c.num \in Nat /\ c.diffs \in Seq(Int)
         /\ \E l \in Nat : Ends(c, l)
<1>1. c \in [num : Nat, diffs : Seq(Int), slots : Nat]
  BY BarycenterAssumption
<1>2. Good(c.num, c.diffs)
  BY BarycenterAssumption
<1>3. PICK l \in DOMAIN c.diffs :
        /\ Abs(c.diffs[l]) >= c.num
        /\ \A i, j \in 1..l : i < j => Abs(c.diffs[i]) < Abs(c.diffs[j])
  BY <1>2 DEF Good
<1>4. l \in Nat
  BY <1>1
<1> QED BY <1>1, <1>3, <1>4 DEF Ends

LEMMA AbsNat == ASSUME NEW x \in Int PROVE Abs(x) \in Nat
BY DEF Abs

LEMMA MulNat == ASSUME NEW x \in Nat, NEW y \in Nat PROVE x * y \in Nat
OBVIOUS

LEMMA DivNat == ASSUME NEW x \in Nat, NEW y \in Nat \ {0} PROVE x \div y \in Nat
OBVIOUS

LEMMA WorklenNat == ASSUME case \in Cases PROVE worklen \in Nat
<1>1. /\ Block \in Nat \ {0} /\ MaxBlocks \in Nat \ {0} /\ num \in Nat
  BY BarycenterAssumption, CaseType DEF num
<1>2. MaxBlocks * Block \in Nat
  BY <1>1, MulNat
<1>3. LesserOf(MaxBlocks * Block, num) \in Nat
  BY <1>1, <1>2 DEF LesserOf
<1>4. LesserOf(MaxBlocks * Block, num) \div Block \in Nat
  BY <1>1, <1>3, DivNat
<1> QED BY <1>1, <1>4, MulNat DEF worklen

\* A copy appends as many values as it is told to.
LEMMA CopyAppends ==
  ASSUME TypeOK, NEW n \in Nat, NEW from \in Int
  PROVE  /\ datOut \o Copied(from, n) \in Seq(Values)
         /\ Len(datOut \o Copied(from, n)) = Len(datOut) + n
<1>1. datOut \in Seq(Values) /\ start \in Int
  BY DEF TypeOK, Values, start
<1>2. \A i \in 1..n : In(start + from + i - 1) \in Values
  BY <1>1 DEF In, Values
<1>3. Copied(from, n) \in Seq(Values) /\ Len(Copied(from, n)) = n
  BY <1>2 DEF Copied
<1> QED BY <1>1, <1>3

LEMMA LesserOfThree ==
  ASSUME NEW a \in Nat, NEW b \in Nat, NEW c \in Nat
  PROVE  /\ LesserOf(LesserOf(a, b), c) \in Nat
         /\ LesserOf(LesserOf(a, b), c) <= a
         /\ LesserOf(LesserOf(a, b), c) <= b
         /\ LesserOf(LesserOf(a, b), c) <= c
         /\ LesserOf(LesserOf(a, b), c) \in {a, b, c}
BY DEF LesserOf

\* The limits of a copy are respected, and one of them is reached.
LEMMA WritableLimits ==
  ASSUME Inv
  PROVE  /\ Writable \in Nat
         /\ datawrote + Writable <= Abs(diffs[d])
         /\ totwrote + Writable <= num
         /\ numwritten + Writable <= numread
         /\ \/ datawrote + Writable = Abs(diffs[d])
            \/ totwrote + Writable = num
            \/ numwritten + Writable = numread
<1> DEFINE D == Abs(diffs[d])
           a == D - datawrote
           b == num - totwrote
           c == numread - numwritten
<1>1. D \in Nat /\ datawrote <= D
  <2>1. PICK l \in Nat : Ends(case, l) /\ d \in 1..l /\ datawrote <= Abs(diffs[d])
    BY DEF Inv, Ahead
  <2>2. diffs \in Seq(Int) /\ l \in DOMAIN diffs
    BY <2>1, CaseType DEF Inv, Ends, diffs
  <2>3. diffs[d] \in Int
    BY <2>1, <2>2
  <2> QED BY <2>1, <2>3, AbsNat
<1>2. /\ num \in Nat /\ datawrote \in Nat /\ totwrote \in Nat /\ totwrote <= num
      /\ numread \in Nat /\ numwritten \in Nat /\ numwritten <= numread
  BY CaseType DEF Inv, TypeOK, Counters, num
<1> HIDE DEF D
<1>3. a \in Nat /\ b \in Nat /\ c \in Nat
  BY <1>1, <1>2
<1>4. Writable = LesserOf(LesserOf(a, b), c)
  BY DEF Writable, D
<1> HIDE DEF a, b, c
<1>5. /\ Writable \in Nat /\ Writable <= a /\ Writable <= b /\ Writable <= c
      /\ Writable \in {a, b, c}
  BY <1>3, <1>4, LesserOfThree
<1>6. /\ datawrote + Writable <= D /\ totwrote + Writable <= num
      /\ numwritten + Writable <= numread
      /\ \/ datawrote + Writable = D
         \/ totwrote + Writable = num
         \/ numwritten + Writable = numread
  BY <1>1, <1>2, <1>5 DEF a, b, c
<1> QED BY <1>5, <1>6 DEF D

\* While samples are left there is a further diffbin, and it lies ahead.
LEMMA AnotherDiffbin ==
  ASSUME Inv, pc = "bin"
  PROVE  \E l \in Nat : Ends(case, l) /\ d + 1 \in 1..l
                        /\ datawrote < Abs(diffs[d + 1])
<1>1. PICK l \in Nat : Ends(case, l) /\ d \in 1..l
  BY DEF Inv, Ahead
<1>2. /\ num \in Nat /\ inputIdx \in Nat /\ numread \in Nat /\ numwritten \in Nat
      /\ inputIdx <= num /\ numwritten < numread /\ d \in Nat
      /\ datawrote = (inputIdx - numread) + numwritten
      /\ datawrote = Abs(diffs[d])
  BY CaseType DEF Inv, TypeOK, Counters, Places, num
<1>3. datawrote < num
  BY <1>2
<1>4. Abs(diffs[l]) >= num
  BY <1>1 DEF Ends, num, diffs
<1>5. d # l
  <2>1. SUFFICES ASSUME d = l PROVE FALSE
    OBVIOUS
  <2>2. datawrote >= num
    BY <1>2, <1>4, <2>1
  <2> QED BY <1>2, <1>3, <2>2
<1>6. d \in 1..l /\ d + 1 \in 1..l /\ d < d + 1
  BY <1>1, <1>2, <1>5
<1>7. Abs(diffs[d]) < Abs(diffs[d + 1])
  BY <1>1, <1>6 DEF Ends, diffs
<1> QED BY <1>1, <1>2, <1>6, <1>7

-----------------------------------------------------------------------------
(* The steps.                                                              *)

LEMMA InitInv == Init => Inv
<1> SUFFICES ASSUME Init PROVE Inv
  OBVIOUS
<1>1. case \in Cases /\ num \in Nat /\ diffs \in Seq(Int) /\ worklen \in Nat
  BY CaseType, WorklenNat DEF Init, num, diffs
<1>2. TypeOK
  BY BarycenterAssumption DEF Init, TypeOK
<1>3. Counters /\ Places
  BY <1>1 DEF Init, Counters, Places
<1>4. Ahead
  <2>1. PICK l \in Nat : Ends(case, l)
    BY <1>1, CaseType
  <2>2. l \in DOMAIN diffs
    BY <2>1 DEF Ends, diffs
  <2>3. 1 \in 1..l /\ diffs[1] \in Int
    BY <1>1, <2>2
  <2>4. Abs(diffs[1]) \in Nat
    BY <2>3, AbsNat
  <2> QED BY <2>1, <2>3, <2>4 DEF Init, Ahead
<1> QED BY <1>1, <1>2, <1>3, <1>4 DEF Inv

\* What a step that keeps the case and the diffbin pointer has to show.
LEMMA SameDiffbin ==
  ASSUME Inv, case' = case, d' = d, datawrote' <= Abs(diffs[d])
  PROVE  Ahead'
BY DEF Inv, Ahead, Ends, diffs

LEMMA NextDiffbin ==
  ASSUME Inv, pc = "bin", case' = case, d' = d + 1, datawrote' \in Nat,
         datawrote' <= datawrote + 1
  PROVE  Ahead'
<1>1. PICK l \in Nat : Ends(case, l) /\ d + 1 \in 1..l
                       /\ datawrote < Abs(diffs[d + 1])
  BY AnotherDiffbin
<1>2. diffs \in Seq(Int) /\ l \in DOMAIN diffs
  BY <1>1, CaseType DEF Inv, Ends, diffs
<1>3. Abs(diffs[d + 1]) \in Nat /\ datawrote \in Nat
  <2>1. d + 1 \in DOMAIN diffs /\ datawrote \in Nat
    BY <1>1, <1>2 DEF Inv, TypeOK
  <2>2. diffs[d + 1] \in Int
    BY <1>2, <2>1
  <2> QED BY <2>1, <2>2, AbsNat
<1>4. datawrote' <= Abs(diffs[d + 1])
  BY <1>1, <1>3
<1> QED BY <1>1, <1>4 DEF Ahead, Ends, diffs

LEMMA ReadInv == ASSUME Inv, Read PROVE Inv'
<1>1. /\ num \in Nat /\ worklen \in Nat /\ inputIdx \in Nat /\ inputIdx <= num
      /\ datawrote \in Nat /\ numread \in Nat /\ numwritten = numread
      /\ datawrote = (inputIdx - numread) + numwritten
  BY CaseType, WorklenNat DEF Inv, TypeOK, Counters, Places, num, Read
<1>2. num' = num /\ worklen' = worklen /\ diffs' = diffs
  BY DEF Read, num, worklen, diffs
<1>3. numread' \in Nat /\ numread' <= worklen /\ numread' <= num - inputIdx
  BY <1>1 DEF Read, LesserOf
<1>4. TypeOK'
  BY <1>1, <1>3 DEF Inv, TypeOK, Read
<1>5. Counters'
  BY <1>1, <1>2, <1>3 DEF Inv, TypeOK, Counters, Read
<1>6. Places'
  BY DEF Read, Places
<1>7. Ahead'
  BY DEF Inv, Ahead, Ends, Read, diffs
<1> QED BY <1>4, <1>5, <1>6, <1>7 DEF Inv, Read

\* What the two memcpys of a block have in common.
LEMMA CopyInv ==
  ASSUME Inv, pc \in {"first", "rest"}, Copy(skip, Writable),
         skip' = skip + Writable, UNCHANGED <<case, inputIdx, numread, d>>,
         pc' \in {"bin", "next"}
  PROVE  TypeOK' /\ Counters' /\ Ahead'
<1>1. /\ Writable \in Nat
      /\ datawrote + Writable <= Abs(diffs[d])
      /\ totwrote + Writable <= num
      /\ numwritten + Writable <= numread
  BY WritableLimits
<1>2. /\ num \in Nat /\ worklen \in Nat /\ num' = num /\ worklen' = worklen
  BY CaseType, WorklenNat DEF Inv, num, worklen
<1>3. /\ datOut' \in Seq(Values) /\ Len(datOut') = Len(datOut) + Writable
  BY <1>1, CopyAppends DEF Inv, Copy, TypeOK
<1>4. TypeOK'
  BY <1>1, <1>3 DEF Inv, TypeOK, Copy, Values
<1>5. Counters'
  <2>1. Len(datOut) = totwrote
    BY DEF Inv, Counters
  <2>2. /\ inputIdx \in Nat /\ numread \in Nat /\ numwritten \in Nat
        /\ totwrote \in Nat /\ datawrote \in Nat /\ skip = numwritten
        /\ datawrote = (inputIdx - numread) + numwritten
        /\ inputIdx <= num /\ numread <= worklen /\ numread <= inputIdx
    BY DEF Inv, TypeOK, Counters
  <2>3. /\ numwritten' = numwritten + Writable /\ totwrote' = totwrote + Writable
        /\ datawrote' = datawrote + Writable /\ numtowrite' = Writable
        /\ skip' = skip + Writable /\ inputIdx' = inputIdx /\ numread' = numread
    BY DEF Copy
  <2> HIDE DEF Writable
  <2>4. /\ datawrote' = (inputIdx' - numread') + numwritten'
        /\ skip' = numwritten' /\ numtowrite' >= 0
        /\ numwritten' <= numread' /\ totwrote' <= num'
        /\ Len(datOut') = totwrote'
    BY <1>1, <1>2, <1>3, <2>1, <2>2, <2>3
  <2> QED BY <1>2, <2>2, <2>3, <2>4 DEF Counters
<1>6. Ahead'
  BY <1>1, SameDiffbin DEF Copy
<1> QED BY <1>4, <1>5, <1>6

LEMMA FirstPartInv == ASSUME Inv, FirstPart PROVE Inv'
<1>1. numwritten = 0 /\ skip = 0
  BY DEF Inv, Counters, Places, FirstPart
<1>2. /\ Writable \in Nat
      /\ totwrote + Writable <= num
      /\ numwritten + Writable <= numread
      /\ \/ datawrote + Writable = Abs(diffs[d])
         \/ totwrote + Writable = num
         \/ numwritten + Writable = numread
  BY WritableLimits
<1>3. Copy(skip, Writable) /\ skip' = skip + Writable
  BY <1>1, <1>2 DEF FirstPart
<1>4. TypeOK' /\ Counters' /\ Ahead'
  BY <1>3, CopyInv DEF FirstPart
<1>5. Places'
  <2>1. /\ numwritten \in Nat /\ totwrote \in Nat /\ numread \in Nat /\ num \in Nat
        /\ num' = num /\ diffs' = diffs /\ numread' = numread /\ d' = d
    BY CaseType DEF Inv, TypeOK, num, diffs, FirstPart
  <2>2. /\ numwritten' = numwritten + Writable /\ totwrote' = totwrote + Writable
        /\ datawrote' = datawrote + Writable
    BY <1>3 DEF Copy
  <2>3. pc' = IF datawrote' = Abs(diffs[d]) /\ numwritten' # numread /\ totwrote' < num
              THEN "bin" ELSE "next"
    BY DEF FirstPart
  <2> HIDE DEF Writable
  <2>4. /\ pc' = "bin" => numwritten' < numread /\ totwrote' < num
                          /\ datawrote' = Abs(diffs[d])
        /\ pc' = "next" => totwrote' = num \/ numwritten' = numread
    BY <1>2, <2>1, <2>2, <2>3
  <2> QED BY <2>1, <2>3, <2>4 DEF Places
<1> QED BY <1>4, <1>5 DEF Inv, FirstPart

LEMMA RestPartInv == ASSUME Inv, RestPart PROVE Inv'
<1>1. /\ Writable \in Nat
      /\ totwrote + Writable <= num
      /\ numwritten + Writable <= numread
      /\ \/ datawrote + Writable = Abs(diffs[d])
         \/ totwrote + Writable = num
         \/ numwritten + Writable = numread
  BY WritableLimits
<1>2. Copy(skip, Writable) /\ skip' = skip + Writable
  BY DEF RestPart
<1>3. TypeOK' /\ Counters' /\ Ahead'
  BY <1>2, CopyInv DEF RestPart
<1>4. Places'
  <2>1. /\ numwritten \in Nat /\ totwrote \in Nat /\ numread \in Nat /\ num \in Nat
        /\ num' = num /\ diffs' = diffs /\ numread' = numread /\ d' = d
    BY CaseType DEF Inv, TypeOK, num, diffs, RestPart
  <2>2. /\ numwritten' = numwritten + Writable /\ totwrote' = totwrote + Writable
        /\ datawrote' = datawrote + Writable
    BY <1>2 DEF Copy
  <2>3. pc' = IF totwrote' # num /\ numwritten' < numread THEN "bin" ELSE "next"
    BY DEF RestPart
  <2> HIDE DEF Writable
  <2>4. /\ pc' = "bin" => numwritten' < numread /\ totwrote' < num
                          /\ datawrote' = Abs(diffs[d])
        /\ pc' = "next" => totwrote' = num \/ numwritten' = numread
    BY <1>1, <2>1, <2>2, <2>3
  <2> QED BY <2>1, <2>3, <2>4 DEF Places
<1> QED BY <1>3, <1>4 DEF Inv, RestPart

LEMMA AddBinInv == ASSUME Inv, AddBin PROVE Inv'
<1>1. /\ num \in Nat /\ totwrote \in Nat /\ totwrote < num /\ num' = num
      /\ worklen' = worklen /\ Len(datOut) = totwrote /\ start \in Int
      /\ datOut \in Seq(Values)
  BY CaseType DEF Inv, TypeOK, Counters, Places, AddBin, num, worklen, start, Values
<1>2. datOut' \in Seq(Values) /\ Len(datOut') = totwrote + 1
  BY <1>1 DEF AddBin, Average, Values
<1>3. TypeOK'
  BY <1>2 DEF Inv, TypeOK, AddBin, Values
<1>4. Counters'
  BY <1>1, <1>2 DEF Inv, TypeOK, Counters, AddBin
<1>5. Places'
  BY DEF AddBin, Places
<1>6. Ahead'
  BY NextDiffbin DEF Inv, TypeOK, AddBin
<1> QED BY <1>3, <1>4, <1>5, <1>6 DEF Inv, AddBin

LEMMA RemoveBinInv == ASSUME Inv, RemoveBin PROVE Inv'
<1>1. num' = num /\ worklen' = worklen /\ numwritten < numread
  BY DEF Inv, Places, RemoveBin, num, worklen
<1>2. TypeOK'
  BY DEF Inv, TypeOK, RemoveBin
<1>3. Counters'
  BY <1>1 DEF Inv, TypeOK, Counters, RemoveBin
<1>4. Places'
  BY DEF RemoveBin, Places
<1>5. Ahead'
  BY NextDiffbin DEF Inv, TypeOK, RemoveBin
<1> QED BY <1>2, <1>3, <1>4, <1>5 DEF Inv, RemoveBin

LEMMA NextBlockInv == ASSUME Inv, NextBlock PROVE Inv'
<1>1. num' = num /\ worklen' = worklen /\ diffs' = diffs
  BY DEF NextBlock, num, worklen, diffs
<1>2. TypeOK' /\ Counters' /\ Places'
  BY <1>1 DEF Inv, TypeOK, Counters, Places, NextBlock
<1>3. Ahead'
  BY DEF Inv, Ahead, Ends, NextBlock, diffs
<1> QED BY <1>2, <1>3 DEF Inv, NextBlock

LEMMA PadInv == ASSUME Inv, Pad PROVE Inv'
<1> DEFINE zeros == [i \in 1..(num - totwrote) |-> Zero]
<1>1. /\ num \in Nat /\ num' = num /\ worklen' = worklen /\ diffs' = diffs
      /\ num - totwrote \in Nat /\ Len(datOut) = totwrote /\ datOut \in Seq(Values)
  BY CaseType DEF Inv, TypeOK, Counters, Pad, num, worklen, diffs, Values
<1>2. zeros \in Seq(Values) /\ Len(zeros) = num - totwrote
  BY <1>1 DEF Zero, Values
<1>3. datOut' \in Seq(Values) /\ Len(datOut') = num
  BY <1>1, <1>2 DEF Inv, TypeOK, Pad
<1>4. TypeOK'
  BY <1>3 DEF Inv, TypeOK, Pad, Values
<1>5. Counters' /\ Places'
  BY <1>1, <1>3 DEF Inv, TypeOK, Counters, Places, Pad
<1>6. Ahead'
  BY DEF Inv, Ahead, Ends, Pad, diffs
<1> QED BY <1>4, <1>5, <1>6 DEF Inv, Pad

LEMMA StutterInv == ASSUME Inv, UNCHANGED vars PROVE Inv'
BY DEF Inv, TypeOK, Counters, Places, Ahead, Ends, vars, num, diffs, worklen

LEMMA NextInv == ASSUME Inv, [Next]_vars PROVE Inv'
BY ReadInv, FirstPartInv, AddBinInv, RemoveBinInv, RestPartInv, NextBlockInv,
   PadInv, StutterInv DEF Next

LEMMA InvSafe == ASSUME Inv PROVE MemorySafe
<1>1. PICK l \in Nat : Ends(case, l) /\ d \in 1..l
  BY DEF Inv, Ahead
<1>2. diffs \in Seq(Int) /\ l \in DOMAIN diffs
  BY <1>1, CaseType DEF Inv, Ends, diffs
<1>3. d \in DOMAIN diffs
  BY <1>1, <1>2
<1> QED BY <1>3 DEF Inv, TypeOK, Counters, MemorySafe

-----------------------------------------------------------------------------
(* Sequences that are put together piece by piece, as Merged and Found are. *)

LEMMA LeastNumber ==
  ASSUME NEW T \in SUBSET Nat, T # {}
  PROVE  \E x \in T : \A y \in T : x <= y
<1> DEFINE R == OpToRel(<, Nat)
<1>1. IsWellFoundedOn(R, Nat)
  BY NatLessThanWellFounded
<1>2. \A x, y \in Nat : y < x => <<y, x>> \in R
  BY DEF OpToRel
<1> HIDE DEF R
<1>3. PICK x \in T : \A y \in T : ~(<<y, x>> \in R)
  BY <1>1, WFMin
<1>4. \A y \in T : ~(y < x)
  BY <1>2, <1>3
<1> QED BY <1>3, <1>4

LEMMA SetInduction ==
  ASSUME NEW S, 0 \in S, \A n \in Nat : n \in S => n + 1 \in S
  PROVE  Nat \subseteq S
<1> SUFFICES ASSUME Nat \ S # {} PROVE FALSE
  OBVIOUS
<1>1. PICK x \in Nat \ S : \A y \in Nat \ S : x <= y
  BY LeastNumber
<1>2. x - 1 \in Nat
  BY <1>1
<1> QED BY <1>1, <1>2

\* g puts together the first n of the pieces.
Joins(g, pieces, n) ==
  /\ g[0] = << >>
  /\ \A i \in Nat : i < n => g[i + 1] = g[i] \o pieces[i]

LEMMA JoinedOnce ==
  ASSUME NEW pieces, NEW n \in Nat, NEW g, NEW h, Joins(g, pieces, n), Joins(h, pieces, n)
  PROVE  \A i \in 0..n : g[i] = h[i]
<1> DEFINE S == {i \in Nat : i <= n => g[i] = h[i]}
<1>1. 0 \in S
  BY DEF Joins
<1>2. ASSUME NEW i \in Nat, i \in S PROVE i + 1 \in S
  <2>1. SUFFICES ASSUME i + 1 <= n PROVE g[i + 1] = h[i + 1]
    OBVIOUS
  <2>2. i < n /\ g[i] = h[i]
    BY <1>2, <2>1
  <2> QED BY <2>2 DEF Joins
<1> HIDE DEF S
<1>3. Nat \subseteq S
  BY <1>1, <1>2, SetInduction
<1> QED BY <1>3 DEF S

LEMMA JoinedUpTo ==
  ASSUME NEW V, NEW pieces \in [Nat -> Seq(V)], NEW n \in Nat
  PROVE  \E g \in [0..n -> Seq(V)] : Joins(g, pieces, n)
<1> DEFINE S == {i \in Nat : \E g \in [0..i -> Seq(V)] : Joins(g, pieces, i)}
<1>1. 0 \in S
  <2>1. [i \in 0..0 |-> << >>] \in [0..0 -> Seq(V)]
    OBVIOUS
  <2>2. Joins([i \in 0..0 |-> << >>], pieces, 0)
    BY DEF Joins
  <2> QED BY <2>1, <2>2
<1>2. ASSUME NEW m \in Nat, m \in S PROVE m + 1 \in S
  <2>1. PICK g \in [0..m -> Seq(V)] : Joins(g, pieces, m)
    BY <1>2
  <2> DEFINE h == [i \in 0..(m + 1) |-> IF i <= m THEN g[i] ELSE g[m] \o pieces[m]]
  <2>2. g[m] \o pieces[m] \in Seq(V)
    <3>1. g[m] \in Seq(V) /\ pieces[m] \in Seq(V)
      OBVIOUS
    <3> QED BY <3>1
  <2>3. h \in [0..(m + 1) -> Seq(V)]
    BY <2>2
  <2>4. Joins(h, pieces, m + 1)
    <3>1. h[0] = << >>
      BY <2>1 DEF Joins
    <3>2. ASSUME NEW i \in Nat, i < m PROVE h[i + 1] = h[i] \o pieces[i]
      <4>1. g[i + 1] = g[i] \o pieces[i]
        BY <2>1, <3>2 DEF Joins
      <4>2. i <= m /\ i + 1 <= m /\ i \in 0..(m + 1) /\ i + 1 \in 0..(m + 1)
        BY <3>2
      <4>3. h[i] = g[i] /\ h[i + 1] = g[i + 1]
        BY <4>2
      <4> QED BY <4>1, <4>3
    <3>3. h[m + 1] = h[m] \o pieces[m]
      <4>1. m \in 0..(m + 1) /\ m + 1 \in 0..(m + 1) /\ m <= m /\ ~(m + 1 <= m)
        OBVIOUS
      <4>2. h[m] = g[m] /\ h[m + 1] = g[m] \o pieces[m]
        BY <4>1
      <4> QED BY <4>2
    <3> HIDE DEF h
    <3>4. ASSUME NEW i \in Nat, i < m + 1 PROVE h[i + 1] = h[i] \o pieces[i]
      <4>1. CASE i < m
        BY <3>2, <4>1
      <4>2. CASE i = m
        BY <3>3, <4>2
      <4>3. i < m \/ i = m
        BY <3>4
      <4> QED BY <4>1, <4>2, <4>3, Zenon
    <3> QED BY <3>1, <3>4 DEF Joins
  <2> HIDE DEF h
  <2> QED BY <2>3, <2>4
<1> HIDE DEF S
<1>3. Nat \subseteq S
  BY <1>1, <1>2, SetInduction
<1> QED BY <1>3 DEF S

LEMMA JoinedAll ==
  ASSUME NEW V, NEW pieces \in [Nat -> Seq(V)]
  PROVE  \E g \in [Nat -> Seq(V)] :
           g[0] = << >> /\ \A i \in Nat : g[i + 1] = g[i] \o pieces[i]
<1> DEFINE Part(n) == CHOOSE g \in [0..n -> Seq(V)] : Joins(g, pieces, n)
           all == [n \in Nat |-> Part(n)[n]]
<1>1. \A n \in Nat : Part(n) \in [0..n -> Seq(V)] /\ Joins(Part(n), pieces, n)
  BY JoinedUpTo, Zenon
<1> HIDE DEF Part
<1>2. all \in [Nat -> Seq(V)]
  BY <1>1
<1>3. all[0] = << >>
  BY <1>1 DEF Joins
<1>4. ASSUME NEW i \in Nat PROVE all[i + 1] = all[i] \o pieces[i]
  <2>0. i + 1 \in Nat /\ i < i + 1
    OBVIOUS
  <2>1. Joins(Part(i), pieces, i) /\ Joins(Part(i + 1), pieces, i + 1)
    BY <1>1, <2>0
  <2>2. Joins(Part(i + 1), pieces, i)
    <3>1. \A j \in Nat : j < i => j < i + 1
      OBVIOUS
    <3> QED BY <2>1, <3>1 DEF Joins
  <2>3. Part(i)[i] = Part(i + 1)[i]
    <3> DEFINE g == Part(i)
               h == Part(i + 1)
    <3>1. Joins(g, pieces, i) /\ Joins(h, pieces, i)
      BY <2>1, <2>2
    <3> HIDE DEF g, h
    <3>2. \A j \in 0..i : g[j] = h[j]
      BY <3>1, JoinedOnce
    <3>3. g[i] = h[i]
      BY <3>2
    <3> QED BY <3>3 DEF g, h
  <2>4. Part(i + 1)[i + 1] = Part(i + 1)[i] \o pieces[i]
    BY <2>0, <2>1 DEF Joins
  <2> QED BY <2>0, <2>3, <2>4
<1> QED BY <1>2, <1>3, <1>4

-----------------------------------------------------------------------------
(* The constructor: diffbins and the room made for them.                   *)

B == INSTANCE BaryBins

\* A drift that starts at nothing and never turns round.
OneWay(drift, n) ==
  /\ drift \in [0..(n - 1) -> Int] /\ drift[0] = 0
  /\ \/ \A i \in 1..(n - 1) : drift[i - 1] <= drift[i]
     \/ \A i \in 1..(n - 1) : drift[i - 1] >= drift[i]

\* The bin of a drift.
Bin(x) == B!Nearest(x, B!Unit)

LEMMA BinIs ==
  ASSUME NEW x \in Int
  PROVE  /\ Bin(x) \in Int
         /\ x >= 0 => Bin(x) >= 0 /\ 4 * Bin(x) <= x + 2 /\ x + 2 < 4 * Bin(x) + 4
         /\ x <= 0 => Bin(x) <= 0 /\ 4 * (-Bin(x)) <= (-x) + 2 /\ (-x) + 2 < 4 * (-Bin(x)) + 4
<1>1. PICK n \in Nat : n = IF x < 0 THEN -x ELSE x
  OBVIOUS
<1>2. (2 * n + 4) \div 8 \in Nat /\ 8 * ((2 * n + 4) \div 8) <= 2 * n + 4
      /\ 2 * n + 4 < 8 * ((2 * n + 4) \div 8) + 8
  BY <1>1, Z3
<1>3. PICK m \in Nat : m = (2 * n + 4) \div 8
  BY <1>2
<1>4. Bin(x) = IF x < 0 THEN -m ELSE m
  <2>1. B!Abs(x) = n /\ B!Abs(B!Unit) = 4 /\ ~(B!Unit < 0)
    BY <1>1 DEF B!Abs, B!Unit
  <2>2. Bin(x) = (IF x < 0 THEN -1 ELSE 1) * 1 * m
    BY <1>3, <2>1 DEF Bin, B!Nearest
  <2> QED BY <2>2
<1>5. x = 0 => m = 0
  BY <1>1, <1>2, <1>3
<1> QED BY <1>1, <1>2, <1>3, <1>4, <1>5

\* Between two points no more samples are found than bins are crossed.
LEMMA CrossingsAre ==
  ASSUME NEW p \in Int, NEW x \in Int, (0 <= p /\ p <= x) \/ (x <= p /\ p <= 0), Bin(p) # Bin(x)
  PROVE  /\ B!NumCrossings(Bin(p), Bin(x), x) \in Nat
         /\ B!NumCrossings(Bin(p), Bin(x), x) <= Abs(Bin(x)) - Abs(Bin(p))
<1>1. PICK old \in Int, cur \in Int : old = Bin(p) /\ cur = Bin(x)
  BY BinIs
<1> DEFINE past == {j \in 0..(B!Abs(old) + B!Abs(cur) + 1) :
                      B!Abs(B!Crossing(old, cur, j)) >= B!Abs(x)}
<1>2. PICK n \in Nat : n = Abs(cur) - Abs(old) /\ n \in past
  <2>1. CASE 0 <= p /\ p <= x
    <3>1. old >= 0 /\ cur > old /\ x >= 0 /\ x + 2 < 4 * cur + 4
      <4>1. x >= 0
        BY <2>1
      <4>2. old >= 0 /\ 4 * old <= p + 2 /\ x + 2 < 4 * cur + 4
        BY <1>1, <2>1, <4>1, BinIs
      <4>3. old # cur
        BY <1>1
      <4> QED BY <2>1, <4>1, <4>2, <4>3
    <3>2. B!Crossing(old, cur, cur - old) = 4 * cur + 2
      BY <3>1 DEF B!Crossing, B!Sign, B!Unit
    <3>3. B!Abs(old) = old /\ B!Abs(cur) = cur /\ B!Abs(x) = x /\ Abs(old) = old /\ Abs(cur) = cur
          /\ B!Abs(4 * cur + 2) = 4 * cur + 2
      BY <3>1 DEF B!Abs, Abs
    <3>4. cur - old \in past
      BY <3>1, <3>2, <3>3
    <3> QED BY <3>1, <3>3, <3>4
  <2>2. CASE x <= p /\ p <= 0
    <3>1. old <= 0 /\ cur < old /\ x <= 0 /\ (-x) + 2 < 4 * (-cur) + 4
      <4>1. x <= 0
        BY <2>2
      <4>2. old <= 0 /\ 4 * (-old) <= (-p) + 2 /\ (-x) + 2 < 4 * (-cur) + 4
        BY <1>1, <2>2, <4>1, BinIs
      <4>3. old # cur
        BY <1>1
      <4> QED BY <2>2, <4>1, <4>2, <4>3
    <3>2. B!Crossing(old, cur, old - cur) = 4 * cur - 2
      BY <3>1 DEF B!Crossing, B!Sign, B!Unit
    <3>3. B!Abs(old) = -old /\ B!Abs(cur) = -cur /\ B!Abs(x) = -x /\ Abs(old) = -old /\ Abs(cur) = -cur
          /\ B!Abs(4 * cur - 2) = 2 - 4 * cur
      BY <3>1 DEF B!Abs, Abs
    <3>4. old - cur \in past
      BY <3>1, <3>2, <3>3
    <3> QED BY <3>1, <3>3, <3>4
  <2> QED BY <2>1, <2>2
<1>3. past \subseteq Nat
  OBVIOUS
<1>4. B!NumCrossings(old, cur, x) = CHOOSE j \in past : \A k \in past : j <= k
  BY DEF B!NumCrossings
<1> HIDE DEF past
<1>5. \E j \in past : \A k \in past : j <= k
  BY <1>2, <1>3, LeastNumber
<1>6. B!NumCrossings(old, cur, x) \in past /\ B!NumCrossings(old, cur, x) <= n
  BY <1>2, <1>4, <1>5
<1> QED BY <1>1, <1>2, <1>3, <1>6

\* A drift stays on its side of nothing.
LEMMA OneSide ==
  ASSUME NEW n \in Nat, NEW drift, OneWay(drift, n)
  PROVE  \A i \in 1..(n - 1) : \/ 0 <= drift[i - 1] /\ drift[i - 1] <= drift[i]
                               \/ drift[i] <= drift[i - 1] /\ drift[i - 1] <= 0
<1>0. drift \in [0..(n - 1) -> Int] /\ drift[0] = 0
  BY DEF OneWay
<1>1. CASE \A i \in 1..(n - 1) : drift[i - 1] <= drift[i]
  <2> DEFINE S == {i \in Nat : i < n => 0 <= drift[i]}
  <2>1. 0 \in S
    BY <1>0
  <2>2. ASSUME NEW i \in Nat, i \in S PROVE i + 1 \in S
    <3>1. SUFFICES ASSUME i + 1 < n PROVE 0 <= drift[i + 1]
      OBVIOUS
    <3>2. i + 1 \in 1..(n - 1) /\ i \in 0..(n - 1) /\ i + 1 \in 0..(n - 1) /\ (i + 1) - 1 = i /\ i < n
      BY <3>1
    <3>3. drift[i] <= drift[i + 1] /\ 0 <= drift[i]
      BY <1>1, <2>2, <3>2
    <3> QED BY <1>0, <3>2, <3>3
  <2> HIDE DEF S
  <2>3. Nat \subseteq S
    BY <2>1, <2>2, SetInduction
  <2>4. \A i \in 1..(n - 1) : i - 1 \in Nat /\ i - 1 < n
    OBVIOUS
  <2> QED BY <1>1, <2>3, <2>4 DEF S
<1>2. CASE \A i \in 1..(n - 1) : drift[i - 1] >= drift[i]
  <2> DEFINE S == {i \in Nat : i < n => 0 >= drift[i]}
  <2>1. 0 \in S
    BY <1>0
  <2>2. ASSUME NEW i \in Nat, i \in S PROVE i + 1 \in S
    <3>1. SUFFICES ASSUME i + 1 < n PROVE 0 >= drift[i + 1]
      OBVIOUS
    <3>2. i + 1 \in 1..(n - 1) /\ i \in 0..(n - 1) /\ i + 1 \in 0..(n - 1) /\ (i + 1) - 1 = i /\ i < n
      BY <3>1
    <3>3. drift[i] >= drift[i + 1] /\ 0 >= drift[i]
      BY <1>2, <2>2, <3>2
    <3> QED BY <1>0, <3>2, <3>3
  <2> HIDE DEF S
  <2>3. Nat \subseteq S
    BY <2>1, <2>2, SetInduction
  <2>4. ASSUME NEW i \in 1..(n - 1) PROVE drift[i] <= drift[i - 1] /\ drift[i - 1] <= 0
    <3>1. i - 1 \in Nat /\ i - 1 < n /\ i - 1 \in 0..(n - 1) /\ i \in 0..(n - 1)
      OBVIOUS
    <3>2. 0 >= drift[i - 1] /\ drift[i - 1] >= drift[i] /\ drift[i] \in Int /\ drift[i - 1] \in Int
      BY <1>0, <1>2, <2>3, <3>1 DEF S
    <3> QED BY <3>2
  <2> QED BY <2>4
<1> QED BY <1>1, <1>2 DEF OneWay

LEMMA BetweenIs ==
  ASSUME NEW n \in Nat, NEW drift, OneWay(drift, n), NEW step, NEW i \in 1..(n - 1)
  PROVE  \E N \in Nat :
           /\ N <= Abs(Bin(drift[i])) - Abs(Bin(drift[i - 1]))
           /\ \E e : B!Between(drift, step, i) = [j \in 1..N |-> e[j]]
<1> DEFINE p == drift[i - 1]
           x == drift[i]
           old == Bin(p)
           cur == Bin(x)
<1>1. p \in Int /\ x \in Int /\ ((0 <= p /\ p <= x) \/ (x <= p /\ p <= 0))
  <2>1. i - 1 \in 0..(n - 1) /\ i \in 0..(n - 1) /\ drift \in [0..(n - 1) -> Int]
    BY DEF OneWay
  <2>2. p \in Int /\ x \in Int
    BY <2>1
  <2>3. (0 <= p /\ p <= x) \/ (x <= p /\ p <= 0)
    BY OneSide
  <2> QED BY <2>2, <2>3
<1>2. B!Between(drift, step, i) =
        IF cur = old THEN << >>
        ELSE [j \in 1..B!NumCrossings(old, cur, x) |->
                B!SampleOf(drift, step, i, cur, B!Crossing(old, cur, j - 1))]
  BY DEF B!Between, Bin
<1> HIDE DEF p, x
<1>3. CASE cur = old
  <2>0. cur \in Int /\ old \in Int
    BY <1>1, BinIs
  <2>1. Abs(cur) - Abs(old) = 0
    <3>1. Abs(cur) = Abs(old) /\ Abs(cur) \in Nat
      BY <1>3, <2>0, AbsNat
    <3> QED BY <3>1
  <2>2. << >> = [j \in 1..0 |-> << >>[j]]
    OBVIOUS
  <2> QED BY <1>2, <1>3, <2>1, <2>2 DEF p, x
<1>4. CASE cur # old
  <2>1. PICK N \in Nat : N = B!NumCrossings(old, cur, x) /\ N <= Abs(cur) - Abs(old)
    BY <1>1, <1>4, CrossingsAre
  <2> DEFINE e == [j \in 1..N |-> B!SampleOf(drift, step, i, cur, B!Crossing(old, cur, j - 1))]
  <2>2. B!Between(drift, step, i) = e
    BY <1>2, <1>4, <2>1
  <2>3. e = [j \in 1..N |-> e[j]]
    OBVIOUS
  <2> HIDE DEF e
  <2> QED BY <2>1, <2>2, <2>3 DEF p, x
<1> QED BY <1>3, <1>4

LEMMA LenJoined ==
  ASSUME NEW V, NEW s \in Seq(V), NEW t \in Seq(V)
  PROVE  s \o t \in Seq(V) /\ Len(s \o t) = Len(s) + Len(t) /\ Len(s) \in Nat /\ Len(t) \in Nat
OBVIOUS

\* Up to a point no more samples are found than its drift has bins.
LEMMA FoundIs ==
  ASSUME NEW n \in Nat \ {0}, NEW drift, OneWay(drift, n), NEW step
  PROVE  \E V : /\ B!Found(drift, step, n) \in Seq(V)
                /\ Len(B!Found(drift, step, n)) <= Abs(Bin(drift[n - 1]))
<1> DEFINE between == [i \in Nat |-> IF i + 1 \in 1..(n - 1) THEN B!Between(drift, step, i + 1)
                                     ELSE << >>]
           V == UNION {{between[i][j] : j \in Nat} : i \in Nat}
           upTo[i \in 0..(n - 1)] ==
             IF i = 0 THEN << >> ELSE upTo[i - 1] \o B!Between(drift, step, i)
<1>0. \A k \in 1..(n - 1) :
        \E N \in Nat :
           /\ N <= Abs(Bin(drift[k])) - Abs(Bin(drift[k - 1]))
           /\ \E e : B!Between(drift, step, k) = [j \in 1..N |-> e[j]]
  <2>1. n \in Nat
    OBVIOUS
  <2> TAKE k \in 1..(n - 1)
  <2> QED BY <2>1, BetweenIs
<1>1. ASSUME NEW i \in Nat
      PROVE  /\ between[i] \in Seq(V)
             /\ i + 1 < n => Len(between[i]) <= Abs(Bin(drift[i + 1])) - Abs(Bin(drift[i]))
  <2>1. CASE i + 1 < n
    <3>1. i + 1 \in 1..(n - 1) /\ (i + 1) - 1 = i
      BY <2>1
    <3>2. PICK N \in Nat :
            /\ N <= Abs(Bin(drift[i + 1])) - Abs(Bin(drift[(i + 1) - 1]))
            /\ \E e : B!Between(drift, step, i + 1) = [j \in 1..N |-> e[j]]
      BY <3>1, <1>0, Zenon
    <3>3. PICK e : B!Between(drift, step, i + 1) = [j \in 1..N |-> e[j]]
      BY <3>2
    <3>4. between[i] = [j \in 1..N |-> e[j]]
      BY <3>1, <3>3
    <3> HIDE DEF between
    <3>5. \A j \in 1..N : e[j] = between[i][j] /\ j \in Nat
      BY <3>4
    <3>6. \A j \in 1..N : e[j] \in V
      <4> TAKE j \in 1..N
      <4>1. e[j] = between[i][j] /\ j \in Nat
        BY <3>5
      <4>2. between[i][j] \in {between[i][l] : l \in Nat}
        BY <4>1
      <4> QED BY <4>1, <4>2
    <3> HIDE DEF V
    <3>7. [j \in 1..N |-> e[j]] \in Seq(V) /\ Len([j \in 1..N |-> e[j]]) = N
      BY <3>6
    <3> QED BY <3>1, <3>2, <3>4, <3>7
  <2>2. CASE ~(i + 1 < n)
    <3>1. between[i] = << >>
      BY <2>2
    <3> HIDE DEF V, between
    <3> QED BY <2>2, <3>1
  <2> QED BY <2>1, <2>2
<1>2. \A i \in Nat : i + 1 < n => between[i] = B!Between(drift, step, i + 1)
  OBVIOUS
<1> HIDE DEF between, V
<1>3. between \in [Nat -> Seq(V)]
  <2>1. between = [i \in Nat |-> between[i]]
    BY DEF between
  <2> QED BY <1>1, <2>1
<1>4. n - 1 \in Nat
  OBVIOUS
<1>5. PICK g \in [0..(n - 1) -> Seq(V)] : Joins(g, between, n - 1)
  BY <1>3, <1>4, JoinedUpTo
<1>6. g = [i \in 0..(n - 1) |-> IF i = 0 THEN << >> ELSE g[i - 1] \o B!Between(drift, step, i)]
  <2>1. ASSUME NEW i \in 0..(n - 1), i # 0 PROVE g[i] = g[i - 1] \o B!Between(drift, step, i)
    <3>1. i - 1 \in Nat /\ i - 1 < n - 1 /\ (i - 1) + 1 = i /\ i < n
      BY <2>1
    <3>2. g[(i - 1) + 1] = g[i - 1] \o between[i - 1]
      BY <1>5, <3>1 DEF Joins
    <3>3. between[i - 1] = B!Between(drift, step, (i - 1) + 1)
      BY <1>2, <3>1
    <3> QED BY <3>1, <3>2, <3>3
  <2>2. g[0] = << >>
    BY <1>5 DEF Joins
  <2>3. g = [i \in 0..(n - 1) |-> g[i]]
    BY <1>5
  <2>4. \A i \in 0..(n - 1) :
          g[i] = IF i = 0 THEN << >> ELSE g[i - 1] \o B!Between(drift, step, i)
    BY <2>1, <2>2
  <2> QED BY <2>3, <2>4, Zenon
<1>7. upTo = [i \in 0..(n - 1) |-> IF i = 0 THEN << >> ELSE upTo[i - 1] \o B!Between(drift, step, i)]
  BY <1>6
<1>8. B!Found(drift, step, n) = upTo[n - 1]
  BY DEF B!Found
<1> HIDE DEF upTo
<1> DEFINE S == {i \in Nat : i < n => upTo[i] \in Seq(V) /\ Len(upTo[i]) <= Abs(Bin(drift[i]))}
<1>9. 0 \in S
  <2>1. 0 \in 0..(n - 1)
    BY <1>4
  <2>2. upTo[0] = << >>
    BY <1>7, <2>1
  <2>3. drift[0] \in Int
    BY DEF OneWay
  <2>4. Abs(Bin(drift[0])) \in Nat
    BY <2>3, BinIs, AbsNat
  <2> QED BY <2>2, <2>4
<1>10. ASSUME NEW i \in Nat, i \in S PROVE i + 1 \in S
  <2>1. SUFFICES ASSUME i + 1 < n
                 PROVE  upTo[i + 1] \in Seq(V) /\ Len(upTo[i + 1]) <= Abs(Bin(drift[i + 1]))
    OBVIOUS
  <2>2. i \in 0..(n - 1) /\ i + 1 \in 0..(n - 1) /\ (i + 1) - 1 = i /\ i + 1 # 0 /\ i < n
    BY <2>1
  <2>3. upTo[i + 1] = upTo[i] \o between[i]
    BY <1>2, <1>7, <2>1, <2>2
  <2>4. upTo[i] \in Seq(V) /\ Len(upTo[i]) <= Abs(Bin(drift[i]))
    BY <1>10, <2>2
  <2>5. between[i] \in Seq(V) /\ Len(between[i]) <= Abs(Bin(drift[i + 1])) - Abs(Bin(drift[i]))
    BY <1>1, <2>1
  <2>6. drift[i] \in Int /\ drift[i + 1] \in Int
    BY <2>2 DEF OneWay
  <2>7. Abs(Bin(drift[i])) \in Nat /\ Abs(Bin(drift[i + 1])) \in Nat
    BY <2>6, BinIs, AbsNat
  <2>8. upTo[i + 1] \in Seq(V) /\ Len(upTo[i + 1]) = Len(upTo[i]) + Len(between[i])
        /\ Len(upTo[i]) \in Nat /\ Len(between[i]) \in Nat
    BY <2>3, <2>4, <2>5, LenJoined
  <2>9. \A a, b, x, y \in Nat : x <= a /\ y <= b - a => x + y <= b
    OBVIOUS
  <2>10. Len(upTo[i]) + Len(between[i]) <= Abs(Bin(drift[i + 1]))
    BY <2>4, <2>5, <2>7, <2>8, <2>9
  <2> QED BY <2>8, <2>10
<1> HIDE DEF S
<1>11. n - 1 \in S
  BY <1>4, <1>9, <1>10, SetInduction
<1>12. upTo[n - 1] \in Seq(V) /\ Len(upTo[n - 1]) <= Abs(Bin(drift[n - 1]))
  BY <1>4, <1>11 DEF S
<1> QED BY <1>8, <1>12

LEMMA PointsNat ==
  ASSUME NEW a \in Nat, NEW b \in Nat \ {0}
  PROVE  B!NumPoints(a, b) \in Nat \ {0}
<1>1. 11 * a + 65 * b \in Nat /\ 10 * b \in Nat \ {0} /\ 10 * b <= 11 * a + 65 * b
  OBVIOUS
<1>2. ASSUME NEW x \in Nat, NEW y \in Nat \ {0}, y <= x PROVE x \div y \in Nat \ {0}
  <2>1. x \div y \in Nat /\ x < y * (x \div y) + y
    BY Z3
  <2>2. x \div y # 0
    BY <1>2, <2>1
  <2> QED BY <2>1, <2>2
<1> QED BY <1>1, <1>2 DEF B!NumPoints

-----------------------------------------------------------------------------
(* Merged, sample by sample.                                               *)

AverageAt(s) == Average((s \div worklen) * worklen)
Added(s) == \E k \in DOMAIN diffs : diffs[k] = s /\ s > 0
Removed(s) == \E k \in DOMAIN diffs : diffs[k] = -s

LEMMA JoinedInTurn ==
  ASSUME NEW V, NEW a \in Seq(V), NEW b \in Seq(V), NEW c \in Seq(V)
  PROVE  a \o (b \o c) = (a \o b) \o c
OBVIOUS

LEMMA JoinedTwice == \A a, b, c \in Seq(Values) : a \o (b \o c) = (a \o b) \o c
BY JoinedInTurn

LEMMA OneLonger ==
  ASSUME NEW V, NEW s \in Seq(V), NEW x \in V
  PROVE  s \o <<x>> \in Seq(V) /\ Len(s \o <<x>>) = Len(s) + 1 /\ Append(s, x) = s \o <<x>>
OBVIOUS

LEMMA DivPositive ==
  ASSUME NEW x \in Nat, NEW y \in Nat \ {0}, y <= x
  PROVE  x \div y \in Nat \ {0}
<1>1. x \div y \in Nat /\ x < y * (x \div y) + y
  BY Z3
<1>2. x \div y # 0
  BY <1>1
<1> QED BY <1>1, <1>2

LEMMA WorklenPositive ==
  ASSUME case \in Cases, num >= Block
  PROVE  worklen \in Nat \ {0}
<1>1. /\ Block \in Nat \ {0} /\ MaxBlocks \in Nat \ {0} /\ num \in Nat
  BY BarycenterAssumption, CaseType DEF num
<1>2. MaxBlocks * Block \in Nat /\ MaxBlocks * Block >= Block
  <2>1. \A x, y \in Nat \ {0} : x * y \in Nat /\ x * y >= y
    BY Z3
  <2> QED BY <1>1, <2>1
<1>3. PICK n \in Nat : n = LesserOf(MaxBlocks * Block, num) /\ n >= Block
  BY <1>1, <1>2 DEF LesserOf
<1>4. n \div Block \in Nat \ {0}
  BY <1>1, <1>3, DivPositive
<1>5. \A x, y \in Nat \ {0} : x * y \in Nat \ {0}
  BY Z3
<1>6. worklen = (n \div Block) * Block
  BY <1>3 DEF worklen
<1> QED BY <1>1, <1>4, <1>5, <1>6

LEMMA PartsAre ==
  ASSUME case \in Cases, num >= Block, NEW s \in Nat
  PROVE  /\ AverageAt(s) \in Values /\ In(s) \in Values
         /\ (IF Added(s) THEN <<AverageAt(s)>> ELSE << >>) \in Seq(Values)
         /\ (IF Removed(s) THEN << >> ELSE <<In(s)>>) \in Seq(Values)
<1>1. PICK w \in Nat \ {0} : w = worklen
  BY WorklenPositive
<1>2. s \div w \in Nat
  BY DivNat
<1>3. (s \div w) * w \in Int
  BY <1>2
<1>4. AverageAt(s) \in Values /\ In(s) \in Values
  BY <1>1, <1>3 DEF AverageAt, Average, In, Values
<1>5. <<AverageAt(s)>> \in Seq(Values) /\ <<In(s)>> \in Seq(Values) /\ << >> \in Seq(Values)
  BY <1>4
<1> QED BY <1>4, <1>5

LEMMA MergedIs ==
  ASSUME case \in Cases, num >= Block
  PROVE  /\ Merged \in [Nat -> Seq(Values)]
         /\ Merged[0] = << >>
         /\ \A s \in Nat :
              Merged[s + 1] = (Merged[s] \o (IF Added(s) THEN <<AverageAt(s)>> ELSE << >>))
                                \o (IF Removed(s) THEN << >> ELSE <<In(s)>>)
<1> DEFINE first == [s \in Nat |-> IF Added(s) THEN <<AverageAt(s)>> ELSE << >>]
           second == [s \in Nat |-> IF Removed(s) THEN << >> ELSE <<In(s)>>]
           pieces == [s \in Nat |-> first[s] \o second[s]]
           Body(g) == [i \in Nat |->
                         IF i = 0 THEN << >> ELSE (g[i - 1] \o first[i - 1]) \o second[i - 1]]
<1>1. \A s \in Nat : first[s] \in Seq(Values) /\ second[s] \in Seq(Values)
  BY PartsAre
<1>2. Merged = CHOOSE g : g = Body(g)
  <2>1. \A i \in Nat : i # 0 => i - 1 \in Nat
    OBVIOUS
  <2>2. \A g : Body(g) =
          [i \in Nat |->
             IF i = 0 THEN << >>
             ELSE LET s == i - 1 IN
                  g[s]
                    \o (IF \E k \in DOMAIN diffs : diffs[k] = s /\ s > 0
                        THEN <<Average((s \div worklen) * worklen)>> ELSE << >>)
                    \o (IF \E k \in DOMAIN diffs : diffs[k] = -s THEN << >> ELSE <<In(s)>>)]
    BY <2>1 DEF Added, Removed, AverageAt
  <2> HIDE DEF Body
  <2> QED BY <2>2 DEF Merged
<1> HIDE DEF first, second
<1>3. pieces \in [Nat -> Seq(Values)]
  BY <1>1
<1>4. PICK g \in [Nat -> Seq(Values)] :
        g[0] = << >> /\ \A i \in Nat : g[i + 1] = g[i] \o pieces[i]
  <2> HIDE DEF pieces
  <2> QED BY <1>3, JoinedAll
<1>5. g = Body(g)
  <2>1. ASSUME NEW i \in Nat, i # 0
        PROVE  g[i] = (g[i - 1] \o first[i - 1]) \o second[i - 1]
    <3>1. PICK s \in Nat : s = i - 1
      BY <2>1
    <3>2. g[s + 1] = g[s] \o (first[s] \o second[s])
      BY <1>4
    <3>3. g[s] \in Seq(Values) /\ first[s] \in Seq(Values) /\ second[s] \in Seq(Values)
      BY <1>1, <1>4
    <3>4. g[s + 1] = (g[s] \o first[s]) \o second[s]
      <4> DEFINE a == g[s]
                 b == first[s]
                 c == second[s]
      <4>1. a \in Seq(Values) /\ b \in Seq(Values) /\ c \in Seq(Values)
        BY <3>3
      <4>2. g[s + 1] = a \o (b \o c)
        BY <3>2
      <4> HIDE DEF a, b, c
      <4>3. a \o (b \o c) = (a \o b) \o c
        BY <4>1, JoinedTwice, Zenon
      <4> QED BY <4>2, <4>3 DEF a, b, c
    <3>5. s + 1 = i
      BY <3>1
    <3> QED BY <3>1, <3>4, <3>5
  <2>2. g = [i \in Nat |-> g[i]]
    BY <1>4
  <2>3. \A i \in Nat : g[i] = IF i = 0 THEN << >> ELSE (g[i - 1] \o first[i - 1]) \o second[i - 1]
    BY <1>4, <2>1
  <2> QED BY <2>2, <2>3, Zenon
<1>6. Merged = Body(Merged)
  <2> HIDE DEF Body
  <2> QED BY <1>2, <1>5, Zenon
<1>7. Merged[0] = << >>
  BY <1>6
<1>8. ASSUME NEW s \in Nat
      PROVE  Merged[s + 1] = (Merged[s] \o first[s]) \o second[s]
  <2>1. s + 1 \in Nat /\ s + 1 # 0 /\ (s + 1) - 1 = s
    OBVIOUS
  <2>2. Merged[s + 1] = Body(Merged)[s + 1]
    BY <1>6, Zenon
  <2> QED BY <2>1, <2>2
<1> HIDE DEF Body
<1> DEFINE S == {s \in Nat : Merged[s] \in Seq(Values)}
<1>9. 0 \in S
  <2>1. << >> \in Seq(Values)
    OBVIOUS
  <2> QED BY <1>7, <2>1
<1>10. ASSUME NEW s \in Nat, s \in S PROVE s + 1 \in S
  <2>1. Merged[s] \in Seq(Values) /\ first[s] \in Seq(Values) /\ second[s] \in Seq(Values)
    BY <1>1, <1>10
  <2>2. (Merged[s] \o first[s]) \o second[s] \in Seq(Values)
    BY <2>1
  <2>3. Merged[s + 1] = (Merged[s] \o first[s]) \o second[s]
    BY <1>8
  <2>4. Merged[s + 1] \in Seq(Values) /\ s + 1 \in Nat
    <3>1. s + 1 \in Nat
      OBVIOUS
    <3> QED BY <2>2, <2>3, <3>1, Zenon
  <2> HIDE DEF Values
  <2> QED BY <2>4, Zenon
<1> HIDE DEF S
<1>11. \A s \in Nat : Merged[s] \in Seq(Values)
  BY <1>9, <1>10, SetInduction DEF S
<1>12. Merged = [i \in Nat |-> Merged[i]]
  BY <1>6 DEF Body
<1>13. Merged \in [Nat -> Seq(Values)]
  BY <1>11, <1>12
<1>14. \A s \in Nat :
         /\ first[s] = IF Added(s) THEN <<AverageAt(s)>> ELSE << >>
         /\ second[s] = IF Removed(s) THEN << >> ELSE <<In(s)>>
  BY DEF first, second
<1>15. \A s \in Nat :
         Merged[s + 1] = (Merged[s] \o (IF Added(s) THEN <<AverageAt(s)>> ELSE << >>))
                           \o (IF Removed(s) THEN << >> ELSE <<In(s)>>)
  <2> TAKE s \in Nat
  <2>1. Merged[s + 1] = (Merged[s] \o first[s]) \o second[s]
    BY <1>8
  <2> QED BY <1>14, <2>1, Zenon
<1> QED BY <1>7, <1>13, <1>15

LEMMA OneMore ==
  ASSUME NEW V, NEW m \in Nat, NEW f, \A i \in 1..(m + 1) : f[i] \in V
  PROVE  [i \in 1..(m + 1) |-> f[i]] = [i \in 1..m |-> f[i]] \o <<f[m + 1]>>
<1> DEFINE r == [i \in 1..m |-> f[i]]
<1>1. r \in Seq(V) /\ Len(r) = m /\ f[m + 1] \in V
  OBVIOUS
<1>2. r \o <<f[m + 1]>> \in Seq(V) /\ Len(r \o <<f[m + 1]>>) = m + 1
  BY <1>1
<1>3. ASSUME NEW i \in 1..(m + 1) PROVE (r \o <<f[m + 1]>>)[i] = f[i]
  BY <1>1
<1> HIDE DEF r
<1>4. r \o <<f[m + 1]>> = [i \in 1..(m + 1) |-> (r \o <<f[m + 1]>>)[i]]
  BY <1>2
<1> QED BY <1>3, <1>4 DEF r

LEMMA RunAfter ==
  ASSUME NEW M \in [Nat -> Seq(Values)], NEW base \in Seq(Values), NEW a \in Nat, NEW n \in Nat \ {0},
         M[a + 1] = base \o <<In(a)>>,
         \A t \in Nat : a < t /\ t < a + n => M[t + 1] = M[t] \o <<In(t)>>
  PROVE  M[a + n] = base \o [i \in 1..n |-> In(a + i - 1)]
<1> DEFINE Run(m) == [i \in 1..m |-> In(a + i - 1)]
           S == {m \in Nat : m < n => M[a + m + 1] = base \o Run(m + 1)}
<1>1. \A t \in Nat : In(t) \in Values
  BY DEF In, Values
<1>2. 0 \in S
  <2>1. Run(1) = <<In(a)>>
    <3>1. a + 1 - 1 = a
      OBVIOUS
    <3> QED BY <3>1
  <2>2. a + 0 + 1 = a + 1 /\ 0 + 1 = 1
    OBVIOUS
  <2> HIDE DEF Run
  <2> QED BY <2>1, <2>2
<1>3. ASSUME NEW m \in Nat, m \in S PROVE m + 1 \in S
  <2> HIDE DEF Run
  <2>0. m + 1 \in Nat
    OBVIOUS
  <2>1. SUFFICES ASSUME m + 1 < n PROVE M[a + (m + 1) + 1] = base \o Run((m + 1) + 1)
    BY <2>0, Zenon
  <2>2. M[a + m + 1] = base \o Run(m + 1)
    <3>1. m < n
      BY <2>1
    <3> QED BY <1>3, <3>1
  <2>3. PICK t \in Nat : t = a + m + 1 /\ a < t /\ t < a + n /\ a + (m + 1) + 1 = t + 1
    BY <2>1
  <2>4. M[t + 1] = M[t] \o <<In(t)>>
    BY <2>3
  <2>5. Run(m + 1) \in Seq(Values) /\ <<In(t)>> \in Seq(Values)
    <3>1. \A i \in 1..(m + 1) : a + i - 1 \in Nat
      OBVIOUS
    <3>2. \A i \in 1..(m + 1) : In(a + i - 1) \in Values
      BY <1>1, <3>1
    <3> QED BY <1>1, <3>2 DEF Run
  <2>6. Run((m + 1) + 1) = Run(m + 1) \o <<In(t)>>
    <3> DEFINE f == [i \in Nat |-> In(a + i - 1)]
    <3>1. \A i \in 1..((m + 1) + 1) : f[i] \in Values /\ f[i] = In(a + i - 1)
      <4>1. \A i \in 1..((m + 1) + 1) : i \in Nat /\ a + i - 1 \in Nat
        OBVIOUS
      <4> QED BY <1>1, <4>1
    <3>2. f[(m + 1) + 1] = In(t)
      <4>1. a + ((m + 1) + 1) - 1 = t /\ (m + 1) + 1 \in 1..((m + 1) + 1)
        BY <2>3
      <4> QED BY <3>1, <4>1
    <3>3. Run((m + 1) + 1) = [i \in 1..((m + 1) + 1) |-> f[i]] /\ Run(m + 1) = [i \in 1..(m + 1) |-> f[i]]
      <4>1. \A i \in 1..(m + 1) : i \in 1..((m + 1) + 1)
        OBVIOUS
      <4> QED BY <3>1, <4>1, Zenon DEF Run
    <3>4. m + 1 \in Nat
      OBVIOUS
    <3> HIDE DEF f
    <3>5. [i \in 1..((m + 1) + 1) |-> f[i]] = [i \in 1..(m + 1) |-> f[i]] \o <<f[(m + 1) + 1]>>
      <4>1. PICK n1 \in Nat : n1 = m + 1
        BY <3>4
      <4>2. \A i \in 1..(n1 + 1) : f[i] \in Values
        BY <3>1, <4>1
      <4>3. [i \in 1..(n1 + 1) |-> f[i]] = [i \in 1..n1 |-> f[i]] \o <<f[n1 + 1]>>
        BY <4>2, OneMore
      <4> QED BY <4>1, <4>3, Zenon
    <3> QED BY <3>2, <3>3, <3>5, Zenon
  <2>7. M[t + 1] = (base \o Run(m + 1)) \o <<In(t)>>
    BY <2>2, <2>3, <2>4
  <2> HIDE DEF S
  <2>8. base \o (Run(m + 1) \o <<In(t)>>) = (base \o Run(m + 1)) \o <<In(t)>>
    BY <2>5, JoinedTwice
  <2> QED BY <2>3, <2>6, <2>7, <2>8
<1> HIDE DEF S
<1>4. PICK m \in Nat : n = m + 1
  <2>1. n - 1 \in Nat /\ n = (n - 1) + 1
    OBVIOUS
  <2> QED BY <2>1
<1>5. m \in S
  BY <1>2, <1>3, SetInduction
<1> HIDE DEF Run
<1>6. M[a + m + 1] = base \o Run(m + 1)
  <2>1. m < n
    BY <1>4
  <2> QED BY <1>5, <2>1 DEF S
<1>7. a + m + 1 = a + n
  BY <1>4
<1> QED BY <1>4, <1>6, <1>7 DEF Run

\* What is merged up to a sample stays as it is.
LEMMA MergedGrows ==
  ASSUME case \in Cases, num >= Block, NEW a \in Nat, NEW b \in Nat, a <= b
  PROVE  \E t \in Seq(Values) : Merged[b] = Merged[a] \o t
<1> DEFINE S == {m \in Nat : \E t \in Seq(Values) : Merged[a + m] = Merged[a] \o t}
<1>1. Merged \in [Nat -> Seq(Values)]
  BY MergedIs
<1>2. 0 \in S
  <2>1. Merged[a] \in Seq(Values) /\ a + 0 = a
    BY <1>1
  <2>2. Merged[a] = Merged[a] \o << >> /\ << >> \in Seq(Values)
    BY <2>1
  <2> QED BY <2>1, <2>2
<1>3. ASSUME NEW m \in Nat, m \in S PROVE m + 1 \in S
  <2>1. PICK t \in Seq(Values) : Merged[a + m] = Merged[a] \o t
    BY <1>3
  <2>2. PICK s \in Nat : s = a + m /\ s + 1 = a + (m + 1)
    OBVIOUS
  <2> DEFINE x == IF Added(s) THEN <<AverageAt(s)>> ELSE << >>
             y == IF Removed(s) THEN << >> ELSE <<In(s)>>
  <2>3. x \in Seq(Values) /\ y \in Seq(Values)
    BY PartsAre
  <2>4. Merged[s + 1] = (Merged[s] \o x) \o y
    BY MergedIs
  <2> HIDE DEF x, y
  <2>5. Merged[a] \in Seq(Values)
    BY <1>1
  <2>6. (Merged[a] \o t) \o x = Merged[a] \o (t \o x)
    BY <2>3, <2>5, JoinedTwice, Zenon
  <2>7. t \o x \in Seq(Values) /\ (t \o x) \o y \in Seq(Values)
    BY <2>3
  <2>8. (Merged[a] \o (t \o x)) \o y = Merged[a] \o ((t \o x) \o y)
    <3>1. PICK p \in Seq(Values), q \in Seq(Values), r \in Seq(Values) :
            p = Merged[a] /\ q = t \o x /\ r = y
      BY <2>3, <2>5, <2>7, Zenon
    <3>2. p \o (q \o r) = (p \o q) \o r
      BY JoinedTwice, Zenon
    <3> QED BY <3>1, <3>2, Zenon
  <2>9. Merged[a + (m + 1)] = Merged[a] \o ((t \o x) \o y)
    BY <2>1, <2>2, <2>4, <2>6, <2>8
  <2>10. m + 1 \in Nat
    OBVIOUS
  <2> QED BY <2>7, <2>9, <2>10, Zenon
<1> HIDE DEF S
<1>4. PICK m \in Nat : b = a + m
  <2>1. b - a \in Nat /\ b = a + (b - a)
    OBVIOUS
  <2> QED BY <2>1
<1>5. m \in S
  BY <1>2, <1>3, SetInduction
<1> QED BY <1>4, <1>5 DEF S

-----------------------------------------------------------------------------
(* The output is what Merged says, for files of at least one block.         *)

\* Blocks begin at multiples of worklen, and only the last may be shorter.
Blocks ==
  /\ pc = "read" => inputIdx = num \/ \E q \in Nat : inputIdx = q * worklen
  /\ pc \in {"first", "bin", "rest", "next"} =>
       /\ numread = worklen \/ inputIdx = num
       /\ \E q \in Nat : start = q * worklen
  /\ pc = "pad" => inputIdx = num /\ numread = 0

\* The diffbins used are behind the samples used: at the next sample can only
\* be one whose average has been added already.
Passed ==
  \A k \in 1..(d - 1) :
    /\ Abs(diffs[k]) < num
    /\ Abs(diffs[k]) < datawrote \/ (diffs[k] = datawrote /\ datawrote > 0)

AlreadyAdded == \E k \in 1..(d - 1) : diffs[k] = datawrote
OnceAdded ==
  AlreadyAdded => (pc = "rest" /\ numwritten < numread) \/ pc = "done" \/ totwrote = num

Pending == IF AlreadyAdded THEN <<AverageAt(datawrote)>> ELSE << >>
Right == pc # "done" => datOut = Merged[datawrote] \o Pending

Finished ==
  pc = "done" =>
    /\ Len(datOut) = num
    /\ \A i \in 1..num : datOut[i] = IF i <= Len(Merged[num]) THEN Merged[num][i] ELSE Zero

MergeInv == Blocks /\ Passed /\ OnceAdded /\ Right /\ Finished

LEMMA PlacesOf ==
  ASSUME NEW s \in Seq(Int), NEW l \in DOMAIN s
  PROVE  l \in Nat /\ 1 <= l /\ s[l] \in Int /\ 1..l \subseteq DOMAIN s
OBVIOUS

\* What is at a sample that is next, or lies before the next diffbin.
LEMMA DiffbinsHere ==
  ASSUME Inv, Passed, NEW t \in Nat, t < num, datawrote <= t, t <= Abs(diffs[d])
  PROVE  /\ d \in DOMAIN diffs /\ diffs[d] \in Int
         /\ \A k \in DOMAIN diffs : diffs[k] \in Int
         /\ \A k \in DOMAIN diffs :
              Abs(diffs[k]) = t =>
                IF t = Abs(diffs[d]) THEN k = d
                ELSE k \in 1..(d - 1) /\ t = datawrote /\ diffs[k] = datawrote /\ datawrote > 0
<1>1. PICK l \in Nat : Ends(case, l) /\ d \in 1..l /\ datawrote <= Abs(diffs[d])
  BY DEF Inv, Ahead
<1>2. /\ l \in DOMAIN diffs /\ Abs(diffs[l]) >= num
      /\ \A i, j \in 1..l : i < j => Abs(diffs[i]) < Abs(diffs[j])
      /\ num \in Nat /\ diffs \in Seq(Int)
  BY <1>1, CaseType DEF Inv, Ends, diffs, num
<1>3. d \in DOMAIN diffs /\ \A k \in DOMAIN diffs : diffs[k] \in Int /\ k \in Nat \ {0}
  <2>1. diffs \in Seq(Int) /\ l \in DOMAIN diffs
    BY <1>2
  <2> HIDE DEF diffs
  <2>2. 1..l \subseteq DOMAIN diffs
    BY <2>1, PlacesOf
  <2>3. \A k \in DOMAIN diffs : diffs[k] \in Int /\ k \in Nat /\ 1 <= k
    BY <2>1, PlacesOf
  <2> QED BY <1>1, <2>2, <2>3
<1>4. \A k \in DOMAIN diffs : Abs(diffs[k]) \in Nat
  BY <1>3, AbsNat
<1>5. \A i, j \in DOMAIN diffs : i < j /\ Abs(diffs[i]) >= num => Abs(diffs[j]) >= num
  BY BarycenterBeyond DEF Beyond, Inv, diffs, num
<1>6. ASSUME NEW k \in DOMAIN diffs, Abs(diffs[k]) = t
      PROVE  IF t = Abs(diffs[d]) THEN k = d
             ELSE k \in 1..(d - 1) /\ t = datawrote /\ diffs[k] = datawrote /\ datawrote > 0
  <2>1. k \in Nat /\ k >= 1 /\ l \in Nat /\ d \in Nat /\ datawrote \in Nat
    BY <1>1, <1>3 DEF Inv, TypeOK
  <2>2. k <= l
    <3>1. SUFFICES ASSUME l < k PROVE FALSE
      BY <2>1
    <3>2. Abs(diffs[k]) >= num
      BY <1>2, <1>5, <3>1
    <3> QED BY <1>2, <1>6, <3>2
  <2>3. k \in 1..l /\ d \in 1..l
    BY <1>1, <2>1, <2>2
  <2>4. CASE k < d
    <3>1. k \in 1..(d - 1)
      BY <2>1, <2>4
    <3>2. Abs(diffs[k]) < Abs(diffs[d])
      BY <1>2, <2>3, <2>4
    <3>3. Abs(diffs[k]) < datawrote \/ (diffs[k] = datawrote /\ datawrote > 0)
      BY <3>1 DEF Passed
    <3>4. diffs[k] = datawrote /\ datawrote > 0
      BY <1>4, <1>6, <2>1, <3>3
    <3>5. t = datawrote
      BY <1>6, <2>1, <3>4 DEF Abs
    <3>6. t # Abs(diffs[d])
      BY <1>3, <1>4, <1>6, <3>2
    <3> QED BY <3>1, <3>4, <3>5, <3>6, Zenon
  <2>5. CASE k = d
    BY <1>6, <2>5
  <2>6. CASE k > d
    <3>1. Abs(diffs[d]) < Abs(diffs[k])
      BY <1>2, <2>3, <2>6
    <3> QED BY <1>3, <1>4, <1>6, <3>1
  <2> QED BY <2>1, <2>4, <2>5, <2>6
<1> QED BY <1>3, <1>6

LEMMA AbsIs ==
  ASSUME NEW x \in Int, NEW s \in Nat
  PROVE  /\ x = s => Abs(x) = s
         /\ x = -s => Abs(x) = s
         /\ Abs(x) = s => x = s \/ x = -s
BY DEF Abs

\* A sample before the next diffbin is copied; before the one that is next may
\* be an average, which has been added.
LEMMA CopiedSample ==
  ASSUME Inv, Passed, num >= Block, NEW t \in Nat, t < num, datawrote <= t, t < Abs(diffs[d])
  PROVE  /\ ~Removed(t)
         /\ Added(t) <=> t = datawrote /\ AlreadyAdded
<1>1. /\ d \in DOMAIN diffs /\ diffs[d] \in Int /\ Abs(diffs[d]) \in Nat
      /\ \A k \in DOMAIN diffs : diffs[k] \in Int
      /\ \A k \in DOMAIN diffs :
           Abs(diffs[k]) = t =>
             k \in 1..(d - 1) /\ t = datawrote /\ diffs[k] = datawrote /\ datawrote > 0
  <2>1. t <= Abs(diffs[d]) /\ t # Abs(diffs[d])
    <3>1. Abs(diffs[d]) \in Nat
      <4>1. d \in DOMAIN diffs /\ diffs \in Seq(Int)
        BY InvSafe, CaseType DEF Inv, MemorySafe, diffs
      <4>2. diffs[d] \in Int
        BY <4>1, PlacesOf
      <4> QED BY <4>2, AbsNat
    <3> QED BY <3>1
  <2>2. diffs[d] \in Int
    BY <2>1, DiffbinsHere
  <2> QED BY <2>1, <2>2, DiffbinsHere, AbsNat
<1>2. ~Removed(t)
  <2>1. SUFFICES ASSUME NEW k \in DOMAIN diffs, diffs[k] = -t PROVE FALSE
    BY DEF Removed
  <2>2. Abs(diffs[k]) = t
    BY <1>1, <2>1, AbsIs
  <2>3. diffs[k] = t /\ t > 0
    BY <1>1, <2>2
  <2> QED BY <2>1, <2>3
<1>3. ASSUME Added(t) PROVE t = datawrote /\ AlreadyAdded
  <2>1. PICK k \in DOMAIN diffs : diffs[k] = t
    BY <1>3 DEF Added
  <2>2. Abs(diffs[k]) = t
    BY <1>1, <2>1, AbsIs
  <2> QED BY <1>1, <2>2 DEF AlreadyAdded
<1>4. ASSUME t = datawrote, AlreadyAdded PROVE Added(t)
  <2>1. PICK k \in 1..(d - 1) : diffs[k] = t
    BY <1>4 DEF AlreadyAdded
  <2>2. k \in DOMAIN diffs
    <3>1. diffs \in Seq(Int) /\ d \in Nat
      BY CaseType DEF Inv, diffs, TypeOK
    <3> QED BY <1>1, <3>1
  <2>3. Abs(diffs[k]) = t
    BY <1>1, <2>1, <2>2, AbsIs
  <2>4. t > 0
    BY <1>1, <2>2, <2>3
  <2> QED BY <2>1, <2>2, <2>4 DEF Added
<1> QED BY <1>2, <1>3, <1>4

LEMMA SameMerged ==
  ASSUME case' = case
  PROVE  Merged' = Merged /\ num' = num /\ worklen' = worklen /\ diffs' = diffs
BY DEF Merged, num, worklen, diffs

LEMMA NoMore == \A s \in Seq(Values) : s \o << >> = s
<1> SUFFICES ASSUME NEW V, NEW s \in Seq(V) PROVE s \o << >> = s
  OBVIOUS
<1> QED OBVIOUS

\* The state as numbers and sequences.
LEMMA StateIs ==
  ASSUME Inv
  PROVE  /\ num \in Nat /\ inputIdx \in Nat /\ numread \in Nat /\ numwritten \in Nat
         /\ datawrote \in Nat /\ totwrote \in Nat /\ d \in Nat
         /\ inputIdx <= num /\ numread <= inputIdx /\ numwritten <= numread
         /\ start = inputIdx - numread /\ datawrote = start + numwritten /\ skip = numwritten
         /\ datawrote <= num /\ numread <= worklen /\ totwrote <= num
         /\ diffs \in Seq(Int) /\ d \in DOMAIN diffs /\ diffs[d] \in Int
         /\ \A k \in 1..d : k \in DOMAIN diffs /\ diffs[k] \in Int /\ Abs(diffs[k]) \in Nat
         /\ datOut \in Seq(Values)
<1>1. /\ num \in Nat /\ inputIdx \in Nat /\ numread \in Nat /\ numwritten \in Nat
      /\ datawrote \in Nat /\ totwrote \in Nat /\ d \in Nat /\ datOut \in Seq(Values)
  BY CaseType DEF Inv, TypeOK, num, Values
<1>2. /\ inputIdx <= num /\ numread <= inputIdx /\ numwritten <= numread
      /\ datawrote = (inputIdx - numread) + numwritten /\ skip = numwritten
      /\ numread <= worklen /\ totwrote <= num
  BY DEF Inv, Counters
<1>3. diffs \in Seq(Int) /\ d \in DOMAIN diffs
  BY InvSafe, CaseType DEF Inv, MemorySafe, diffs
<1>4. \A k \in 1..d : k \in DOMAIN diffs /\ diffs[k] \in Int /\ Abs(diffs[k]) \in Nat
  <2>1. 1..d \subseteq DOMAIN diffs
    BY <1>3, PlacesOf
  <2>2. \A k \in 1..d : k \in DOMAIN diffs /\ diffs[k] \in Int
    BY <1>3, <2>1, PlacesOf
  <2> QED BY <2>2, AbsNat
<1>5. diffs[d] \in Int
  BY <1>3, PlacesOf
<1>6. datawrote <= num /\ start = inputIdx - numread /\ datawrote = start + numwritten
  BY <1>1, <1>2 DEF start
<1> QED BY <1>1, <1>2, <1>3, <1>4, <1>5, <1>6

\* An average added for the sample that is next is one of the diffbins.
LEMMA AlreadyIs ==
  ASSUME Inv, Passed, AlreadyAdded
  PROVE  /\ datawrote < num /\ datawrote > 0 /\ Added(datawrote)
         /\ datawrote < Abs(diffs[d])
<1>1. PICK k \in 1..(d - 1) : diffs[k] = datawrote
  BY DEF AlreadyAdded
<1>2. k \in 1..d /\ k < d
  <2>1. d \in Nat
    BY StateIs
  <2> QED BY <1>1, <2>1
<1>3. k \in DOMAIN diffs /\ Abs(diffs[k]) = datawrote
  BY <1>1, <1>2, StateIs, AbsIs
<1>4. datawrote < num /\ datawrote > 0
  <2>1. Abs(diffs[k]) < num /\ (Abs(diffs[k]) < datawrote \/ (diffs[k] = datawrote /\ datawrote > 0))
    BY DEF Passed
  <2>2. datawrote \in Nat /\ num \in Nat
    BY StateIs
  <2> QED BY <1>3, <2>1, <2>2
<1>5. Abs(diffs[k]) < Abs(diffs[d])
  <2>1. PICK l \in Nat : Ends(case, l) /\ d \in 1..l
    BY DEF Inv, Ahead
  <2>2. k \in 1..l
    BY <1>2, <2>1, StateIs
  <2> QED BY <1>2, <2>1, <2>2 DEF Ends, diffs
<1> QED BY <1>1, <1>3, <1>4, <1>5 DEF Added

LEMMA PendingType ==
  ASSUME Inv, num >= Block
  PROVE  Pending \in Seq(Values)
<1>1. datawrote \in Nat /\ case \in Cases
  BY StateIs DEF Inv
<1>2. <<AverageAt(datawrote)>> \in Seq(Values) /\ << >> \in Seq(Values)
  <2>1. AverageAt(datawrote) \in Values
    BY <1>1, PartsAre
  <2> QED BY <2>1
<1> QED BY <1>2 DEF Pending

\* What a copy leaves.
LEMMA CopyMerges ==
  ASSUME Inv, MergeInv, num >= Block, pc \in {"first", "rest"}, Copy(skip, Writable),
         UNCHANGED <<case, inputIdx, numread, d>>, pc' \in {"bin", "next"}
  PROVE  MergeInv'
<1>1. PICK n \in Nat : n = Writable
  BY WritableLimits
<1>2. PICK s \in Nat : s = datawrote
  BY StateIs
<1>3. /\ s + n <= Abs(diffs[d]) /\ s + n <= num /\ totwrote + n <= num /\ Abs(diffs[d]) \in Nat
      /\ s + n = Abs(diffs[d]) \/ totwrote + n = num \/ numwritten + n = numread
  <2>1. /\ datawrote + n <= Abs(diffs[d]) /\ totwrote + n <= num /\ numwritten + n <= numread
        /\ \/ datawrote + n = Abs(diffs[d])
           \/ totwrote + n = num
           \/ numwritten + n = numread
    BY <1>1, WritableLimits
  <2>2. datawrote + n <= num
    <3>1. /\ datawrote = start + numwritten /\ start = inputIdx - numread /\ inputIdx <= num
          /\ num \in Nat /\ inputIdx \in Nat /\ numread \in Nat /\ numwritten \in Nat
      BY StateIs
    <3> QED BY <2>1, <3>1
  <2>3. Abs(diffs[d]) \in Nat
    BY StateIs, AbsNat
  <2> QED BY <1>2, <2>1, <2>2, <2>3
<1>4. /\ datawrote' = s + n /\ totwrote' = totwrote + n /\ numwritten' = numwritten + n
      /\ datOut' = datOut \o Copied(skip, n)
  BY <1>1, <1>2 DEF Copy
<1>5. Merged' = Merged /\ num' = num /\ worklen' = worklen /\ diffs' = diffs /\ d' = d
  BY SameMerged
<1>6. Merged \in [Nat -> Seq(Values)] /\ datOut \in Seq(Values)
  BY MergedIs, StateIs DEF Inv
<1>7. datOut = Merged[s] \o Pending
  BY <1>2 DEF MergeInv, Right
<1>8. \A k \in 1..(d - 1) : Abs(diffs[k]) \in Nat /\ diffs[k] \in Int
  <2>1. \A k \in 1..d : Abs(diffs[k]) \in Nat /\ diffs[k] \in Int
    BY StateIs
  <2>2. d \in Nat
    BY StateIs
  <2> QED BY <2>1, <2>2
<1>9. Passed'
  <2>1. SUFFICES ASSUME NEW k \in 1..(d - 1)
                 PROVE  /\ Abs(diffs[k]) < num
                        /\ Abs(diffs[k]) < s + n \/ (diffs[k] = s + n /\ s + n > 0)
    BY <1>4, <1>5 DEF Passed
  <2>2. Abs(diffs[k]) < num /\ (Abs(diffs[k]) < s \/ (diffs[k] = s /\ s > 0))
    BY <1>2 DEF MergeInv, Passed
  <2>3. diffs[k] = s => Abs(diffs[k]) = s
    BY <1>8, AbsIs
  <2> QED BY <1>8, <2>2, <2>3
<1>10. AlreadyAdded' => n = 0 /\ AlreadyAdded
  <2>0. SUFFICES ASSUME AlreadyAdded' PROVE n = 0 /\ AlreadyAdded
    OBVIOUS
  <2>1. PICK k \in 1..(d - 1) : diffs[k] = s + n
    BY <1>4, <1>5, <2>0 DEF AlreadyAdded
  <2>2. Abs(diffs[k]) < s \/ diffs[k] = s
    BY <1>2 DEF MergeInv, Passed
  <2>3. Abs(diffs[k]) = s + n
    <3>1. s + n \in Nat
      OBVIOUS
    <3> QED BY <1>8, <2>1, <3>1, AbsIs
  <2>4. n = 0
    BY <2>1, <2>2, <2>3
  <2>5. diffs[k] = datawrote
    BY <1>2, <2>1, <2>4
  <2> QED BY <2>4, <2>5 DEF AlreadyAdded
<1>11. n = 0 /\ AlreadyAdded => AlreadyAdded'
  BY <1>2, <1>4, <1>5 DEF AlreadyAdded
<1>12. OnceAdded'
  <2>1. SUFFICES ASSUME n = 0, AlreadyAdded PROVE totwrote = num
    BY <1>4, <1>5, <1>10, StateIs DEF OnceAdded
  <2>2. (pc = "rest" /\ numwritten < numread) \/ totwrote = num
    BY <2>1 DEF MergeInv, OnceAdded
  <2>3. s < Abs(diffs[d])
    BY <1>2, <2>1, AlreadyIs DEF MergeInv
  <2>4. totwrote \in Nat /\ numread \in Nat /\ numwritten \in Nat /\ num \in Nat
    BY StateIs
  <2> QED BY <1>3, <2>1, <2>2, <2>3, <2>4
<1>13. Right'
  <2>1. SUFFICES datOut' = Merged[s + n] \o (IF AlreadyAdded' THEN <<AverageAt(s + n)>> ELSE << >>)
    BY <1>4, <1>5 DEF Right, Pending, AverageAt
  <2>2. CASE n = 0
    <3>1. Copied(skip, n) = << >>
      BY <2>2 DEF Copied
    <3>2. datOut' = datOut
      BY <1>4, <1>6, <3>1, NoMore
    <3>3. s + n = s /\ (AlreadyAdded' <=> AlreadyAdded)
      BY <1>10, <1>11, <2>2
    <3> QED BY <1>2, <1>7, <3>2, <3>3, Zenon DEF Pending
  <2>3. CASE n # 0
    <3>0. num \in Nat
      BY StateIs
    <3>1. s < num /\ s < Abs(diffs[d]) /\ Passed /\ datawrote <= s /\ case \in Cases
      <4>1. s < num /\ s < Abs(diffs[d]) /\ datawrote <= s
        BY <1>2, <1>3, <2>3, <3>0
      <4> QED BY <4>1 DEF MergeInv, Inv
    <3>2. ~Removed(s) /\ (Added(s) <=> AlreadyAdded)
      BY <1>2, <3>1, CopiedSample
    <3>3. Merged[s + 1] = datOut \o <<In(s)>>
      BY <1>2, <1>7, <3>1, <3>2, MergedIs DEF Pending
    <3>4. ASSUME NEW t \in Nat, s < t, t < s + n
          PROVE  Merged[t + 1] = Merged[t] \o <<In(t)>>
      <4>1. t < num /\ datawrote <= t /\ t < Abs(diffs[d]) /\ t # datawrote
        BY <1>2, <1>3, <3>0, <3>4
      <4>2. ~Removed(t) /\ ~Added(t)
        BY <3>1, <4>1, CopiedSample
      <4>3. Merged[t + 1] = (Merged[t] \o << >>) \o <<In(t)>>
        BY <3>1, <4>2, MergedIs
      <4>4. Merged[t] \in Seq(Values)
        BY <1>6
      <4> QED BY <4>3, <4>4, NoMore
    <3>5. Merged[s + n] = datOut \o [i \in 1..n |-> In(s + i - 1)]
      <4>1. n \in Nat \ {0}
        BY <2>3
      <4>2. \A t \in Nat : s < t /\ t < s + n => Merged[t + 1] = Merged[t] \o <<In(t)>>
        BY <3>4
      <4> QED BY <1>6, <3>3, <4>1, <4>2, RunAfter
    <3>6. Copied(skip, n) = [i \in 1..n |-> In(s + i - 1)]
      <4>1. start + skip = s
        BY <1>2, StateIs
      <4> QED BY <4>1 DEF Copied
    <3>7. datOut' = Merged[s + n] /\ ~AlreadyAdded'
      BY <1>4, <1>10, <2>3, <3>5, <3>6
    <3>8. Merged[s + n] \in Seq(Values)
      BY <1>6
    <3> QED BY <3>7, <3>8, NoMore
  <2> QED BY <2>2, <2>3
<1>14. Blocks'
  BY <1>5 DEF MergeInv, Blocks, start
<1>15. Finished'
  BY DEF Finished
<1> QED BY <1>9, <1>12, <1>13, <1>14, <1>15 DEF MergeInv

\* The quotient of a number in the block that begins at q * w.
LEMMA InBlock ==
  ASSUME NEW w \in Nat \ {0}, NEW q \in Nat, NEW r \in 0..(w - 1)
  PROVE  (q * w + r) \div w = q
<1>1. PICK x \in Nat : x = q * w + r
  <2>1. q * w \in Nat
    BY MulNat
  <2> QED BY <2>1
<1>2. PICK p \in Nat : p = x \div w
  BY <1>1, DivNat
<1>3. w * p <= x /\ x < w * p + w
  BY <1>2, Z3
<1>4. ~(p < q)
  <2>1. SUFFICES ASSUME p + 1 <= q PROVE FALSE
    OBVIOUS
  <2>2. w * (p + 1) <= w * q
    BY <2>1, Z3
  <2>3. w * (p + 1) = w * p + w /\ w * q = q * w
    BY Z3
  <2> QED BY <1>1, <1>3, <2>2, <2>3
<1>5. ~(q < p)
  <2>1. SUFFICES ASSUME q + 1 <= p PROVE FALSE
    OBVIOUS
  <2>2. w * (q + 1) <= w * p
    BY <2>1, Z3
  <2>3. w * (q + 1) = w * q + w /\ w * q = q * w
    BY Z3
  <2> QED BY <1>1, <1>3, <2>2, <2>3
<1> QED BY <1>1, <1>2, <1>4, <1>5

LEMMA InitMerges == ASSUME Init, num >= Block PROVE MergeInv
<1>1. case \in Cases /\ num \in Nat
  BY CaseType DEF Init, num
<1>2. worklen \in Nat \ {0} /\ Merged[0] = << >>
  BY <1>1, WorklenPositive, MergedIs
<1>3. Blocks
  <2>1. 0 = 0 * worklen
    BY <1>2
  <2> QED BY <2>1 DEF Init, Blocks
<1>4. Passed /\ ~AlreadyAdded
  <2>1. 1..(1 - 1) = {}
    OBVIOUS
  <2> QED BY <2>1 DEF Init, Passed, AlreadyAdded
<1>5. Right
  <2>1. << >> \o << >> = << >>
    OBVIOUS
  <2> QED BY <1>2, <1>4, <2>1 DEF Init, Right, Pending
<1> QED BY <1>3, <1>4, <1>5 DEF MergeInv, OnceAdded, Finished, Init

\* A step that keeps the diffbins, the samples used and the output.
LEMMA SameMerges ==
  ASSUME MergeInv, case' = case, d' = d, datawrote' = datawrote, datOut' = datOut, totwrote' = totwrote,
         pc # "done"
  PROVE  /\ Passed' /\ (AlreadyAdded' <=> AlreadyAdded) /\ Right'
<1>1. Merged' = Merged /\ num' = num /\ worklen' = worklen /\ diffs' = diffs
  BY SameMerged
<1>2. Passed' /\ (AlreadyAdded' <=> AlreadyAdded)
  BY <1>1 DEF MergeInv, Passed, AlreadyAdded
<1>3. Pending' = Pending
  BY <1>1, <1>2 DEF Pending, AverageAt
<1> QED BY <1>1, <1>2, <1>3 DEF MergeInv, Right

LEMMA ReadMerges == ASSUME Inv, MergeInv, num >= Block, Read PROVE MergeInv'
<1> USE DEF Read
<1>1. Passed' /\ (AlreadyAdded' <=> AlreadyAdded) /\ Right'
  BY SameMerges
<1>2. num' = num /\ worklen' = worklen
  BY SameMerged
<1>3. OnceAdded'
  BY <1>1, <1>2 DEF MergeInv, OnceAdded
<1>4. /\ num \in Nat /\ inputIdx \in Nat /\ inputIdx <= num /\ worklen \in Nat \ {0}
  BY StateIs, WorklenPositive DEF Inv
<1>5. numread' = LesserOf(worklen, num - inputIdx) /\ inputIdx' = inputIdx + numread'
  OBVIOUS
<1>6. PICK w \in Nat \ {0} : w = worklen
  BY <1>4
<1>7. PICK n \in Nat : n = numread' /\ n <= w /\ n <= num - inputIdx /\ (n = w \/ n = num - inputIdx)
  BY <1>4, <1>5, <1>6 DEF LesserOf
<1>8. n = 0 => inputIdx' = num' /\ numread' = 0
  BY <1>2, <1>4, <1>5, <1>6, <1>7
<1>9. n # 0 => \E q \in Nat : inputIdx = q * worklen
  <2>1. n # 0 => inputIdx # num
    BY <1>4, <1>7
  <2> QED BY <2>1 DEF MergeInv, Blocks
<1>10. start' = inputIdx
  BY <1>4, <1>5, <1>7 DEF start
<1>11. numread' = worklen' \/ inputIdx' = num'
  BY <1>2, <1>4, <1>5, <1>6, <1>7
<1>12. pc' = IF n = 0 THEN "pad" ELSE "first"
  BY <1>7
<1>13. Blocks'
  BY <1>2, <1>8, <1>9, <1>10, <1>11, <1>12 DEF Blocks
<1> QED BY <1>1, <1>3, <1>12, <1>13 DEF MergeInv, Finished

LEMMA FirstPartMerges == ASSUME Inv, MergeInv, num >= Block, FirstPart PROVE MergeInv'
<1>1. skip = 0 /\ pc \in {"first", "rest"}
  BY DEF Inv, Counters, Places, FirstPart
<1>2. Copy(skip, Writable) /\ pc' \in {"bin", "next"} /\ UNCHANGED <<case, inputIdx, numread, d>>
  BY <1>1 DEF FirstPart
<1> QED BY <1>1, <1>2, CopyMerges

LEMMA RestPartMerges == ASSUME Inv, MergeInv, num >= Block, RestPart PROVE MergeInv'
<1>1. Copy(skip, Writable) /\ pc' \in {"bin", "next"} /\ UNCHANGED <<case, inputIdx, numread, d>>
      /\ pc \in {"first", "rest"}
  BY DEF RestPart
<1> QED BY <1>1, CopyMerges

\* At a diffbin.
LEMMA AtBin ==
  ASSUME Inv, MergeInv, num >= Block, pc = "bin"
  PROVE  /\ datawrote < num /\ numwritten < numread /\ Abs(diffs[d]) = datawrote
         /\ ~AlreadyAdded /\ datOut = Merged[datawrote]
         /\ \A k \in DOMAIN diffs : diffs[k] \in Int /\ (Abs(diffs[k]) = datawrote => k = d)
         /\ \A k \in 1..d : Abs(diffs[k]) < num /\ (k = d \/ Abs(diffs[k]) < datawrote)
         /\ Merged \in [Nat -> Seq(Values)]
<1>1. numwritten < numread /\ totwrote < num /\ Abs(diffs[d]) = datawrote
  BY DEF Inv, Places
<1>2. datawrote < num
  <2>1. /\ datawrote = start + numwritten /\ start = inputIdx - numread /\ inputIdx <= num
        /\ num \in Nat /\ inputIdx \in Nat /\ numread \in Nat /\ numwritten \in Nat
    BY StateIs
  <2> QED BY <1>1, <2>1
<1>3. ~AlreadyAdded
  <2>1. totwrote \in Nat /\ num \in Nat
    BY StateIs
  <2> QED BY <1>1, <2>1 DEF MergeInv, OnceAdded
<1>4. Merged \in [Nat -> Seq(Values)] /\ datawrote \in Nat
  BY MergedIs, StateIs DEF Inv
<1>5. datOut = Merged[datawrote]
  <2>1. datOut = Merged[datawrote] \o << >>
    BY <1>3 DEF MergeInv, Right, Pending
  <2>2. Merged[datawrote] \in Seq(Values)
    BY <1>4
  <2> QED BY <2>1, <2>2, NoMore
<1>6. \A k \in DOMAIN diffs : diffs[k] \in Int /\ (Abs(diffs[k]) = datawrote => k = d)
  <2>1. Passed /\ datawrote <= datawrote /\ datawrote <= Abs(diffs[d])
    BY <1>1, <1>4 DEF MergeInv
  <2> QED BY <1>1, <1>2, <1>4, <2>1, DiffbinsHere
<1>7. ASSUME NEW k \in 1..d PROVE Abs(diffs[k]) < num /\ (k = d \/ Abs(diffs[k]) < datawrote)
  <2>1. CASE k = d
    BY <1>1, <1>2, <2>1
  <2>2. CASE k # d
    <3>1. k \in 1..(d - 1)
      <4>1. d \in Nat
        BY StateIs
      <4> QED BY <2>2, <4>1
    <3> QED BY <1>3, <3>1 DEF MergeInv, Passed, AlreadyAdded
  <2> QED BY <2>1, <2>2
<1> QED BY <1>1, <1>2, <1>3, <1>4, <1>5, <1>6, <1>7

LEMMA AddBinMerges == ASSUME Inv, MergeInv, num >= Block, AddBin PROVE MergeInv'
<1>0. pc = "bin" /\ pc' = "rest"
  BY DEF AddBin
<1>1. /\ datawrote < num /\ numwritten < numread /\ Abs(diffs[d]) = datawrote
      /\ datOut = Merged[datawrote] /\ Merged \in [Nat -> Seq(Values)]
      /\ \A k \in 1..d : Abs(diffs[k]) < num /\ (k = d \/ Abs(diffs[k]) < datawrote)
  BY <1>0, AtBin
<1>2. /\ d \in Nat /\ datawrote \in Nat /\ diffs[d] \in Int /\ diffs[d] > 0
      /\ d \in DOMAIN diffs /\ numwritten \in Nat /\ numread \in Nat
      /\ datawrote = start + numwritten /\ numread <= worklen
  BY StateIs DEF AddBin
<1>3. diffs[d] = datawrote /\ datawrote > 0
  BY <1>1, <1>2 DEF Abs
<1>4. Merged' = Merged /\ num' = num /\ worklen' = worklen /\ diffs' = diffs
      /\ d' = d + 1 /\ datawrote' = datawrote /\ numwritten' = numwritten /\ numread' = numread
      /\ inputIdx' = inputIdx /\ datOut' = Append(datOut, Average(start))
  BY SameMerged DEF AddBin
<1>5. 1..(d' - 1) = 1..d /\ d \in 1..d
  <2>1. PICK e \in DOMAIN diffs : e = d
    BY <1>2
  <2>2. e >= 1 /\ e \in Nat
    BY <2>1, StateIs, PlacesOf
  <2>3. (d + 1) - 1 = d
    BY <1>2
  <2> QED BY <1>2, <1>4, <2>1, <2>2, <2>3
<1>6. Passed'
  BY <1>1, <1>3, <1>4, <1>5 DEF Passed
<1>7. AlreadyAdded'
  BY <1>3, <1>4, <1>5 DEF AlreadyAdded
<1>8. OnceAdded'
  BY <1>0, <1>1, <1>4 DEF OnceAdded
<1>9. Average(start) = AverageAt(datawrote)
  <2>1. PICK q \in Nat : start = q * worklen
    BY <1>0 DEF MergeInv, Blocks
  <2>2. PICK w \in Nat \ {0} : w = worklen
    BY WorklenPositive DEF Inv
  <2>3. numwritten \in 0..(w - 1)
    BY <1>1, <1>2, <2>2
  <2>4. (q * w + numwritten) \div w = q
    BY <2>3, InBlock
  <2>5. datawrote \div worklen = q
    BY <1>2, <2>1, <2>2, <2>4
  <2> QED BY <2>1, <2>5 DEF AverageAt
<1>10. Right'
  <2>1. Append(Merged[datawrote], AverageAt(datawrote)) = Merged[datawrote] \o <<AverageAt(datawrote)>>
    <3>1. Merged[datawrote] \in Seq(Values) /\ AverageAt(datawrote) \in Values
      BY <1>1, <1>2, PartsAre DEF Inv
    <3> QED BY <3>1, OneLonger
  <2>2. Pending' = <<AverageAt(datawrote)>>
    BY <1>4, <1>7 DEF Pending, AverageAt
  <2> QED BY <1>1, <1>4, <1>9, <2>1, <2>2 DEF Right
<1>11. Blocks'
  BY <1>0, <1>4 DEF MergeInv, Blocks, start
<1>12. Finished'
  BY <1>0 DEF Finished
<1> QED BY <1>6, <1>8, <1>10, <1>11, <1>12 DEF MergeInv

LEMMA RemoveBinMerges == ASSUME Inv, MergeInv, num >= Block, RemoveBin PROVE MergeInv'
<1>0. pc = "bin" /\ pc' = "rest"
  BY DEF RemoveBin
<1>1. /\ datawrote < num /\ Abs(diffs[d]) = datawrote
      /\ datOut = Merged[datawrote] /\ Merged \in [Nat -> Seq(Values)]
      /\ \A k \in DOMAIN diffs : diffs[k] \in Int /\ (Abs(diffs[k]) = datawrote => k = d)
      /\ \A k \in 1..d : Abs(diffs[k]) < num /\ (k = d \/ Abs(diffs[k]) < datawrote)
  BY <1>0, AtBin
<1>2. /\ d \in Nat /\ datawrote \in Nat /\ diffs[d] \in Int /\ diffs[d] <= 0 /\ num \in Nat
      /\ d \in DOMAIN diffs
      /\ \A k \in 1..d : k \in DOMAIN diffs /\ diffs[k] \in Int /\ Abs(diffs[k]) \in Nat
  BY StateIs DEF RemoveBin
<1>3. diffs[d] = -datawrote
  <2>1. diffs[d] = datawrote \/ diffs[d] = -datawrote
    BY <1>1, <1>2, AbsIs
  <2> QED BY <1>2, <2>1
<1>4. Merged' = Merged /\ num' = num /\ worklen' = worklen /\ diffs' = diffs
      /\ d' = d + 1 /\ datawrote' = datawrote + 1 /\ numread' = numread
      /\ inputIdx' = inputIdx /\ datOut' = datOut
  BY SameMerged DEF RemoveBin
<1>5. 1..(d' - 1) = 1..d
  BY <1>2, <1>4
<1>13. ASSUME NEW k \in 1..d PROVE Abs(diffs[k]) <= datawrote /\ Abs(diffs[k]) \in Nat
  <2>1. k = d \/ Abs(diffs[k]) < datawrote
    BY <1>1
  <2>2. Abs(diffs[k]) \in Nat
    BY <1>2
  <2>3. k = d => Abs(diffs[k]) = datawrote
    BY <1>1
  <2> QED BY <1>2, <2>1, <2>2, <2>3
<1>6. Passed'
  <2>1. \A k \in 1..d : Abs(diffs[k]) < datawrote + 1
    BY <1>2, <1>13
  <2> QED BY <1>1, <1>4, <1>5, <2>1 DEF Passed
<1>7. ~AlreadyAdded'
  <2>1. SUFFICES ASSUME NEW k \in 1..d, diffs[k] = datawrote + 1 PROVE FALSE
    BY <1>4, <1>5 DEF AlreadyAdded
  <2>2. Abs(diffs[k]) = datawrote + 1
    BY <1>2, <2>1 DEF Abs
  <2>3. Abs(diffs[k]) <= datawrote
    BY <1>13
  <2> QED BY <1>2, <2>2, <2>3
<1>8. Removed(datawrote) /\ ~Added(datawrote)
  <2>1. Removed(datawrote)
    BY <1>2, <1>3 DEF Removed
  <2>2. SUFFICES ASSUME NEW k \in DOMAIN diffs, diffs[k] = datawrote, datawrote > 0 PROVE FALSE
    BY <2>1 DEF Added
  <2>3. Abs(diffs[k]) = datawrote
    BY <1>1, <1>2, <2>2, AbsIs
  <2>4. k = d
    BY <1>1, <2>3
  <2> QED BY <1>2, <1>3, <2>2, <2>4
<1>9. Merged[datawrote + 1] = Merged[datawrote]
  <2>1. Merged[datawrote + 1] = (Merged[datawrote] \o << >>) \o << >>
    BY <1>2, <1>8, MergedIs DEF Inv
  <2>2. Merged[datawrote] \in Seq(Values)
    BY <1>1, <1>2
  <2> QED BY <2>1, <2>2, NoMore
<1>10. Right'
  <2>1. Merged[datawrote + 1] \in Seq(Values)
    BY <1>1, <1>2, <1>9
  <2>2. Pending' = << >>
    BY <1>7 DEF Pending
  <2> QED BY <1>1, <1>4, <1>9, <2>1, <2>2, NoMore DEF Right
<1>11. Blocks'
  BY <1>0, <1>4 DEF MergeInv, Blocks, start
<1>12. OnceAdded' /\ Finished'
  BY <1>0, <1>7 DEF OnceAdded, Finished
<1> QED BY <1>6, <1>10, <1>11, <1>12 DEF MergeInv

\* The output is a part of what is merged in all, from its start.
LEMMA OutputBegins ==
  ASSUME Inv, MergeInv, num >= Block, pc # "done"
  PROVE  \E t \in Seq(Values) : Merged[num] = datOut \o t
<1>1. /\ datawrote \in Nat /\ num \in Nat /\ datawrote <= num /\ case \in Cases
  BY StateIs DEF Inv
<1>2. Merged \in [Nat -> Seq(Values)]
  BY <1>1, MergedIs
<1>3. datOut = Merged[datawrote] \o Pending
  BY DEF MergeInv, Right
<1>4. CASE ~AlreadyAdded
  <2>1. datOut = Merged[datawrote]
    BY <1>1, <1>2, <1>3, <1>4, NoMore DEF Pending
  <2> QED BY <1>1, <2>1, MergedGrows
<1>5. CASE AlreadyAdded
  <2>1. datawrote < num /\ Added(datawrote)
    BY <1>5, AlreadyIs DEF MergeInv
  <2> DEFINE y == IF Removed(datawrote) THEN << >> ELSE <<In(datawrote)>>
  <2>2. Merged[datawrote + 1] = (Merged[datawrote] \o Pending) \o y
    BY <1>1, <1>5, <2>1, MergedIs DEF Pending
  <2>3. y \in Seq(Values)
    BY <1>1, PartsAre
  <2> HIDE DEF y
  <2>4. datawrote + 1 \in Nat /\ datawrote + 1 <= num
    BY <1>1, <2>1
  <2>5. PICK t \in Seq(Values) : Merged[num] = Merged[datawrote + 1] \o t
    BY <1>1, <2>4, MergedGrows
  <2>6. datOut \in Seq(Values)
    BY StateIs
  <2>7. Merged[num] = datOut \o (y \o t)
    <3>1. Merged[num] = (datOut \o y) \o t
      BY <1>3, <2>2, <2>5
    <3>2. datOut \o (y \o t) = (datOut \o y) \o t
      BY <2>3, <2>6, JoinedTwice
    <3> QED BY <3>1, <3>2, Zenon
  <2>8. y \o t \in Seq(Values)
    BY <2>3
  <2> QED BY <2>7, <2>8
<1> QED BY <1>4, <1>5

LEMMA NextBlockMerges == ASSUME Inv, MergeInv, num >= Block, NextBlock PROVE MergeInv'
<1> USE DEF NextBlock
<1>1. Passed' /\ (AlreadyAdded' <=> AlreadyAdded) /\ Right'
  BY SameMerges
<1>2. num' = num /\ worklen' = worklen /\ Merged' = Merged /\ datOut' = datOut /\ inputIdx' = inputIdx
  BY SameMerged
<1>3. OnceAdded'
  BY <1>1, <1>2 DEF MergeInv, OnceAdded
<1>4. Blocks'
  <2>1. SUFFICES ASSUME totwrote # num, inputIdx # num PROVE \E q \in Nat : inputIdx = q * worklen
    BY <1>2 DEF Blocks
  <2>2. numwritten = numread
    BY <2>1 DEF Inv, Places
  <2>3. numread = worklen /\ \E q \in Nat : start = q * worklen
    BY <2>1 DEF MergeInv, Blocks
  <2>4. PICK q \in Nat, w \in Nat \ {0} : start = q * w /\ w = worklen
    BY <2>3, WorklenPositive DEF Inv
  <2>5. inputIdx = q * w + w
    <3>1. start = inputIdx - numread /\ inputIdx \in Nat /\ numread \in Nat
      BY StateIs
    <3>2. q * w \in Nat
      BY MulNat
    <3> QED BY <2>3, <2>4, <3>1, <3>2
  <2>6. (q + 1) * w = q * w + w
    BY Z3
  <2> QED BY <2>4, <2>5, <2>6
<1>5. Finished'
  <2>1. SUFFICES ASSUME totwrote = num
                 PROVE  /\ Len(datOut) = num
                        /\ \A i \in 1..num : datOut[i] = IF i <= Len(Merged[num]) THEN Merged[num][i] ELSE Zero
    BY <1>2 DEF Finished
  <2>2. Len(datOut) = num
    BY <2>1 DEF Inv, Counters
  <2>3. PICK t \in Seq(Values) : Merged[num] = datOut \o t
    BY OutputBegins
  <2>4. datOut \in Seq(Values) /\ num \in Nat
    BY StateIs
  <2>5. Len(Merged[num]) = num + Len(t) /\ Len(t) \in Nat
    BY <2>2, <2>3, <2>4
  <2>6. ASSUME NEW i \in 1..num PROVE i <= Len(Merged[num]) /\ Merged[num][i] = datOut[i]
    <3>1. i <= Len(Merged[num])
      BY <2>4, <2>5
    <3>2. (datOut \o t)[i] = datOut[i]
      BY <2>2, <2>4
    <3> QED BY <2>3, <3>1, <3>2
  <2> QED BY <2>2, <2>6
<1> QED BY <1>1, <1>3, <1>4, <1>5 DEF MergeInv

LEMMA PadMerges == ASSUME Inv, MergeInv, num >= Block, Pad PROVE MergeInv'
<1>1. pc = "pad" /\ pc' = "done" /\ case' = case /\ d' = d /\ datawrote' = datawrote /\ totwrote' = totwrote
  BY DEF Pad
<1>2. Merged' = Merged /\ num' = num /\ diffs' = diffs
  BY <1>1, SameMerged
<1>3. datawrote = num
  <2>1. inputIdx = num /\ numread = 0
    BY <1>1 DEF MergeInv, Blocks
  <2>2. /\ numwritten <= numread /\ numwritten \in Nat /\ start = inputIdx - numread
        /\ datawrote = start + numwritten /\ num \in Nat
    BY StateIs
  <2> QED BY <2>1, <2>2
<1>4. num \in Nat /\ datOut \in Seq(Values) /\ totwrote \in Nat /\ totwrote <= num /\ Len(datOut) = totwrote
  BY <1>1, StateIs DEF Inv, Counters
<1>5. ~AlreadyAdded
  BY <1>3, <1>4, AlreadyIs DEF MergeInv
<1>6. datOut = Merged[num]
  <2>1. Merged[num] \in Seq(Values)
    BY <1>4, MergedIs DEF Inv
  <2> QED BY <1>1, <1>3, <1>5, <2>1, NoMore DEF MergeInv, Right, Pending
<1> DEFINE zeros == [i \in 1..(num - totwrote) |-> Zero]
<1>7. zeros \in Seq(Values) /\ Len(zeros) = num - totwrote
  BY <1>4 DEF Zero, Values
<1>8. \A i \in 1..(num - totwrote) : zeros[i] = Zero
  OBVIOUS
<1>9. datOut' = datOut \o zeros
  BY DEF Pad
<1> HIDE DEF zeros
<1>10. Len(datOut') = num
  BY <1>4, <1>7, <1>9
<1>11. ASSUME NEW i \in 1..num
       PROVE  datOut'[i] = IF i <= Len(datOut) THEN datOut[i] ELSE Zero
  <2>1. CASE i <= Len(datOut)
    BY <1>4, <1>7, <1>9, <2>1
  <2>2. CASE ~(i <= Len(datOut))
    <3>1. i - totwrote \in 1..(num - totwrote)
      BY <1>4, <2>2
    <3>2. datOut'[i] = zeros[i - totwrote]
      BY <1>4, <1>7, <1>9, <2>2
    <3> QED BY <1>8, <2>2, <3>1, <3>2
  <2> QED BY <2>1, <2>2
<1>12. Finished'
  BY <1>2, <1>6, <1>10, <1>11 DEF Finished
<1>13. Passed' /\ (AlreadyAdded' <=> AlreadyAdded)
  BY <1>1, <1>2 DEF MergeInv, Passed, AlreadyAdded
<1> QED BY <1>1, <1>12, <1>13 DEF MergeInv, Blocks, OnceAdded, Right

LEMMA StutterMerges == ASSUME MergeInv, UNCHANGED vars PROVE MergeInv'
<1>1. /\ pc' = pc /\ inputIdx' = inputIdx /\ numread' = numread /\ numwritten' = numwritten /\ d' = d
      /\ datawrote' = datawrote /\ totwrote' = totwrote /\ datOut' = datOut /\ case' = case
  BY DEF vars
<1>2. Merged' = Merged /\ num' = num /\ worklen' = worklen /\ diffs' = diffs
  BY <1>1, SameMerged
<1>3. Pending' = Pending
  BY <1>1, <1>2 DEF Pending, AlreadyAdded, AverageAt
<1> QED BY <1>1, <1>2, <1>3
        DEF MergeInv, Blocks, Passed, AlreadyAdded, OnceAdded, Right, Finished, start

\* For files of any length: the output is full.
Full == pc = "done" => Len(datOut) = num

Invs == Inv /\ Full /\ (num >= Block => MergeInv)

LEMMA InitInvs == Init => Invs
BY InitInv, InitMerges DEF Invs, Full, Init

LEMMA NextInvs == ASSUME Invs, [Next]_vars PROVE Invs'
<1>1. num' = num /\ diffs' = diffs
  BY DEF Next, vars, Read, FirstPart, AddBin, RemoveBin, RestPart, NextBlock, Pad, num, diffs
<1>2. Inv'
  BY NextInv DEF Invs
<1>3. (num >= Block => MergeInv)'
  <2>1. SUFFICES ASSUME num >= Block PROVE MergeInv'
    BY <1>1
  <2>2. Inv /\ MergeInv
    BY <2>1 DEF Invs
  <2> QED BY <2>1, <2>2, ReadMerges, FirstPartMerges, AddBinMerges, RemoveBinMerges, RestPartMerges,
             NextBlockMerges, PadMerges, StutterMerges DEF Next
<1>4. Full'
  <2>1. CASE NextBlock
    BY <1>1, <2>1 DEF Invs, Inv, Counters, Full, NextBlock
  <2>2. CASE Pad
    <3> DEFINE zeros == [i \in 1..(num - totwrote) |-> Zero]
    <3>1. num \in Nat /\ datOut \in Seq(Values) /\ totwrote \in Nat /\ totwrote <= num /\ Len(datOut) = totwrote
      BY <2>2, StateIs DEF Invs, Inv, Counters, Pad
    <3>2. zeros \in Seq(Values) /\ Len(zeros) = num - totwrote
      BY <3>1 DEF Zero, Values
    <3>3. datOut' = datOut \o zeros
      BY <2>2 DEF Pad
    <3> HIDE DEF zeros
    <3> QED BY <1>1, <3>1, <3>2, <3>3 DEF Full
  <2>3. CASE Read \/ FirstPart \/ AddBin \/ RemoveBin \/ RestPart
    BY <2>3 DEF Full, Read, FirstPart, AddBin, RemoveBin, RestPart
  <2>4. CASE UNCHANGED vars
    BY <1>1, <2>4 DEF Invs, Full, vars
  <2> QED BY <2>1, <2>2, <2>3, <2>4 DEF Next
<1> QED BY <1>2, <1>3, <1>4 DEF Invs

-----------------------------------------------------------------------------
(* The theorems.                                                           *)

\* The counters of DoBarycenterCorrection stay integers of their ranges, and
\* its output a sequence of samples, averages and zeros.
THEOREM TypeCorrect == Spec => []TypeOK
<1>1. Inv => TypeOK
  BY DEF Inv
<1> QED BY InitInv, NextInv, <1>1, PTL DEF Spec

\* No memcpy of DoBarycenterCorrection has a negative length, reads beyond the
\* block read last or writes beyond the num values of the output, and the
\* diffbin pointer stays in mDiffbins, whatever the length of the file and the
\* block size, as long as the diffbins increase up to one beyond the file.
THEOREM AlwaysMemorySafe == Spec => []MemorySafe
<1> QED BY InitInv, NextInv, InvSafe, PTL DEF Spec

\* The invariant that carries the proof: the block's bookkeeping agrees with
\* the samples used, and the next diffbin is never behind them.
THEOREM AlwaysAhead == Spec => [](Counters /\ Ahead)
<1>1. Inv => Counters /\ Ahead
  BY DEF Inv
<1> QED BY InitInv, NextInv, <1>1, PTL DEF Spec

\* The constructor of Barycenter makes room for as many diffbins as it writes,
\* the marker among them, for a file of any length, of any sample time and of
\* any drift that does not turn round.
THEOREM RoomForDiffbins ==
  ASSUME NEW samples \in Nat, NEW step \in Nat \ {0}, NEW drift,
         OneWay(drift, B!NumPoints(samples, step))
  PROVE  Len(B!Diffbins(drift, samples, step)) <= B!Slots(drift, samples, step)
<1>1. PICK n \in Nat \ {0} : n = B!NumPoints(samples, step)
  BY PointsNat
<1>2. PICK V : B!Found(drift, step, n) \in Seq(V) /\ Len(B!Found(drift, step, n)) <= Abs(Bin(drift[n - 1]))
  BY <1>1, FoundIs
<1>3. Len(Append(B!Found(drift, step, n), samples)) = Len(B!Found(drift, step, n)) + 1
      /\ Len(B!Found(drift, step, n)) \in Nat
  <2>1. B!Found(drift, step, n) \in Seq(V \cup {samples})
    BY <1>2
  <2> QED BY <2>1
<1>4. drift[n - 1] \in Int
  BY <1>1 DEF OneWay
<1>5. Abs(Bin(drift[n - 1])) \in Nat /\ B!Abs(Bin(drift[n - 1])) = Abs(Bin(drift[n - 1]))
  BY <1>4, BinIs, AbsNat DEF Abs, B!Abs
<1>6. B!Slots(drift, samples, step) = B!Abs(Bin(drift[n - 1])) + 1
  BY <1>1 DEF B!Slots, Bin
<1>7. B!Diffbins(drift, samples, step) = Append(B!Found(drift, step, n), samples)
  BY <1>1 DEF B!Diffbins
<1> QED BY <1>2, <1>3, <1>5, <1>6, <1>7

\* A case as the constructor makes them.
Constructed(c) ==
  \E step \in Nat \ {0} : \E drift :
    /\ OneWay(drift, B!NumPoints(c.num, step))
    /\ c.diffs = B!Diffbins(drift, c.num, step)
    /\ c.slots = B!Slots(drift, c.num, step)

\* As long as the drift does not turn round, the constructor writes within
\* mDiffbins, for all the cases it makes.
THEOREM AlwaysDiffbinsFit ==
  ASSUME \A c \in Cases : Constructed(c)
  PROVE  Spec => []DiffbinsFit
<1>1. Inv => DiffbinsFit
  <2> SUFFICES ASSUME Inv PROVE Len(case.diffs) <= case.slots
    BY DEF DiffbinsFit, diffs
  <2>1. case \in Cases /\ case.num \in Nat
    BY CaseType DEF Inv
  <2>2. PICK step \in Nat \ {0} : \E drift :
          /\ OneWay(drift, B!NumPoints(case.num, step))
          /\ case.diffs = B!Diffbins(drift, case.num, step)
          /\ case.slots = B!Slots(drift, case.num, step)
    BY <2>1 DEF Constructed
  <2>3. PICK drift :
          /\ OneWay(drift, B!NumPoints(case.num, step))
          /\ case.diffs = B!Diffbins(drift, case.num, step)
          /\ case.slots = B!Slots(drift, case.num, step)
    BY <2>2
  <2> QED BY <2>1, <2>3, RoomForDiffbins
<1> QED BY InitInv, NextInv, <1>1, PTL DEF Spec

\* What DoBarycenterCorrection has written when it ends is the file with the
\* samples at its negative diffbins left out and averages added at the positive
\* ones, cut or filled to its length, wherever the blocks end.
THEOREM AlwaysCorrected == Spec => []Corrected
<1>1. Invs => Corrected
  BY DEF Invs, Full, MergeInv, Finished, Corrected
<1> QED BY InitInvs, NextInvs, <1>1, PTL DEF Spec
=============================================================================
