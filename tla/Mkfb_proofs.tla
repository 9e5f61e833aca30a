----------------------------- MODULE Mkfb_proofs -----------------------------
(***************************************************************************)
(* The program mkfb for any command lines, scan files, catalogues and       *)
(* directories.  First the dates of module Scans, then what the order of a  *)
(* listing means, then the invariant of the program.                       *)
(***************************************************************************)
EXTENDS Mkfb, FiniteSetTheorems, TLAPS

\* Months numbered from March as month + 12 * a - 3 is.
LEMMA Months ==
  /\ (14 - 1) \div 12 = 1 /\ (14 - 2) \div 12 = 1
  /\ \A m \in 3..12 : (14 - m) \div 12 = 0
  BY Z3

\* The days of the months that are over, from March on, as in the formula.
LEMMA DaysOver ==
  /\ (153 * 0 + 2) \div 5 = 0 /\ (153 * 1 + 2) \div 5 = 31 /\ (153 * 2 + 2) \div 5 = 61
  /\ (153 * 3 + 2) \div 5 = 92 /\ (153 * 4 + 2) \div 5 = 122 /\ (153 * 5 + 2) \div 5 = 153
  /\ (153 * 6 + 2) \div 5 = 184 /\ (153 * 7 + 2) \div 5 = 214 /\ (153 * 8 + 2) \div 5 = 245
  /\ (153 * 9 + 2) \div 5 = 275 /\ (153 * 10 + 2) \div 5 = 306 /\ (153 * 11 + 2) \div 5 = 337
  BY Z3

\* The leap days before March of a year: one more than before March of the
\* year before it if and only if the year is a leap year.
LeapDays(y) == y \div 4 - y \div 100 + y \div 400

\* This counts the leap years.
LEMMA LeapDayCounted ==
  ASSUME NEW y \in Nat \ {0}
  PROVE  LeapDays(y) - LeapDays(y - 1) = IF IsLeap(y) THEN 1 ELSE 0
  BY Z3 DEF LeapDays, IsLeap

\* The Julian day in terms of the lemmas.
Before(m) == IF m < 3 THEN (IF m = 1 THEN 306 ELSE 337)
             ELSE IF m = 3 THEN 0 ELSE IF m = 4 THEN 31 ELSE IF m = 5 THEN 61
             ELSE IF m = 6 THEN 92 ELSE IF m = 7 THEN 122 ELSE IF m = 8 THEN 153
             ELSE IF m = 9 THEN 184 ELSE IF m = 10 THEN 214 ELSE IF m = 11 THEN 245 ELSE 275
MarchYear(y, m) == IF m < 3 THEN y + 4799 ELSE y + 4800

\* With which the formula reads as a count of days since a March.
LEMMA JulianDayIs ==
  ASSUME NEW y \in Nat, NEW m \in 1..12, NEW d \in 1..31
  PROVE  JulianDay(y, m, d) =
           d + Before(m) + 365 * MarchYear(y, m) + LeapDays(MarchYear(y, m)) - 32045
<1>1. CASE m = 1  BY <1>1, Months, DaysOver, Z3 DEF JulianDay, Before, MarchYear, LeapDays
<1>2. CASE m = 2  BY <1>2, Months, DaysOver, Z3 DEF JulianDay, Before, MarchYear, LeapDays
<1>3. CASE m = 3  BY <1>3, Months, DaysOver, Z3 DEF JulianDay, Before, MarchYear, LeapDays
<1>4. CASE m = 4  BY <1>4, Months, DaysOver, Z3 DEF JulianDay, Before, MarchYear, LeapDays
<1>5. CASE m = 5  BY <1>5, Months, DaysOver, Z3 DEF JulianDay, Before, MarchYear, LeapDays
<1>6. CASE m = 6  BY <1>6, Months, DaysOver, Z3 DEF JulianDay, Before, MarchYear, LeapDays
<1>7. CASE m = 7  BY <1>7, Months, DaysOver, Z3 DEF JulianDay, Before, MarchYear, LeapDays
<1>8. CASE m = 8  BY <1>8, Months, DaysOver, Z3 DEF JulianDay, Before, MarchYear, LeapDays
<1>9. CASE m = 9  BY <1>9, Months, DaysOver, Z3 DEF JulianDay, Before, MarchYear, LeapDays
<1>10. CASE m = 10  BY <1>10, Months, DaysOver, Z3 DEF JulianDay, Before, MarchYear, LeapDays
<1>11. CASE m = 11  BY <1>11, Months, DaysOver, Z3 DEF JulianDay, Before, MarchYear, LeapDays
<1>12. CASE m = 12  BY <1>12, Months, DaysOver, Z3 DEF JulianDay, Before, MarchYear, LeapDays
<1>13. QED BY <1>1, <1>2, <1>3, <1>4, <1>5, <1>6, <1>7, <1>8, <1>9, <1>10, <1>11, <1>12, Z3

\* MakeMJD counts every day of the calendar once: the day after a date, at the
\* turn of a month, of February in any year and of a year, has the next number.
THEOREM DayByDay ==
  ASSUME NEW y \in Nat \ {0}, NEW m \in 1..12, NEW d \in 1..DaysIn(y, m)
  PROVE  LET n == NextDay(y, m, d)
         IN  JulianDay(n[1], n[2], n[3]) = JulianDay(y, m, d) + 1
<1>1. d \in 1..31 /\ DaysIn(y, m) \in 28..31
  BY Z3 DEF DaysIn
<1>2. JulianDay(y, m, d) = d + Before(m) + 365 * MarchYear(y, m) + LeapDays(MarchYear(y, m)) - 32045
  BY <1>1, JulianDayIs
<1>3. CASE d < DaysIn(y, m)
  <2>1. NextDay(y, m, d) = <<y, m, d + 1>> /\ d + 1 \in 1..31
    BY <1>1, <1>3 DEF NextDay
  <2>2. JulianDay(y, m, d + 1) = d + 1 + Before(m) + 365 * MarchYear(y, m) + LeapDays(MarchYear(y, m)) - 32045
    BY <2>1, JulianDayIs
  <2>3. Before(m) \in Int /\ MarchYear(y, m) \in Nat /\ LeapDays(MarchYear(y, m)) \in Int
    BY Z3 DEF Before, MarchYear, LeapDays
  <2>4. QED BY <1>1, <1>2, <2>1, <2>2, <2>3
<1>4. CASE d = DaysIn(y, m) /\ m = 12
  <2>1. NextDay(y, m, d) = <<y + 1, 1, 1>> /\ d = 31
    BY <1>1, <1>4, Z3 DEF NextDay, DaysIn
  <2>2. JulianDay(y + 1, 1, 1) = 1 + 306 + 365 * (y + 4800) + LeapDays(y + 4800) - 32045
    BY JulianDayIs, Z3 DEF Before, MarchYear
  <2>3. JulianDay(y, m, d) = 31 + 275 + 365 * (y + 4800) + LeapDays(y + 4800) - 32045
    BY <1>2, <1>4, <2>1, Z3 DEF Before, MarchYear
  <2>4. LeapDays(y + 4800) \in Int
    BY Z3 DEF LeapDays
  <2>5. QED BY <2>1, <2>2, <2>3, <2>4
<1>5. CASE d = DaysIn(y, m) /\ m = 2
  <2>1. NextDay(y, m, d) = <<y, 3, 1>> /\ d = IF IsLeap(y) THEN 29 ELSE 28
    BY <1>1, <1>5, Z3 DEF NextDay, DaysIn
  <2>2. JulianDay(y, 3, 1) = 1 + 0 + 365 * (y + 4800) + LeapDays(y + 4800) - 32045
    BY JulianDayIs, Z3 DEF Before, MarchYear
  <2>3. JulianDay(y, m, d) = d + 337 + 365 * (y + 4799) + LeapDays(y + 4799) - 32045
    BY <1>2, <1>5, Z3 DEF Before, MarchYear
  <2>4. LeapDays(y + 4800) - LeapDays(y + 4799) = IF IsLeap(y + 4800) THEN 1 ELSE 0
    BY LeapDayCounted, Z3
  <2>5. IsLeap(y + 4800) = IsLeap(y)
    BY Z3 DEF IsLeap
  <2>6. LeapDays(y + 4800) \in Int /\ LeapDays(y + 4799) \in Int
    BY Z3 DEF LeapDays
  <2>7. QED BY <1>1, <2>1, <2>2, <2>3, <2>4, <2>5, <2>6, Z3
<1>6. CASE d = DaysIn(y, m) /\ m \notin {2, 12}
  <2>1. NextDay(y, m, d) = <<y, m + 1, 1>> /\ m + 1 \in 1..12
    BY <1>1, <1>6, Z3 DEF NextDay
  <2>2. JulianDay(y, m + 1, 1) = 1 + Before(m + 1) + 365 * MarchYear(y, m + 1) + LeapDays(MarchYear(y, m + 1)) - 32045
    BY <2>1, JulianDayIs, Z3
  <2>3. MarchYear(y, m + 1) = MarchYear(y, m)
    BY <1>6, Z3 DEF MarchYear
  <2>4. Before(m + 1) = Before(m) + d
    BY <1>6, Z3 DEF Before, DaysIn
  <2>5. Before(m) \in Int /\ MarchYear(y, m) \in Nat /\ LeapDays(MarchYear(y, m)) \in Int
    BY Z3 DEF Before, MarchYear, LeapDays
  <2>6. QED BY <1>1, <1>2, <2>1, <2>2, <2>3, <2>4, <2>5, Z3
<1>7. QED BY <1>1, <1>3, <1>4, <1>5, <1>6, Z3

\* And the count is anchored: the first of January 2000, at noon, has Julian
\* day 2451545.
THEOREM Anchored == JulianDay(2000, 1, 1) = 2451545
  BY Z3 DEF JulianDay
-----------------------------------------------------------------------------
(* Induction over numbers, from the well-foundedness of their order.       *)

LEMMA LeastNumber ==
  ASSUME NEW T \in SUBSET Nat, T # {}
  PROVE  \E x \in T : \A y \in T : x <= y
<1> DEFINE R == OpToRel(<, Nat)
<1>1. IsWellFoundedOn(R, Nat)
  BY NatLessThanWellFounded
<1>2. \A x, y \in Nat : y < x => <<y, x>> \in R
  BY DEF OpToRel
<1> HIDE DEF R
<1>3. PICK x \in T : \A y \in T : ~(<<y, x>> \in R)
  BY <1>1, WFMin
<1>4. \A y \in T : ~(y < x)
  BY <1>2, <1>3
<1> QED BY <1>3, <1>4

LEMMA SetInduction ==
  ASSUME NEW S, 0 \in S, \A n \in Nat : n \in S => n + 1 \in S
  PROVE  Nat \subseteq S
<1> SUFFICES ASSUME Nat \ S # {} PROVE FALSE
  OBVIOUS
<1>1. PICK x \in Nat \ S : \A y \in Nat \ S : x <= y
  BY LeastNumber
<1>2. x - 1 \in Nat
  BY <1>1
<1> QED BY <1>1, <1>2

\* A finite set of integers has a least element.
LEMMA LeastOfFinite ==
  ASSUME NEW X \in SUBSET Int, IsFiniteSet(X), X # {}
  PROVE  \E x \in X : \A y \in X : x <= y
<1> DEFINE S == {n \in Nat : \A Y \in SUBSET Int :
                   IsFiniteSet(Y) /\ Cardinality(Y) = n /\ Y # {}
                     => \E x \in Y : \A y \in Y : x <= y}
<1>1. 0 \in S
  BY FS_EmptySet
<1>2. ASSUME NEW n \in Nat, n \in S PROVE n + 1 \in S
  <2> SUFFICES ASSUME NEW Y \in SUBSET Int, IsFiniteSet(Y), Cardinality(Y) = n + 1, Y # {}
               PROVE  \E x \in Y : \A y \in Y : x <= y
    OBVIOUS
  <2>1. PICK a \in Y : TRUE
    OBVIOUS
  <2>2. IsFiniteSet(Y \ {a}) /\ Cardinality(Y \ {a}) = n
    <3>1. a \in Y
      BY <2>1
    <3>2. IsFiniteSet(Y \ {a}) /\ Cardinality(Y \ {a}) = Cardinality(Y) - 1
      BY <3>1, FS_RemoveElement
    <3> QED BY <3>2
  <2>3. CASE Y \ {a} = {}
    BY <2>1, <2>3
  <2>4. CASE Y \ {a} # {}
    <3>1. PICK b \in Y \ {a} : \A y \in Y \ {a} : b <= y
      BY <1>2, <2>2, <2>4
    <3>2. a \in Int /\ b \in Int
      BY <2>1, <3>1
    <3>3. CASE a <= b
      BY <2>1, <3>1, <3>2, <3>3
    <3>4. CASE ~(a <= b)
      BY <2>1, <3>1, <3>2, <3>4
    <3> QED BY <3>3, <3>4
  <2> QED BY <2>3, <2>4
<1> HIDE DEF S
<1>3. Nat \subseteq S
  BY <1>1, <1>2, SetInduction
<1>4. Cardinality(X) \in S
  BY <1>3, FS_CardinalityType
<1> QED BY <1>4 DEF S

-----------------------------------------------------------------------------
(* Lists in order.                                                         *)

Ascending(s) == \A i, j \in DOMAIN s : i < j => s[i] < s[j]

\* A finite set of integers can be listed in order,
LEMMA Listable ==
  ASSUME NEW X \in SUBSET Int, IsFiniteSet(X)
  PROVE  \E s \in [1..Cardinality(X) -> X] : Ascending(s)
<1> DEFINE S == {n \in Nat : \A Y \in SUBSET Int :
                   IsFiniteSet(Y) /\ Cardinality(Y) = n
                     => \E s \in [1..n -> Y] : Ascending(s)}
<1>1. 0 \in S
  <2> SUFFICES ASSUME NEW Y \in SUBSET Int
               PROVE  \E s \in [1..0 -> Y] : Ascending(s)
    OBVIOUS
  <2> DEFINE e == [i \in 1..0 |-> 0]
  <2>1. e \in [1..0 -> Y] /\ Ascending(e)
    BY DEF Ascending
  <2> QED BY <2>1
<1>2. ASSUME NEW n \in Nat, n \in S PROVE n + 1 \in S
  <2> SUFFICES ASSUME NEW Y \in SUBSET Int, IsFiniteSet(Y), Cardinality(Y) = n + 1
               PROVE  \E s \in [1..(n + 1) -> Y] : Ascending(s)
    OBVIOUS
  <2>1. Y # {}
    BY FS_EmptySet
  <2>2. PICK a \in Y : \A y \in Y : a <= y
    BY <2>1, LeastOfFinite
  <2>3. IsFiniteSet(Y \ {a}) /\ Cardinality(Y \ {a}) = n
    <3>1. a \in Y
      BY <2>2
    <3>2. IsFiniteSet(Y \ {a}) /\ Cardinality(Y \ {a}) = Cardinality(Y) - 1
      BY <3>1, FS_RemoveElement
    <3> QED BY <3>2
  <2>4. PICK s \in [1..n -> Y \ {a}] : Ascending(s)
    BY <1>2, <2>3
  <2> DEFINE t == [i \in 1..(n + 1) |-> IF i = 1 THEN a ELSE s[i - 1]]
  <2>5. \A i \in 1..(n + 1) : i # 1 => i - 1 \in 1..n
    OBVIOUS
  <2>6. t \in [1..(n + 1) -> Y]
    BY <2>2, <2>4, <2>5
  <2>7. ASSUME NEW i \in 1..(n + 1), NEW j \in 1..(n + 1), i < j PROVE t[i] < t[j]
    <3>1. j # 1 /\ j - 1 \in 1..n /\ t[j] = s[j - 1]
      BY <2>7
    <3>2. s[j - 1] \in Y \ {a} /\ s[j - 1] \in Int /\ a \in Int
      BY <2>2, <2>4, <3>1
    <3>3. CASE i = 1
      <4>1. t[i] = a /\ a <= s[j - 1] /\ a # s[j - 1]
        BY <2>2, <3>2, <3>3
      <4> HIDE DEF t
      <4> QED BY <3>1, <3>2, <4>1
    <3>4. CASE i # 1
      <4>1. i - 1 \in 1..n /\ i - 1 < j - 1 /\ t[i] = s[i - 1]
        BY <2>7, <3>4
      <4> QED BY <2>4, <3>1, <4>1 DEF Ascending
    <3> QED BY <3>3, <3>4
  <2>8. Ascending(t)
    BY <2>6, <2>7 DEF Ascending
  <2> QED BY <2>6, <2>8
<1> HIDE DEF S
<1>3. Nat \subseteq S
  BY <1>1, <1>2, SetInduction
<1>4. Cardinality(X) \in S
  BY <1>3, FS_CardinalityType
<1> QED BY <1>4 DEF S

\* and InOrder lists each of its elements once.
LEMMA Listed ==
  ASSUME NEW X \in SUBSET Int, IsFiniteSet(X)
  PROVE  /\ Cardinality(X) \in Nat
         /\ InOrder(X) \in [1..Cardinality(X) -> X] /\ Ascending(InOrder(X))
         /\ \A x \in X : \E i \in 1..Cardinality(X) : InOrder(X)[i] = x
<1>1. Cardinality(X) \in Nat
  BY FS_CardinalityType
<1>2. InOrder(X) \in [1..Cardinality(X) -> X] /\ Ascending(InOrder(X))
  BY Listable DEF InOrder, Ascending
<1> DEFINE n == Cardinality(X)
           s == InOrder(X)
<1> HIDE DEF s
<1>3. s \in Injection(1..n, X)
  <2> SUFFICES ASSUME NEW i \in 1..n, NEW j \in 1..n, s[i] = s[j] PROVE i = j
    BY <1>2 DEF Injection, IsInjective, s
  <2>1. s[i] \in Int /\ s[j] \in Int
    BY <1>2 DEF s
  <2>2. ~(i < j) /\ ~(j < i)
    BY <1>2, <2>1 DEF Ascending, s
  <2> QED BY <1>1, <2>2
<1>4. IsFiniteSet(1..n) /\ Cardinality(1..n) = n
  BY <1>1, FS_Interval
<1>5. s \in Surjection(1..n, X)
  BY <1>3, <1>4, FS_Injection
<1> QED BY <1>1, <1>2, <1>5 DEF Surjection, s

-----------------------------------------------------------------------------
(* What the program reads.                                                 *)

\* The files of a listing: those with the prefix, in order, each once.
ListingOf(s, p, D) ==
  /\ s \in Seq(D)
  /\ \A i \in DOMAIN s : s[i] \in D /\ s[i][1] = p
  /\ \A i, j \in DOMAIN s : i < j => s[i][2] < s[j][2]
  /\ \A f \in D : f[1] = p => \E i \in DOMAIN s : s[i] = f

LEMMA FileIs ==
  ASSUME NEW f \in Files
  PROVE  f = <<f[1], f[2]>> /\ f[1] \in {<<0>>} \cup Dates /\ f[2] \in Nat
BY DEF Files

LEMMA InDirLists ==
  ASSUME IsFiniteSet(dir), dir \subseteq Files, NEW p
  PROVE  ListingOf(InDir(p), p, dir)
<1> DEFINE own == {g \in dir : g[1] = p}
           X == {f[2] : f \in own}
           h == [f \in own |-> f[2]]
<1>1. IsFiniteSet(own)
  BY FS_Subset
<1>2. h \in Surjection(own, X)
  BY DEF Surjection
<1>3. IsFiniteSet(X)
  BY <1>1, <1>2, FS_Surjection
<1>4. \A f \in own : f = <<p, f[2]>> /\ f[2] \in Nat
  BY FileIs
<1>5. X \in SUBSET Int
  BY <1>4
<1> DEFINE n == Cardinality(X)
           s == InOrder(X)
           t == [i \in DOMAIN s |-> <<p, s[i]>>]
<1>6. /\ n \in Nat /\ s \in [1..n -> X] /\ Ascending(s)
      /\ \A x \in X : \E i \in 1..n : s[i] = x
  BY <1>3, <1>5, Listed
<1>7. InDir(p) = t
  BY DEF InDir
<1> HIDE DEF n, s
<1>8. ASSUME NEW i \in 1..n PROVE <<p, s[i]>> \in own
  <2>1. s[i] \in X
    BY <1>6
  <2>2. PICK f \in own : f[2] = s[i]
    BY <2>1
  <2> QED BY <1>4, <2>2
<1>9. t \in [1..n -> dir] /\ DOMAIN t = 1..n
  BY <1>6, <1>8
<1>10. t \in Seq(dir)
  BY <1>6, <1>9
<1>11. \A i \in DOMAIN t : t[i] \in dir /\ t[i][1] = p
  BY <1>6, <1>8, <1>9
<1>12. \A i, j \in DOMAIN t : i < j => t[i][2] < t[j][2]
  BY <1>6, <1>9 DEF Ascending
<1>13. ASSUME NEW f \in dir, f[1] = p PROVE \E i \in DOMAIN t : t[i] = f
  <2>1. f \in own /\ f[2] \in X /\ f = <<p, f[2]>>
    BY <1>4, <1>13
  <2>2. PICK i \in 1..n : s[i] = f[2]
    BY <1>6, <2>1
  <2> QED BY <1>6, <1>9, <2>1, <2>2
<1> QED BY <1>7, <1>10, <1>11, <1>12, <1>13 DEF ListingOf

\* A command line is of the kind argp makes.
LEMMA CommandIs ==
  ASSUME cmd \in Commands
  PROVE  /\ CommandOk(cmd) /\ cmd.skip \in Int /\ cmd.num \in Int /\ cmd.scanNum \in Int
         /\ cmd.scans \in {NoFile, Missing} \cup Seq(Lines)
         /\ cmd.catalog \in {NoFile, Missing} \cup Seq(Entry)
         /\ "skip" \in cmd.opts \/ cmd.skip = 0
         /\ "num" \in cmd.opts \/ cmd.num = 0
         /\ ~Rejected => cmd.skip \in Nat /\ cmd.num \in Nat
<1>1. CommandOk(cmd)
  BY MkfbAssumption
<1>2. cmd \in [batch : BOOLEAN, monitor : BOOLEAN, paths : BOOLEAN,
            opts : SUBSET {"scan-num", "skip", "num"}, scanNum : Int, skip : Int, num : Int,
            scans : {NoFile, Missing} \cup Seq(Lines),
            catalog : {NoFile, Missing} \cup Seq(Entry), conf : {cmd.conf}]
  BY <1>1 DEF CommandOk
<1>3. /\ cmd.skip \in Int /\ cmd.num \in Int /\ cmd.scanNum \in Int
      /\ cmd.scans \in {NoFile, Missing} \cup Seq(Lines)
      /\ cmd.catalog \in {NoFile, Missing} \cup Seq(Entry)
  BY <1>2
<1>4. ("skip" \in cmd.opts \/ cmd.skip = 0) /\ ("num" \in cmd.opts \/ cmd.num = 0)
  BY <1>1 DEF CommandOk
<1>5. ~Rejected => cmd.skip \in Nat /\ cmd.num \in Nat
  BY <1>3, <1>4 DEF Rejected
<1> QED BY <1>1, <1>3, <1>4, <1>5

\* A scan is that of its line, the first of its number.
LEMMA ScanIs ==
  ASSUME cmd.scans \in Seq(Lines), NEW n \in DOMAIN ScanFile(cmd.scans)
  PROVE  /\ LineOf(n) \in Lines /\ LineOf(n).num = n
         /\ ScanFile(cmd.scans)[n] = Scan(LineOf(n))
<1> DEFINE lines == cmd.scans
           T == {i \in ReadOf(lines) : lines[i].num = n}
<1>1. ReadOf(lines) \subseteq DOMAIN lines /\ DOMAIN lines = 1..Len(lines) /\ Len(lines) \in Nat
  BY DEF ReadOf
<1>2. T \in SUBSET Nat /\ T # {}
  BY <1>1 DEF ScanFile
<1>3. PICK i \in T : \A j \in T : i <= j
  BY <1>2, LeastNumber
<1>4. \A j \in ReadOf(lines) : lines[j].num = n => i <= j
  BY <1>3
<1>5. \A j \in 1..(i - 1) : j \in ReadOf(lines) /\ lines[j].num # n
  <2> TAKE j \in 1..(i - 1)
  <2>1. i \in 1..Len(lines) /\ i \in ReadOf(lines)
    BY <1>1, <1>3
  <2>2. j \in 1..Len(lines) /\ j < i
    BY <1>1, <2>1
  <2>3. Blanks(lines) \subseteq 1..Len(lines)
    BY <1>1 DEF Blanks
  <2>4. \A b \in Blanks(lines) : i < b /\ b \in Nat
    BY <2>1, <2>3 DEF ReadOf
  <2>5. j \in ReadOf(lines)
    BY <1>1, <2>1, <2>2, <2>4 DEF ReadOf
  <2>6. lines[j].num # n
    BY <1>4, <2>1, <2>2, <2>5
  <2> QED BY <2>5, <2>6
<1>6. \A h \in ReadOf(lines) :
        lines[h].num = n /\ (\A j \in 1..(h - 1) : lines[j].num # n) => h = i
  <2> SUFFICES ASSUME NEW h \in ReadOf(lines), lines[h].num = n,
                      \A j \in 1..(h - 1) : lines[j].num # n
               PROVE  h = i
    OBVIOUS
  <2>1. h \in Nat /\ i \in Nat /\ i >= 1 /\ i <= h /\ lines[i].num = n
    BY <1>1, <1>3, <1>4
  <2>2. ~(i < h)
    BY <2>1
  <2> QED BY <2>1, <2>2
<1>7. LineOf(n) = lines[i]
  <2> DEFINE P(line) == \E h \in ReadOf(lines) :
                          line = lines[h] /\ line.num = n /\ \A j \in 1..(h - 1) : lines[j].num # n
             L == {lines[h] : h \in ReadOf(lines)}
  <2>1. lines[i] \in L /\ P(lines[i])
    BY <1>3, <1>5
  <2>2. \A line \in L : P(line) => line = lines[i]
    BY <1>6
  <2>3. LineOf(n) = CHOOSE line \in L : P(line)
    BY DEF LineOf
  <2> HIDE DEF P, L
  <2> QED BY <2>1, <2>2, <2>3
<1>8. ScanFile(lines)[n] = Scan(lines[i])
  <2> DEFINE Q(h) == lines[h].num = n /\ \A j \in ReadOf(lines) : lines[j].num = n => h <= j
  <2>1. i \in ReadOf(lines) /\ Q(i)
    BY <1>3, <1>4
  <2>2. \A h \in ReadOf(lines) : Q(h) => h = i
    BY <1>1, <2>1
  <2>3. ScanFile(lines)[n] = Scan(lines[CHOOSE h \in ReadOf(lines) : Q(h)])
    BY DEF ScanFile
  <2> HIDE DEF Q
  <2> QED BY <2>1, <2>2, <2>3
<1>9. lines[i] \in Lines
  BY <1>1, <1>3
<1> QED BY <1>3, <1>7, <1>8, <1>9

LEMMA HundredsType == \A y \in Nat : y \div 100 \in Nat /\ y % 100 \in 0..99
OBVIOUS

LEMMA HundredsRest == \A y \in Nat : y % 100 = y - 100 * (y \div 100)
OBVIOUS

LEMMA Hundreds == \A y \in Nat : y = 100 * (y \div 100) + (y % 100)
BY HundredsType, HundredsRest

LEMMA HundredsUnique ==
  ASSUME NEW y \in Nat, NEW a \in Nat, NEW b \in Nat, b < 100, y = 100 * a + b
  PROVE  a = y \div 100 /\ b = y % 100
OBVIOUS

LEMMA DateIs ==
  ASSUME NEW p \in Dates
  PROVE  \E yr \in Years, mo \in 1..12, day \in 1..31, hour \in 0..23 :
           p = <<yr, mo, day, hour>>
<1>1. p = <<p[1], p[2], p[3], p[4]>>
  BY DEF Dates
<1>2. p[1] \in Years /\ p[2] \in 1..12 /\ p[3] \in 1..31 /\ p[4] \in 0..23
  BY DEF Dates
<1> QED BY <1>1, <1>2, Zenon

\* The leap years since 2000, counted one by one.
Leaps(n) == {y \in 2000..n : IsLeap(y)}

LEMMA LeapsCounted ==
  ASSUME NEW n \in Nat
  PROVE  /\ IsFiniteSet(Leaps(1999 + n))
         /\ Cardinality(Leaps(1999 + n)) = LeapDays(1999 + n) - LeapDays(1999)
<1> DEFINE P(m) == /\ IsFiniteSet(Leaps(1999 + m))
                   /\ Cardinality(Leaps(1999 + m)) = LeapDays(1999 + m) - LeapDays(1999)
           S == {m \in Nat : P(m)}
<1>1. 0 \in S
  <2>1. Leaps(1999 + 0) = {}
    BY DEF Leaps
  <2>2. LeapDays(1999) \in Int /\ 1999 + 0 = 1999
    BY Z3 DEF LeapDays
  <2> QED BY <2>1, <2>2, FS_EmptySet
<1>2. ASSUME NEW m \in Nat, m \in S PROVE m + 1 \in S
  <2> DEFINE y == 1999 + (m + 1)
  <2>1. y \in Nat \ {0} /\ y - 1 = 1999 + m
    OBVIOUS
  <2>2. LeapDays(y) \in Int /\ LeapDays(y - 1) \in Int /\ LeapDays(1999) \in Int
    BY <2>1, Z3 DEF LeapDays
  <2>3. LeapDays(y) - LeapDays(y - 1) = IF IsLeap(y) THEN 1 ELSE 0
    BY <2>1, LeapDayCounted
  <2>4. IsFiniteSet(Leaps(y - 1)) /\ Cardinality(Leaps(y - 1)) = LeapDays(y - 1) - LeapDays(1999)
    BY <1>2, <2>1
  <2>5. 2000..y = 2000..(y - 1) \cup {y} /\ y \notin 2000..(y - 1)
    OBVIOUS
  <2> HIDE DEF y
  <2>6. CASE IsLeap(y)
    <3>1. Leaps(y) = Leaps(y - 1) \cup {y} /\ y \notin Leaps(y - 1)
      BY <2>5, <2>6 DEF Leaps
    <3>2. IsFiniteSet(Leaps(y)) /\ Cardinality(Leaps(y)) = Cardinality(Leaps(y - 1)) + 1
      BY <2>4, <3>1, FS_AddElement
    <3> QED BY <2>2, <2>3, <2>4, <2>6, <3>2 DEF y
  <2>7. CASE ~IsLeap(y)
    <3>1. Leaps(y) = Leaps(y - 1)
      BY <2>5, <2>7 DEF Leaps
    <3> QED BY <2>2, <2>3, <2>4, <2>7, <3>1 DEF y
  <2> QED BY <2>6, <2>7
<1> HIDE DEF S
<1>3. n \in S
  BY <1>1, <1>2, SetInduction
<1> QED BY <1>3 DEF S

\* The days of a year that are over at the start of a month.
DaysBefore(y, m) == {md \in (1..12) \X (1..31) : md[1] < m /\ md[2] <= DaysIn(y, md[1])}

LEMMA OneMonthMore ==
  ASSUME NEW y \in Nat, NEW m \in 1..12, IsFiniteSet(DaysBefore(y, m))
  PROVE  /\ IsFiniteSet(DaysBefore(y, m + 1))
         /\ Cardinality(DaysBefore(y, m + 1)) = Cardinality(DaysBefore(y, m)) + DaysIn(y, m)
<1> DEFINE n == DaysIn(y, m)
           M == {m} \X (1..n)
<1>1. n \in Nat /\ n <= 31
  BY DEF DaysIn
<1> HIDE DEF n
<1>2. IsFiniteSet(1..n) /\ Cardinality(1..n) = n
  BY <1>1, FS_Interval
<1>3. IsFiniteSet({m}) /\ Cardinality({m}) = 1
  BY FS_Singleton
<1>4. IsFiniteSet(M) /\ Cardinality(M) = 1 * n
  <2>1. /\ IsFiniteSet({m} \X (1..n))
        /\ Cardinality({m} \X (1..n)) = Cardinality({m}) * Cardinality(1..n)
    BY <1>2, <1>3, FS_Product
  <2> QED BY <1>2, <1>3, <2>1
<1>5. M \subseteq DaysBefore(y, m + 1)
  BY <1>1 DEF DaysBefore, n
<1>6. DaysBefore(y, m) \subseteq DaysBefore(y, m + 1)
  BY DEF DaysBefore
<1>7. \A md \in DaysBefore(y, m + 1) : md \in DaysBefore(y, m) \/ md \in M
  BY <1>1 DEF DaysBefore, n
<1>8. DaysBefore(y, m) \cap M = {}
  BY DEF DaysBefore
<1>9. DaysBefore(y, m + 1) = DaysBefore(y, m) \cup M
  BY <1>5, <1>6, <1>7
<1>10. /\ IsFiniteSet(DaysBefore(y, m) \cup M)
       /\ Cardinality(DaysBefore(y, m) \cup M)
            = Cardinality(DaysBefore(y, m)) + Cardinality(M) - Cardinality(DaysBefore(y, m) \cap M)
  BY <1>4, FS_Union
<1>11. Cardinality(DaysBefore(y, m) \cap M) = 0 /\ Cardinality(DaysBefore(y, m)) \in Nat
  BY <1>8, FS_EmptySet, FS_CardinalityType
<1>12. Cardinality(M) = n
  BY <1>1, <1>4
<1>13. /\ IsFiniteSet(DaysBefore(y, m + 1))
       /\ Cardinality(DaysBefore(y, m + 1)) = Cardinality(DaysBefore(y, m)) + n - 0
  BY <1>9, <1>10, <1>11, <1>12
<1>14. Cardinality(DaysBefore(y, m)) + n - 0 = Cardinality(DaysBefore(y, m)) + n
  BY <1>1, <1>11
<1> QED BY <1>13, <1>14 DEF n

LEMMA DaysCounted ==
  ASSUME NEW y \in Nat, NEW m \in 1..12
  PROVE  Cardinality(DaysBefore(y, m)) =
           IF m = 1 THEN 0 ELSE IF m = 2 THEN 31
           ELSE 59 + (IF IsLeap(y) THEN 1 ELSE 0) + Before(m)
<1> DEFINE P(i, c) == IsFiniteSet(DaysBefore(y, i)) /\ Cardinality(DaysBefore(y, i)) = c
           l == IF IsLeap(y) THEN 1 ELSE 0
<1>0. l \in Nat
  OBVIOUS
<1>1. P(1, 0)
  <2>1. DaysBefore(y, 1) = {}
    BY DEF DaysBefore
  <2> QED BY <2>1, FS_EmptySet
<1>2. \A i \in 1..12, c \in Nat : P(i, c) => P(i + 1, c + DaysIn(y, i))
  BY OneMonthMore
<1>d. /\ DaysIn(y, 1) = 31 /\ DaysIn(y, 2) = 28 + l /\ DaysIn(y, 3) = 31 /\ DaysIn(y, 4) = 30
      /\ DaysIn(y, 5) = 31 /\ DaysIn(y, 6) = 30 /\ DaysIn(y, 7) = 31 /\ DaysIn(y, 8) = 31
      /\ DaysIn(y, 9) = 30 /\ DaysIn(y, 10) = 31 /\ DaysIn(y, 11) = 30
  BY DEF DaysIn
<1> HIDE DEF P, l
<1>3. P(2, 31)
  BY <1>1, <1>2, <1>d
<1>4. P(3, 59 + l)
  BY <1>0, <1>2, <1>3, <1>d
<1>5. P(4, 90 + l)
  BY <1>0, <1>2, <1>4, <1>d
<1>6. P(5, 120 + l)
  BY <1>0, <1>2, <1>5, <1>d
<1>7. P(6, 151 + l)
  BY <1>0, <1>2, <1>6, <1>d
<1>8. P(7, 181 + l)
  BY <1>0, <1>2, <1>7, <1>d
<1>9. P(8, 212 + l)
  BY <1>0, <1>2, <1>8, <1>d
<1>10. P(9, 243 + l)
  BY <1>0, <1>2, <1>9, <1>d
<1>11. P(10, 273 + l)
  BY <1>0, <1>2, <1>10, <1>d
<1>12. P(11, 304 + l)
  BY <1>0, <1>2, <1>11, <1>d
<1>13. P(12, 334 + l)
  BY <1>0, <1>2, <1>12, <1>d
<1>14. P(m, IF m = 1 THEN 0 ELSE IF m = 2 THEN 31 ELSE 59 + l + Before(m))
  <2>1. m \in {1, 2, 3, 4, 5, 6, 7, 8, 9, 10, 11, 12}
    OBVIOUS
  <2> QED BY <1>0, <1>1, <1>3, <1>4, <1>5, <1>6, <1>7, <1>8, <1>9, <1>10, <1>11, <1>12, <1>13,
             <2>1 DEF Before
<1> QED BY <1>14 DEF P, l

\* What MakeMJD computes is what a calendar gives: the years since 2000 with
\* their leap days, the days of the months that are over, and the day.
LEMMA HoursIs ==
  ASSUME NEW p \in Dates
  PROVE  MakeMJD(p) = Hours(p)
<1>1. PICK y \in Years, m \in 1..12, d \in 1..31, h \in 0..23 : p = <<y, m, d, h>>
  BY DateIs, Zenon
<1>2. Len(p) = 4 /\ p[1] = y /\ p[2] = m /\ p[3] = d /\ p[4] = h
  BY <1>1
<1>3. y \in Nat /\ y >= 2000
  BY DEF Years
<1>4. PICK n \in Nat : y = 2000 + n
  <2>1. y - 2000 \in Nat /\ y = 2000 + (y - 2000)
    BY <1>3
  <2> QED BY <2>1
<1>5. Cardinality(Leaps(y - 1)) = LeapDays(y - 1) - 484
  <2>1. LeapDays(1999) = 484
    BY Z3 DEF LeapDays
  <2>2. y - 1 = 1999 + n
    BY <1>4
  <2> QED BY <2>1, <2>2, LeapsCounted
<1>6. /\ LeapDays(y) = LeapDays(y - 1) + (IF IsLeap(y) THEN 1 ELSE 0)
      /\ LeapDays(y + 4800) = LeapDays(y) + 1164
      /\ LeapDays(y + 4799) = LeapDays(y - 1) + 1164
  <2>1. y \in Nat \ {0} /\ LeapDays(y) \in Int /\ LeapDays(y - 1) \in Int
    BY <1>3, Z3 DEF LeapDays
  <2>2. LeapDays(y) - LeapDays(y - 1) = IF IsLeap(y) THEN 1 ELSE 0
    BY <2>1, LeapDayCounted
  <2>3. /\ LeapDays(y + 4800) = LeapDays(y) + 1164
        /\ LeapDays(y + 4799) = LeapDays(y - 1) + 1164
    BY <1>3, Z3 DEF LeapDays
  <2> QED BY <2>1, <2>2, <2>3
<1>7. JulianDay(y, m, d) = d + Before(m) + 365 * MarchYear(y, m) + LeapDays(MarchYear(y, m)) - 32045
  BY <1>3, JulianDayIs
<1> DEFINE l == IF IsLeap(y) THEN 1 ELSE 0
           L == LeapDays(y - 1)
           C == Cardinality(DaysBefore(y, m))
<1>8. l \in Nat /\ L \in Int
  BY <1>3, Z3 DEF LeapDays
<1>9. C = IF m = 1 THEN 0 ELSE IF m = 2 THEN 31 ELSE 59 + l + Before(m)
  BY <1>3, DaysCounted
<1>10. MakeMJD(p) = 24 * JulianDay(y, m, d) + (h - 12) - 57600012
  BY <1>2 DEF MakeMJD, IsDate
<1>11. Hours(p) = 24 * (51544 + 365 * (y - 2000) + (L - 484) + C + d - 1) + h
  BY <1>2, <1>5 DEF Hours, Leaps, DaysBefore
<1>12. Before(m) \in Nat
  BY DEF Before
<1>13. JulianDay(y, m, d) - 2400001 = 51544 + 365 * (y - 2000) + (L - 484) + C + d - 1
  <2>1. CASE m < 3
    <3>1. JulianDay(y, m, d) = d + Before(m) + 365 * (y + 4799) + (L + 1164) - 32045
      BY <1>6, <1>7, <2>1 DEF MarchYear
    <3>2. Before(m) = 306 + C
      BY <1>9, <2>1 DEF Before
    <3>3. C \in Nat
      BY <1>9, <2>1
    <3> HIDE DEF C, L, l
    <3> QED BY <1>3, <1>8, <3>1, <3>2, <3>3
  <2>2. CASE m >= 3
    <3>1. JulianDay(y, m, d) = d + Before(m) + 365 * (y + 4800) + (L + l + 1164) - 32045
      BY <1>6, <1>7, <2>2 DEF MarchYear
    <3>2. C = 59 + l + Before(m)
      BY <1>9, <2>2
    <3> HIDE DEF C, L, l
    <3> QED BY <1>3, <1>8, <1>12, <3>1, <3>2
  <2> QED BY <2>1, <2>2
<1>14. JulianDay(y, m, d) \in Int
  <2>1. LeapDays(MarchYear(y, m)) \in Int /\ MarchYear(y, m) \in Int
    BY <1>3, Z3 DEF LeapDays, MarchYear
  <2> QED BY <1>7, <1>12, <2>1
<1>15. 24 * JulianDay(y, m, d) + (h - 12) - 57600012 = 24 * (JulianDay(y, m, d) - 2400001) + h
  BY <1>14
<1> QED BY <1>10, <1>11, <1>13, <1>15

\* The prefix of a scan is the one date its line begins at.
LEMMA PrefixBegins ==
  ASSUME NEW line \in Lines
  PROVE  /\ Len(Scan(line).Prefix) = 4 /\ Begins(line, Scan(line).Prefix)
         /\ \A p \in {<<0>>} \cup Dates : Begins(line, p) => p = Scan(line).Prefix
<1> DEFINE ymd == line.ymd
           P == <<ymd \div 10000 + 2000, (ymd \div 100) % 100, ymd % 100, line.hour>>
<1>1. ymd \in Nat /\ line.hour \in Nat
  BY DEF Lines
<1>2. Scan(line).Prefix = P
  BY DEF Scan
<1> HIDE DEF ymd
<1>3. Len(P) = 4 /\ P[1] = ymd \div 10000 + 2000 /\ P[2] = (ymd \div 100) % 100
      /\ P[3] = ymd % 100 /\ P[4] = line.hour
  OBVIOUS
<1> DEFINE a == ymd \div 100
<1>10. ymd = 100 * a + (ymd % 100) /\ a \in Nat /\ ymd % 100 \in 0..99
  BY <1>1, Hundreds, HundredsType
<1>12. ymd \div 10000 = a \div 100 /\ (ymd \div 100) % 100 = a % 100
  BY <1>1, Z3
<1> HIDE DEF a
<1>11. a = 100 * (a \div 100) + (a % 100) /\ a \div 100 \in Nat /\ a % 100 \in 0..99
  BY <1>10, Hundreds, HundredsType
<1>4. (ymd \div 10000) * 10000 + ((ymd \div 100) % 100) * 100 + (ymd % 100) = ymd
  BY <1>1, <1>10, <1>11, <1>12
<1>5. Begins(line, P)
  BY <1>1, <1>3, <1>4, Z3 DEF Begins, ymd
<1>6. \A p \in {<<0>>} \cup Dates : Begins(line, p) => p = P
  <2> TAKE p \in {<<0>>} \cup Dates
  <2>0. HAVE Begins(line, p)
  <2>1. p \in Dates
    BY <2>0 DEF Begins
  <2>2. PICK yr \in Years, mo \in 1..12, day \in 1..31, hour \in 0..23 :
          p = <<yr, mo, day, hour>>
    BY <2>1, DateIs, Zenon
  <2>3. p[1] = yr /\ p[2] = mo /\ p[3] = day /\ p[4] = hour
    BY <2>2
  <2>12. hour = line.hour /\ (yr - 2000) * 10000 + mo * 100 + day = ymd
    BY <2>0, <2>3 DEF Begins, ymd
  <2>4. yr \in Nat /\ yr >= 2000
    BY DEF Years
  <2>9. PICK y \in Nat : y = yr - 2000
    BY <2>4
  <2>5. PICK b \in Nat : b = 100 * y + mo
    BY <2>9
  <2>6. b = a /\ day = ymd % 100
    <3>1. ymd = 100 * b + day /\ day \in Nat /\ day < 100
      BY <2>12, <2>4, <2>9, <2>5
    <3>2. b = ymd \div 100 /\ day = ymd % 100
      BY <1>1, <3>1, HundredsUnique
    <3> QED BY <3>2 DEF a
  <2>7. y = a \div 100 /\ mo = a % 100
    <3>1. mo \in Nat /\ mo < 100
      OBVIOUS
    <3> QED BY <1>10, <2>5, <2>6, <3>1, HundredsUnique
  <2>8. yr = ymd \div 10000 + 2000 /\ mo = (ymd \div 100) % 100
    BY <1>12, <2>4, <2>9, <2>7
  <2> QED BY <2>2, <2>12, <2>6, <2>8
<1> QED BY <1>2, <1>3, <1>5, <1>6

-----------------------------------------------------------------------------
(* The invariant.                                                          *)

Reading == ~Rejected /\ ~Unreadable
Active  == {"scan", "list", "create", "files"}

Typed ==
  /\ cmd \in Commands /\ runs \in 1..MaxRuns
  /\ pc \in Final \cup Active \cup {"main"}
  /\ IsFiniteSet(dir) /\ dir \subseteq Files /\ before \subseteq dir
  /\ files \in Seq(dir) /\ k \in Nat /\ k <= Len(files)
  /\ outs = [o \in DOMAIN outs |-> outs[o]] /\ made \subseteq DOMAIN outs

\* What OwnFiles says of one output, and that it is one.
Right(o) ==
  /\ outs[o] = [header |-> outs[o].header, data |-> outs[o].data]
  /\ outs[o].data \in Seq(dir)
  /\ \A i \in DOMAIN outs[o].data : outs[o].data[i][1] = o[2]
  /\ \A i, j \in DOMAIN outs[o].data : i < j => outs[o].data[i][2] < outs[o].data[j][2]
  /\ ScanOf(o) # NoScan => Begins(LineOf(ScanOf(o)), o[2])
Owned == \A o \in DOMAIN outs : Right(o)

\* The scans still to process are the end of the plan.
Planned ==
  /\ todo \in Seq({NoScan} \cup Int)
  /\ pc \in Active => Reading
  /\ pc # "main" /\ Reading =>
       /\ Len(todo) <= Len(Plan)
       /\ \A i \in 1..Len(todo) : todo[i] = Plan[Len(Plan) - Len(todo) + i]

\* The scan that is processed, where it goes, ...
Now == Head(todo)
DirOf(n)    == IF n = NoScan THEN <<>> ELSE OutDir(pScans[n])
PrefixOf(n) == IF n = NoScan THEN NoPrefix ELSE pScans[n].Prefix
AtScan ==
  pc \in {"list", "create", "files"} =>
    /\ todo # <<>> /\ Now \in {NoScan} \cup DOMAIN pScans
    /\ outDir = DirOf(Now) /\ config = Merged(Now)
    /\ (pc = "list" \/ Now # NoScan) => prefix = PrefixOf(Now)

\* ... its files, among them those that were there when the run began, ...
AtFiles ==
  pc \in {"create", "files"} =>
    /\ files # <<>> /\ (pc = "create" => k = 0)
    /\ \A i \in DOMAIN files : files[i][1] = prefix
    /\ \A i, j \in DOMAIN files : i < j => files[i][2] < files[j][2]
    /\ \A f \in before : f[1] = prefix => \E i \in DOMAIN files : files[i] = f

\* ... and what has been copied of them.
Copied == [i \in 1..(IF k <= cmd.skip THEN 0 ELSE k - cmd.skip) |-> files[cmd.skip + i]]
AtOutput ==
  pc = "files" =>
    /\ Output \in made /\ k <= End /\ outs[Output].data = Copied
    /\ outs[Output].header.rawdatafile = files[1]

\* The outputs of this run are those of its scans.
MadeForScans ==
  pc \in Active => \A o \in made : ScanOf(o) \in Past \/ (pc = "files" /\ o = Output)

\* What PastScansComplete says of a scan.
Own(p)         == {f \in before : f[1] = p}
RankIn(f, own) == Cardinality({g \in own : g[2] < f[2]})
Asked(p) == {f \in Own(p) : /\ RankIn(f, Own(p)) >= cmd.skip
                            /\ cmd.num = 0 \/ RankIn(f, Own(p)) < cmd.skip + cmd.num}
DataOf(o) == {outs[o].data[i] : i \in DOMAIN outs[o].data}
Has(o) == /\ cmd.skip = 0 /\ cmd.num = 0 => Own(o[2]) \subseteq DataOf(o)
          /\ (\A f \in dir : f[1] = o[2] => f \in before) => DataOf(o) = Asked(o[2])
Complete(n) ==
  (\E f \in before : n # NoScan => Begins(LineOf(n), f[1])) =>
    \E o \in made : ScanOf(o) = n /\ Has(o)
PastComplete == pc # "main" /\ Reading => \A n \in Past : Complete(n)

Inv == /\ Typed /\ Owned /\ Planned /\ AtScan /\ AtFiles /\ AtOutput
       /\ MadeForScans /\ PastComplete

-----------------------------------------------------------------------------
(* The plan.                                                               *)

LEMMA ScansAre ==
  ASSUME cmd \in Commands, Reading
  PROVE  /\ IsFiniteSet(DOMAIN pScans) /\ DOMAIN pScans \subseteq Int
         /\ \A n \in DOMAIN pScans :
              /\ LineOf(n) \in Lines /\ pScans[n] = Scan(LineOf(n)) /\ pScans[n].Num = n
              /\ n # NoScan
<1>1. cmd.scans \in {NoFile} \cup Seq(Lines)
  BY CommandIs DEF Reading, Rejected
<1>2. CASE cmd.scans = NoFile
  <2>1. pScans = <<>> /\ DOMAIN pScans = {}
    BY <1>2 DEF pScans
  <2> QED BY <2>1, FS_EmptySet
<1>3. CASE cmd.scans # NoFile
  <2> DEFINE lines == cmd.scans
             h == [i \in ReadOf(lines) |-> lines[i].num]
             X == {lines[i].num : i \in ReadOf(lines)}
  <2>1. lines \in Seq(Lines) /\ pScans = ScanFile(lines) /\ DOMAIN ScanFile(lines) = X
    BY <1>1, <1>3 DEF pScans, ScanFile
  <2>2. ReadOf(lines) \subseteq 1..Len(lines) /\ Len(lines) \in Nat
    BY <2>1 DEF ReadOf
  <2>3. IsFiniteSet(1..Len(lines))
    BY <2>2, FS_Interval
  <2>4. IsFiniteSet(ReadOf(lines))
    BY <2>2, <2>3, FS_Subset
  <2>5. h \in Surjection(ReadOf(lines), X)
    BY DEF Surjection
  <2>6. IsFiniteSet(X)
    BY <2>4, <2>5, FS_Surjection
  <2>7. \A i \in ReadOf(lines) : lines[i].num \in Int
    <3>1. \A i \in ReadOf(lines) : lines[i] \in Lines
      BY <2>1, <2>2
    <3>2. \A x \in Lines : x.num \in Int
      BY DEF Lines
    <3> QED BY <3>1, <3>2
  <2>8. X \subseteq Int
    BY <2>7
  <2>9. ASSUME NEW n \in X
        PROVE  LineOf(n) \in Lines /\ pScans[n] = Scan(LineOf(n)) /\ pScans[n].Num = n
    <3>1. LineOf(n) \in Lines /\ LineOf(n).num = n /\ ScanFile(lines)[n] = Scan(LineOf(n))
      BY <2>1, ScanIs
    <3>2. Scan(LineOf(n)).Num = LineOf(n).num
      BY DEF Scan
    <3> QED BY <2>1, <3>1, <3>2
  <2>10. NoScan \notin X
    BY <2>8, MkfbAssumption
  <2> QED BY <2>1, <2>6, <2>8, <2>9, <2>10
<1> QED BY <1>2, <1>3

\* No scan is planned twice.
LEMMA PlanIs ==
  ASSUME cmd \in Commands, Reading
  PROVE  /\ Plan \in Seq({NoScan} \cup Int) /\ Len(Plan) \in Nat /\ DOMAIN Plan = 1..Len(Plan)
         /\ \A i, j \in 1..Len(Plan) : Plan[i] = Plan[j] => i = j
<1>1. CASE "scan-num" \in cmd.opts
  <2>1. Plan = <<cmd.scanNum>> /\ cmd.scanNum \in Int
    BY <1>1, CommandIs DEF Plan
  <2> QED BY <2>1
<1>2. CASE "scan-num" \notin cmd.opts /\ cmd.batch /\ cmd.scans # NoFile
  <2> DEFINE X == DOMAIN pScans
             n == Cardinality(X)
             s == InOrder(X)
  <2>1. Plan = s
    BY <1>2 DEF Plan, AllScans
  <2>2. n \in Nat /\ s \in [1..n -> X] /\ Ascending(s) /\ X \subseteq Int
    BY ScansAre, Listed
  <2> HIDE DEF s, n, X
  <2>5. s \in [1..n -> {NoScan} \cup Int]
    BY <2>2
  <2>3. s \in Seq({NoScan} \cup Int) /\ Len(s) = n /\ DOMAIN s = 1..n
    BY <2>2, <2>5
  <2>4. ASSUME NEW i \in 1..n, NEW j \in 1..n, s[i] = s[j] PROVE i = j
    <3>1. s[i] \in Int /\ s[j] \in Int
      BY <2>2
    <3>2. ~(i < j) /\ ~(j < i)
      BY <2>3, <2>2, <2>4, <3>1 DEF Ascending
    <3> QED BY <2>2, <3>2
  <2> QED BY <2>1, <2>2, <2>3, <2>4
<1>3. CASE "scan-num" \notin cmd.opts /\ ~(cmd.batch /\ cmd.scans # NoFile)
  <2>1. Plan = <<NoScan>>
    BY <1>3 DEF Plan
  <2> QED BY <2>1
<1> QED BY <1>1, <1>2, <1>3

\* The scan a run is at is not one that it has been through; going on to the
\* next adds it to those.
LEMMA NowIsNew ==
  ASSUME Typed, Planned, pc \in Active, todo # <<>>
  PROVE  /\ Now \notin Past /\ Now \in {NoScan} \cup Int
         /\ Tail(todo) \in Seq({NoScan} \cup Int)
         /\ Len(Tail(todo)) = Len(todo) - 1 /\ Len(Tail(todo)) <= Len(Plan)
         /\ \A i \in 1..Len(Tail(todo)) :
              Tail(todo)[i] = Plan[Len(Plan) - Len(Tail(todo)) + i]
         /\ {Plan[i] : i \in 1..(Len(Plan) - Len(Tail(todo)))} = Past \cup {Now}
<1> DEFINE P == Len(Plan)
           T == Len(todo)
<1>1. Reading /\ pc # "main" /\ cmd \in Commands
  BY DEF Typed, Planned, Active
<1>2. /\ Plan \in Seq({NoScan} \cup Int) /\ P \in Nat /\ DOMAIN Plan = 1..P
      /\ \A i, j \in 1..P : Plan[i] = Plan[j] => i = j
  BY <1>1, PlanIs
<1>3. todo \in Seq({NoScan} \cup Int) /\ T \in Nat /\ T # 0
  BY DEF Planned
<1>4. T <= P /\ \A i \in 1..T : todo[i] = Plan[P - T + i]
  BY <1>1 DEF Planned
<1>5. Now = todo[1] /\ Now = Plan[P - T + 1]
  BY <1>3, <1>4 DEF Now
<1>6. /\ Tail(todo) \in Seq({NoScan} \cup Int) /\ Len(Tail(todo)) = T - 1
      /\ \A i \in 1..(T - 1) : Tail(todo)[i] = todo[i + 1]
  BY <1>3
<1> HIDE DEF P, T
<1>7. P - T + 1 \in 1..P
  BY <1>2, <1>3, <1>4
<1>8. Now \in {NoScan} \cup Int
  BY <1>2, <1>5, <1>7
<1>9. Now \notin Past
  <2> SUFFICES ASSUME NEW i \in 1..(P - T), Plan[i] = Now PROVE FALSE
    BY DEF Past, P, T
  <2>1. i \in 1..P /\ i # P - T + 1
    BY <1>2, <1>3, <1>4
  <2> QED BY <1>2, <1>5, <1>7, <2>1
<1>10. \A i \in 1..(T - 1) : Tail(todo)[i] = Plan[P - (T - 1) + i]
  <2> TAKE i \in 1..(T - 1)
  <2>1. i + 1 \in 1..T /\ P - T + (i + 1) = P - (T - 1) + i
    BY <1>2, <1>3
  <2>2. todo[i + 1] = Plan[P - T + (i + 1)]
    BY <1>4, <2>1
  <2> QED BY <1>6, <2>1, <2>2
<1>11. {Plan[i] : i \in 1..(P - (T - 1))} = {Plan[i] : i \in 1..(P - T)} \cup {Plan[P - T + 1]}
  <2>1. 1..(P - (T - 1)) = 1..(P - T) \cup {P - T + 1}
    BY <1>2, <1>3, <1>4
  <2> QED BY <2>1
<1>12. T - 1 <= P
  BY <1>2, <1>3, <1>4
<1> QED BY <1>5, <1>6, <1>8, <1>9, <1>10, <1>11, <1>12 DEF Past, P, T

\* The output of the scan a run is at.
LEMMA OutputIs ==
  ASSUME Typed, Planned, AtScan, pc \in {"list", "create", "files"}, NEW p
  PROVE  /\ ScanOf(<<outDir, p>>) = Now
         /\ Now # NoScan => Now \in DOMAIN pScans /\ LineOf(Now) \in Lines
                            /\ PrefixOf(Now) = Scan(LineOf(Now)).Prefix
                            /\ Begins(LineOf(Now), PrefixOf(Now))
<1>1. Reading /\ cmd \in Commands /\ Now \in {NoScan} \cup DOMAIN pScans /\ outDir = DirOf(Now)
  BY DEF Typed, Planned, Active, AtScan
<1>2. CASE Now = NoScan
  BY <1>1, <1>2 DEF ScanOf, DirOf
<1>3. CASE Now # NoScan
  <2>1. /\ Now \in DOMAIN pScans /\ LineOf(Now) \in Lines /\ pScans[Now] = Scan(LineOf(Now))
        /\ pScans[Now].Num = Now
    BY <1>1, <1>3, ScansAre
  <2>2. outDir = <<Now, ToUpper(pScans[Now].Target)>>
    BY <1>1, <1>3, <2>1 DEF DirOf, OutDir
  <2>3. outDir # <<>> /\ outDir[1] = Now
    BY <2>2
  <2>4. PrefixOf(Now) = Scan(LineOf(Now)).Prefix
    BY <1>3, <2>1 DEF PrefixOf
  <2> QED BY <2>1, <2>3, <2>4, PrefixBegins DEF ScanOf
<1> QED BY <1>2, <1>3

\* The files of a scan are those whose prefix its line begins at.
LEMMA OwnPrefix ==
  ASSUME Typed, Planned, AtScan, pc \in {"list", "create", "files"}, Now # NoScan,
         NEW f \in Files, Begins(LineOf(Now), f[1])
  PROVE  f[1] = PrefixOf(Now)
BY OutputIs, PrefixBegins, FileIs

-----------------------------------------------------------------------------
(* The header of an output.                                                *)

\* What ProcessScan has before the catalogue.
Filled(n) == IF n = NoScan THEN Root ELSE WithScan(Root, pScans[n])

\* The configuration gives a field, or it has its default.
LEMMA RootIs ==
  ASSUME cmd \in Commands
  PROVE  /\ Root \in Settings
         /\ \A x \in DOMAIN Defaults : Root[x] = IF Set(x) THEN cmd.conf[x] ELSE Defaults[x]
         /\ Named(Root.Name) <=> Set("Name")
<1>1. /\ Root \in Settings
      /\ Named(Root.Name) \/ Root.Name = Defaults.Name
  BY CommandIs DEF CommandOk, Root
<1>2. \A x \in DOMAIN Defaults : Root[x] = IF Set(x) THEN cmd.conf[x] ELSE Defaults[x]
  BY DEF Root, FromPB, Set
<1>3. "Name" \in DOMAIN Defaults /\ Defaults["Name"] = [id |-> "", upper |-> FALSE]
  BY Zenon DEF Defaults
<1>4. ~Named(Defaults["Name"])
  <2>1. ASSUME NEW e, e = [id |-> "", upper |-> FALSE] PROVE e.id = ""
    BY <2>1, Zenon
  <2> QED BY <1>3, <2>1, Zenon DEF Named
<1>5. Root["Name"] = IF Set("Name") THEN cmd.conf["Name"] ELSE Defaults["Name"]
  BY <1>2, <1>3, Zenon
<1>6. Set("Name") => cmd.conf["Name"] # Defaults["Name"]
  BY Zenon DEF Set
<1>7. Named(Root["Name"]) <=> Set("Name")
  BY <1>1, <1>4, <1>5, <1>6, Zenon
<1> QED BY <1>1, <1>2, <1>7, Zenon

LEMMA FilledIs ==
  ASSUME cmd \in Commands, Reading, NEW n \in {NoScan} \cup DOMAIN pScans
  PROVE  /\ DOMAIN Filled(n) = DOMAIN Defaults
         /\ Filled(n).Name = NameOf(n)
         /\ Filled(n).RA = (IF Set("RA") THEN cmd.conf.RA ELSE 0)
         /\ Filled(n).Dec = (IF Set("Dec") THEN cmd.conf.Dec ELSE 0)
         /\ Filled(n).SampleTime = IF Set("SampleTime") THEN cmd.conf.SampleTime
                                   ELSE IF n = NoScan THEN 0 ELSE 1024 * (LineOf(n).dt + 1)
         /\ Filled(n).Start_MJD = IF Set("Start_MJD") THEN cmd.conf.Start_MJD
                                  ELSE IF n = NoScan THEN 0 ELSE MakeMJD(PrefixOf(n))
<1>1. /\ \A x \in DOMAIN Defaults : Root[x] = IF Set(x) THEN cmd.conf[x] ELSE Defaults[x]
      /\ Named(Root.Name) <=> Set("Name")
  BY RootIs
<1>2. DOMAIN Root = DOMAIN Defaults
  BY DEF Root, FromPB
<1>3. /\ DOMAIN Defaults = {"Name", "RA", "Dec", "Start_MJD", "SampleTime", "NumIFs",
                            "InputBits", "OutputBits"}
      /\ Defaults.RA = 0 /\ Defaults.Dec = 0 /\ Defaults.Start_MJD = 0 /\ Defaults.SampleTime = 0
  BY DEF Defaults
<1>4. /\ Root.Name = (IF Set("Name") THEN cmd.conf.Name ELSE Defaults.Name)
      /\ Root.RA = (IF Set("RA") THEN cmd.conf.RA ELSE 0)
      /\ Root.Dec = (IF Set("Dec") THEN cmd.conf.Dec ELSE 0)
      /\ Root.SampleTime = (IF Set("SampleTime") THEN cmd.conf.SampleTime ELSE 0)
      /\ Root.Start_MJD = (IF Set("Start_MJD") THEN cmd.conf.Start_MJD ELSE 0)
  BY <1>1, <1>3
<1>5. /\ Set("SampleTime") => cmd.conf.SampleTime # 0
      /\ Set("Start_MJD") => cmd.conf.Start_MJD # 0
  BY <1>3 DEF Set
<1>6. CASE n = NoScan
  BY <1>2, <1>4, <1>6 DEF Filled, NameOf
<1>7. CASE n # NoScan
  <2>1. LineOf(n) \in Lines /\ pScans[n] = Scan(LineOf(n))
    BY <1>7, ScansAre
  <2>2. /\ pScans[n].Target = [LineOf(n).target EXCEPT !.upper = TRUE]
        /\ pScans[n].SampleTime = 1024 * (LineOf(n).dt + 1)
        /\ pScans[n].MJD = MakeMJD(PrefixOf(n))
    BY <1>7, <2>1 DEF Scan, PrefixOf, ToUpper
  <2>3. PICK r, t, s, e : /\ r = Root /\ t = OrElse(Root.Start_MJD, pScans[n].MJD)
                          /\ s = OrElse(Root.SampleTime, pScans[n].SampleTime)
                          /\ e = IF Named(Root.Name) THEN Root.Name ELSE pScans[n].Target
    OBVIOUS
  <2>4. Filled(n) = [r EXCEPT !.Start_MJD = t, !.SampleTime = s, !.Name = e]
    BY <1>7, <2>3 DEF Filled, WithScan
  <2>5. /\ DOMAIN Filled(n) = DOMAIN r /\ Filled(n).Start_MJD = t /\ Filled(n).SampleTime = s
        /\ Filled(n).Name = e /\ Filled(n).RA = r.RA /\ Filled(n).Dec = r.Dec
    BY <1>2, <1>3, <2>3, <2>4
  <2>6. e = NameOf(n)
    BY <1>1, <1>4, <1>7, <2>2, <2>3 DEF NameOf
  <2>7. s = IF Set("SampleTime") THEN cmd.conf.SampleTime ELSE 1024 * (LineOf(n).dt + 1)
    BY <1>4, <1>5, <2>2, <2>3 DEF OrElse
  <2>8. t = IF Set("Start_MJD") THEN cmd.conf.Start_MJD ELSE MakeMJD(PrefixOf(n))
    BY <1>4, <1>5, <2>2, <2>3 DEF OrElse
  <2> QED BY <1>2, <1>4, <1>7, <2>3, <2>5, <2>6, <2>7, <2>8
<1> QED BY <1>6, <1>7

LEMMA NameParts ==
  ASSUME NEW a, NEW b
  PROVE  /\ [id |-> a, upper |-> b].id = a /\ [id |-> a, upper |-> b].upper = b
         /\ \A t : [[id |-> a, upper |-> b] EXCEPT !.upper = t] = [id |-> a, upper |-> t]
OBVIOUS

\* A name in capitals is another name's if it has its letters and its own
\* capitals.
LEMMA UpperIs ==
  ASSUME NEW x \in Names, NEW name \in Names
  PROVE  /\ ToUpper(x) \in Names /\ ToUpper(x).id = x.id /\ ToUpper(x).upper
         /\ ToUpper(x) = name <=> x.id = name.id /\ name.upper
<1>1. PICK a \in STRING, b \in BOOLEAN : x = [id |-> a, upper |-> b]
  <2>1. x = [id |-> x.id, upper |-> x.upper] /\ x.id \in STRING /\ x.upper \in BOOLEAN
    BY Zenon DEF Names
  <2> QED BY <2>1, Zenon
<1>2. PICK c \in STRING, d \in BOOLEAN : name = [id |-> c, upper |-> d]
  <2>1. name = [id |-> name.id, upper |-> name.upper] /\ name.id \in STRING /\ name.upper \in BOOLEAN
    BY Zenon DEF Names
  <2> QED BY <2>1, Zenon
<1>3. ToUpper(x) = [id |-> a, upper |-> TRUE]
  BY <1>1, NameParts, Zenon DEF ToUpper
<1>4. x.id = a
  BY <1>1, Zenon
<1>5. name.id = c /\ name.upper = d
  BY <1>2, Zenon
<1>6. [id |-> a, upper |-> TRUE] = [id |-> c, upper |-> d] <=> a = c /\ d = TRUE
  <2>1. ASSUME NEW t, [id |-> a, upper |-> t] = [id |-> c, upper |-> d] PROVE a = c /\ d = t
    BY <2>1, NameParts
  <2> QED BY <2>1, Zenon
<1>7. [id |-> a, upper |-> TRUE] \in Names
  BY Zenon DEF Names
<1>8. ASSUME NEW r, r = [id |-> a, upper |-> TRUE] PROVE r.id = a /\ r.upper
  BY <1>8, Zenon
<1> QED BY <1>2, <1>3, <1>4, <1>5, <1>6, <1>7, <1>8, Zenon

\* A pulsar is that of its line of the catalogue, the first of its name.
LEMMA PulsarIs ==
  ASSUME cmd.catalog \in Seq(Entry), cmd.catalog # NoFile, NEW name \in Names
  PROVE  /\ Entries(name) \subseteq DOMAIN cmd.catalog
         /\ name \in DOMAIN Pulsars(cmd.catalog) <=> Entries(name) # {}
         /\ \A i \in Entries(name) :
              Pulsars(cmd.catalog)[name] = [RA  |-> GetRADec(cmd.catalog[i].ra),
                                            Dec |-> GetRADec(cmd.catalog[i].dec)]
<1> DEFINE lines == cmd.catalog
           Is(i) == ToUpper(lines[i].name) = name
           T == {i \in DOMAIN lines : Is(i)}
<1>1. DOMAIN lines = 1..Len(lines) /\ Len(lines) \in Nat
  OBVIOUS
<1>2. ASSUME NEW i \in DOMAIN lines PROVE lines[i].name \in Names
  <2>1. lines[i] \in Entry
    BY <1>2
  <2> QED BY <2>1, Zenon DEF Entry
<1>3. \A i \in DOMAIN lines : Is(i) <=> lines[i].name.id = name.id /\ name.upper
  BY <1>2, UpperIs, Zenon
<1>4. DOMAIN Pulsars(lines) = {ToUpper(lines[i].name) : i \in DOMAIN lines}
  BY Zenon DEF Pulsars
<1>5. name \in DOMAIN Pulsars(lines) <=> T # {}
  BY <1>4, Zenon
<1>6. Entries(name) = {i \in DOMAIN lines : Is(i) /\ \A j \in 1..(i - 1) : ~Is(j)}
  <2>1. ASSUME NEW i \in DOMAIN lines PROVE 1..(i - 1) \subseteq DOMAIN lines
    BY <1>1, <2>1
  <2>2. CASE name.upper
    <3>1. Entries(name) = {i \in DOMAIN lines : /\ lines[i].name.id = name.id
                                                /\ \A j \in 1..(i - 1) : lines[j].name.id # name.id}
      BY <2>2, Zenon DEF Entries
    <3>2. \A i \in DOMAIN lines : Is(i) <=> lines[i].name.id = name.id
      BY <1>3, <2>2, Zenon
    <3> HIDE DEF Is
    <3> QED BY <2>1, <3>1, <3>2, Zenon
  <2>3. CASE ~name.upper
    <3>1. Entries(name) = {}
      BY <2>3, Zenon DEF Entries
    <3>2. \A i \in DOMAIN lines : ~Is(i)
      BY <1>3, <2>3, Zenon
    <3> HIDE DEF Is
    <3> QED BY <3>1, <3>2, Zenon
  <2> QED BY <2>2, <2>3, Zenon
<1> HIDE DEF Is
<1>7. T # {} => Entries(name) # {}
  <2> SUFFICES ASSUME T # {} PROVE Entries(name) # {}
    OBVIOUS
  <2>1. T \in SUBSET Nat
    BY <1>1
  <2>2. PICK i \in T : \A j \in T : i <= j
    BY <2>1, LeastNumber
  <2>3. \A j \in 1..(i - 1) : j \in DOMAIN lines /\ ~Is(j)
    BY <1>1, <2>2
  <2> QED BY <1>6, <2>2, <2>3
<1>8. ASSUME NEW i \in Entries(name)
      PROVE  /\ i \in DOMAIN lines /\ Is(i)
             /\ \A h \in DOMAIN lines : Is(h) /\ (\A j \in DOMAIN lines : Is(j) => h <= j) => h = i
             /\ \A j \in DOMAIN lines : Is(j) => i <= j
  <2>1. i \in DOMAIN lines /\ Is(i) /\ \A j \in 1..(i - 1) : ~Is(j)
    BY <1>6, <1>8
  <2>2. \A j \in DOMAIN lines : Is(j) => i <= j
    BY <1>1, <2>1
  <2> QED BY <1>1, <2>1, <2>2
<1>9. ASSUME NEW i \in Entries(name)
      PROVE  Pulsars(lines)[name] = [RA |-> GetRADec(lines[i].ra), Dec |-> GetRADec(lines[i].dec)]
  <2> DEFINE Q(h) == Is(h) /\ \A j \in DOMAIN lines : Is(j) => h <= j
             c == CHOOSE h \in DOMAIN lines : Q(h)
  <2>1. i \in DOMAIN lines /\ Q(i) /\ \A h \in DOMAIN lines : Q(h) => h = i
    BY <1>8
  <2>2. name \in {ToUpper(lines[h].name) : h \in DOMAIN lines}
    BY <2>1, Zenon DEF Is
  <2>3. Pulsars(lines)[name] = [RA |-> GetRADec(lines[c].ra), Dec |-> GetRADec(lines[c].dec)]
    BY <2>2, Zenon DEF Pulsars, Is
  <2> HIDE DEF Q
  <2>4. c = i
    BY <2>1, Zenon
  <2> QED BY <2>3, <2>4, Zenon
<1>10. Entries(name) \subseteq DOMAIN lines
  BY <1>6, Zenon
<1>11. Entries(name) # {} => T # {}
  BY <1>6, Zenon
<1> HIDE DEF T
<1> QED BY <1>5, <1>7, <1>9, <1>10, <1>11, Zenon

\* The angles are read as they stand, but for degrees of -0.
LEMMA AnglesAre ==
  ASSUME NEW line \in Entry
  PROVE  /\ GetRADec(line.ra) = Angle(line.ra)
         /\ line.dec.deg # 0 => GetRADec(line.dec) = Angle(line.dec)
<1>1. /\ line.ra \in Angles /\ ~line.ra.neg /\ line.dec \in Angles
  <2>1. line.ra \in {a \in Angles : ~a.neg} /\ line.dec \in Angles
    BY Zenon DEF Entry
  <2> QED BY <2>1, Zenon
<1>2. /\ line.ra.neg = FALSE /\ line.ra.deg \in Nat /\ line.ra.rest \in Nat
      /\ line.dec.neg \in BOOLEAN /\ line.dec.deg \in Nat /\ line.dec.rest \in Nat
  <2>1. ASSUME NEW a \in Angles
        PROVE  a.neg \in BOOLEAN /\ a.deg \in Nat /\ a.rest \in Nat
    BY Zenon DEF Angles
  <2> QED BY <1>1, <2>1, Zenon
<1>3. ASSUME NEW g \in Nat, NEW r \in Nat
      PROVE  (IF 10000 * g >= 0 THEN 10000 * g + r ELSE 10000 * g - r) = (10000 * g + r) * 1
  OBVIOUS
<1>4. ASSUME NEW g \in Nat, NEW r \in Nat, g # 0
      PROVE  (IF 10000 * (-g) >= 0 THEN 10000 * (-g) + r ELSE 10000 * (-g) - r) = (10000 * g + r) * (-1)
  BY <1>4
<1>5. ASSUME NEW a, a.neg = FALSE, a.deg \in Nat, a.rest \in Nat PROVE GetRADec(a) = Angle(a)
  <2>1. ~a.neg
    BY <1>5, Zenon
  <2>2. (IF a.neg THEN -a.deg ELSE a.deg) = a.deg /\ (IF a.neg THEN -1 ELSE 1) = 1
    BY <2>1, Zenon
  <2>3. PICK g \in Nat, r \in Nat : g = a.deg /\ r = a.rest
    BY <1>5, Zenon
  <2>4. CASE a.form # "dms"
    BY <2>4 DEF GetRADec, Angle
  <2>5. CASE a.form = "dms"
    <3>1. GetRADec(a) = IF 10000 * g >= 0 THEN 10000 * g + r ELSE 10000 * g - r
      BY <2>2, <2>3, <2>5 DEF GetRADec
    <3>2. Angle(a) = (10000 * g + r) * 1
      BY <2>2, <2>3, <2>5 DEF Angle
    <3> QED BY <1>3, <3>1, <3>2
  <2> QED BY <2>4, <2>5
<1>6. ASSUME NEW a, a.neg = TRUE, a.deg \in Nat, a.rest \in Nat, a.deg # 0 PROVE GetRADec(a) = Angle(a)
  <2>1. a.neg
    BY <1>6, Zenon
  <2>2. (IF a.neg THEN -a.deg ELSE a.deg) = -a.deg /\ (IF a.neg THEN -1 ELSE 1) = -1
    BY <2>1, Zenon
  <2>3. PICK g \in Nat, r \in Nat : g = a.deg /\ r = a.rest /\ g # 0
    BY <1>6, Zenon
  <2>4. CASE a.form # "dms"
    BY <2>4 DEF GetRADec, Angle
  <2>5. CASE a.form = "dms"
    <3>1. GetRADec(a) = IF 10000 * (-g) >= 0 THEN 10000 * (-g) + r ELSE 10000 * (-g) - r
      BY <2>2, <2>3, <2>5 DEF GetRADec
    <3>2. Angle(a) = (10000 * g + r) * (-1)
      BY <2>2, <2>3, <2>5 DEF Angle
    <3> QED BY <1>4, <2>3, <3>1, <3>2
  <2> QED BY <2>4, <2>5
<1>7. line.dec.neg = TRUE \/ line.dec.neg = FALSE
  BY <1>2, Zenon
<1> QED BY <1>2, <1>5, <1>6, <1>7, Zenon

\* A header's name is given, or there is none and it is not in capitals.
LEMMA NameIs ==
  ASSUME cmd \in Commands, Reading, NEW n \in {NoScan} \cup DOMAIN pScans
  PROVE  NameOf(n) \in Names /\ (Named(NameOf(n)) \/ ~NameOf(n).upper)
<1>1. CASE Set("Name")
  <2>1. "Name" \in DOMAIN Defaults
    BY Zenon DEF Defaults
  <2>2. Root["Name"] = cmd.conf["Name"] /\ Named(Root["Name"]) /\ Root \in Settings
    BY <1>1, <2>1, RootIs, Zenon
  <2>3. Root["Name"] \in Names
    BY <2>2, Zenon DEF Settings
  <2> QED BY <1>1, <2>2, <2>3, Zenon DEF NameOf
<1>2. CASE ~Set("Name") /\ n = NoScan
  <2>1. Defaults["Name"] = [id |-> "", upper |-> FALSE]
    BY Zenon DEF Defaults
  <2>2. Defaults["Name"] \in Names /\ ~Defaults["Name"].upper
    <3>1. ASSUME NEW u, NEW t, Defaults["Name"] = [id |-> u, upper |-> t]
          PROVE  Defaults["Name"].upper = t
      BY <3>1, NameParts
    <3>2. Defaults["Name"].upper = FALSE
      BY <2>1, <3>1, Zenon
    <3>3. "Name" \in DOMAIN Defaults
      BY Zenon DEF Defaults
    <3>4. Root["Name"] = Defaults["Name"] /\ Root \in Settings
      BY <1>2, <3>3, RootIs, Zenon
    <3>5. Root["Name"] \in Names
      BY <3>4, Zenon DEF Settings
    <3> QED BY <3>2, <3>4, <3>5, Zenon
  <2> QED BY <1>2, <2>2, Zenon DEF NameOf
<1>3. CASE ~Set("Name") /\ n # NoScan
  <2>1. LineOf(n) \in Lines
    BY <1>3, ScansAre
  <2>2. LineOf(n).target \in Names /\ Named(LineOf(n).target)
    BY <2>1, Zenon DEF Lines
  <2>3. NameOf(n) = ToUpper(LineOf(n).target)
    BY <1>3, Zenon DEF NameOf, ToUpper
  <2> QED BY <2>2, <2>3, UpperIs, Zenon DEF Named
<1> QED BY <1>1, <1>2, <1>3

\* What ProcessScan makes of the configuration, the scan and the catalogue.
LEMMA MergedIs ==
  ASSUME cmd \in Commands, Reading, NEW n \in {NoScan} \cup DOMAIN pScans
  PROVE  /\ Merged(n).Name = NameOf(n)
         /\ Merged(n).SampleTime = Filled(n).SampleTime
         /\ Merged(n).Start_MJD = Filled(n).Start_MJD
         /\ Merged(n).RA = IF Set("RA") THEN cmd.conf.RA
                           ELSE IF Entries(NameOf(n)) = {} THEN 0
                           ELSE Angle(cmd.catalog[CHOOSE i \in Entries(NameOf(n)) : TRUE].ra)
         /\ Set("Dec") => Merged(n).Dec = cmd.conf.Dec
         /\ \A i \in Entries(NameOf(n)) :
              ~Set("Dec") /\ cmd.catalog[i].dec.deg # 0
                => Merged(n).Dec = Angle(cmd.catalog[i].dec)
<1>1. Merged(n) = Looked(Filled(n))
  BY DEF Merged, Filled
<1>2. /\ DOMAIN Filled(n) = DOMAIN Defaults
      /\ Filled(n).Name = NameOf(n)
      /\ Filled(n).RA = (IF Set("RA") THEN cmd.conf.RA ELSE 0)
      /\ Filled(n).Dec = (IF Set("Dec") THEN cmd.conf.Dec ELSE 0)
  BY FilledIs
<1>3. DOMAIN Defaults = {"Name", "RA", "Dec", "Start_MJD", "SampleTime", "NumIFs",
                         "InputBits", "OutputBits"}
  BY DEF Defaults
<1>4. /\ Set("RA") => cmd.conf.RA # 0
      /\ Set("Dec") => cmd.conf.Dec # 0
  BY DEF Set, Defaults
<1>5. NameOf(n) \in Names /\ (Named(NameOf(n)) \/ ~NameOf(n).upper)
  BY NameIs
<1>6. cmd.catalog \in {NoFile} \cup Seq(Entry)
  BY CommandIs DEF Reading, Rejected
<1>7. CASE cmd.catalog = NoFile \/ ~Named(NameOf(n))
  <2>1. Entries(NameOf(n)) = {}
    BY <1>5, <1>7, Zenon DEF Entries
  <2>2. Merged(n) = Filled(n)
    BY <1>1, <1>2, <1>7, Zenon DEF Looked
  <2> QED BY <1>2, <2>1, <2>2
<1>8. CASE cmd.catalog # NoFile /\ Named(NameOf(n))
  <2> DEFINE E == Entries(NameOf(n))
             P == Pulsars(cmd.catalog)
  <2>1. cmd.catalog \in Seq(Entry)
    BY <1>6, <1>8
  <2>2. /\ E \subseteq DOMAIN cmd.catalog
        /\ NameOf(n) \in DOMAIN P <=> E # {}
        /\ \A i \in E : P[NameOf(n)] = [RA  |-> GetRADec(cmd.catalog[i].ra),
                                       Dec |-> GetRADec(cmd.catalog[i].dec)]
    BY <1>5, <1>8, <2>1, PulsarIs, Zenon
  <2>3. Merged(n) = WithPulsar(Filled(n), P)
    BY <1>1, <1>2, <1>8, Zenon DEF Looked
  <2> HIDE DEF P
  <2>4. CASE E = {}
    <3>1. Merged(n) = Filled(n)
      BY <1>2, <2>2, <2>3, <2>4, Zenon DEF WithPulsar
    <3> QED BY <1>2, <2>4, <3>1
  <2>5. CASE E # {}
    <3>1. PICK f, a, b, c : /\ f = Filled(n) /\ c = NameOf(n)
                            /\ a = OrElse(f.RA, P[c].RA) /\ b = OrElse(f.Dec, P[c].Dec)
      OBVIOUS
    <3>2. Merged(n) = [f EXCEPT !.RA = a, !.Dec = b]
      BY <1>2, <2>2, <2>3, <2>5, <3>1 DEF WithPulsar
    <3>3. /\ Merged(n).RA = a /\ Merged(n).Dec = b /\ Merged(n).Name = f.Name
          /\ Merged(n).SampleTime = f.SampleTime /\ Merged(n).Start_MJD = f.Start_MJD
      BY <1>2, <1>3, <3>1, <3>2
    <3>4. ASSUME NEW i \in E
          PROVE  /\ P[c].RA = Angle(cmd.catalog[i].ra)
                 /\ cmd.catalog[i].dec.deg # 0 => P[c].Dec = Angle(cmd.catalog[i].dec)
      <4>1. cmd.catalog[i] \in Entry
        BY <2>1, <2>2
      <4>2. P[c].RA = GetRADec(cmd.catalog[i].ra) /\ P[c].Dec = GetRADec(cmd.catalog[i].dec)
        <5>1. PICK x, y : x = GetRADec(cmd.catalog[i].ra) /\ y = GetRADec(cmd.catalog[i].dec)
          OBVIOUS
        <5>2. P[c] = [RA |-> x, Dec |-> y]
          BY <2>2, <3>1, <5>1
        <5> QED BY <5>1, <5>2
      <4> QED BY <4>1, <4>2, AnglesAre
    <3>5. a = IF Set("RA") THEN cmd.conf.RA ELSE P[c].RA
      BY <1>2, <1>4, <3>1 DEF OrElse
    <3>6. b = IF Set("Dec") THEN cmd.conf.Dec ELSE P[c].Dec
      BY <1>2, <1>4, <3>1 DEF OrElse
    <3>7. (CHOOSE i \in E : TRUE) \in E
      BY <2>5
    <3>8. P[c].RA = Angle(cmd.catalog[CHOOSE i \in E : TRUE].ra)
      BY <3>4, <3>7
    <3> QED BY <1>2, <2>5, <3>1, <3>3, <3>4, <3>5, <3>6, <3>8
  <2> QED BY <2>4, <2>5
<1> QED BY <1>7, <1>8

-----------------------------------------------------------------------------
(* What no step changes, and what follows for the parts of the invariant.  *)

LEMMA Same ==
  ASSUME [Next]_vars
  PROVE  cmd' = cmd /\ dir \subseteq dir'
BY DEF Next, Process, Main, NoSuchScan, BeginScan, AllDone, ListDirectory, Create, Skip,
       ProcessFile, CloseSigProcFiles, Arrive, Crash, Rerun, vars

LEMMA SameCommand ==
  ASSUME cmd' = cmd
  PROVE  /\ Rejected' = Rejected /\ Unreadable' = Unreadable /\ Reading' = Reading
         /\ pScans' = pScans /\ Plan' = Plan
         /\ \A n : LineOf(n)' = LineOf(n) /\ DirOf(n)' = DirOf(n)
                   /\ PrefixOf(n)' = PrefixOf(n) /\ Looked(n)' = Looked(n)
<1>1. Rejected' = Rejected /\ Unreadable' = Unreadable
  BY DEF Rejected, Unreadable
<1>2. pScans' = pScans
  BY DEF pScans
<1>3. Plan' = Plan
  BY <1>2 DEF Plan, AllScans
<1> QED BY <1>1, <1>2, <1>3 DEF Reading, LineOf, DirOf, PrefixOf, Looked

\* The files asked for end at the last one, or before.
LEMMA EndIs ==
  ASSUME Typed, Planned, pc \in Active
  PROVE  /\ cmd.skip \in Nat /\ cmd.num \in Nat /\ Len(files) \in Nat
         /\ End \in Nat /\ End <= Len(files)
         /\ cmd.num = 0 => End = Len(files)
         /\ cmd.num # 0 => End = Lesser(Len(files), cmd.skip + cmd.num)
<1>1. cmd.skip \in Nat /\ cmd.num \in Nat /\ Len(files) \in Nat
  BY CommandIs DEF Typed, Planned, Reading
<1>2. End = IF cmd.num > 0 THEN Lesser(Len(files), cmd.skip + cmd.num)
            ELSE Lesser(Len(files), Len(files))
  BY DEF End
<1> QED BY <1>1, <1>2 DEF Lesser

\* A step that adds to the data of one output.
LEMMA AddedIs ==
  ASSUME Typed, Owned, AtOutput, pc = "files", NEW f
  PROVE  /\ Output \in DOMAIN outs
         /\ [outs EXCEPT ![Output].data = Append(@, f)]
              = [o \in DOMAIN outs |->
                   IF o = Output THEN [header |-> outs[o].header, data |-> Append(outs[o].data, f)]
                   ELSE outs[o]]
<1>1. Output \in DOMAIN outs
  BY DEF Typed, AtOutput
<1>2. outs[Output] = [header |-> outs[Output].header, data |-> outs[Output].data]
  BY <1>1 DEF Owned, Right
<1>3. [outs[Output] EXCEPT !.data = Append(@, f)]
        = [header |-> outs[Output].header, data |-> Append(outs[Output].data, f)]
  <2>1. PICK h, d : h = outs[Output].header /\ d = outs[Output].data
    OBVIOUS
  <2>2. PICK r : r = outs[Output]
    OBVIOUS
  <2>3. r = [header |-> h, data |-> d]
    BY <1>2, <2>1, <2>2
  <2>4. [r EXCEPT !.data = Append(d, f)] = [header |-> h, data |-> Append(d, f)]
    BY <2>3
  <2> QED BY <2>1, <2>2, <2>4
<1>4. outs = [o \in DOMAIN outs |-> outs[o]]
  BY DEF Typed
<1> QED BY <1>1, <1>3, <1>4

LEMMA TypedNext ==
  ASSUME Inv, [Next]_vars
  PROVE  Typed'
<1> USE DEF Inv
<1>0. /\ cmd' = cmd /\ cmd \in Commands /\ runs \in 1..MaxRuns /\ MaxRuns \in Nat
      /\ pc \in Final \cup Active \cup {"main"}
      /\ IsFiniteSet(dir) /\ dir \subseteq Files /\ before \subseteq dir
      /\ files \in Seq(dir) /\ k \in Nat /\ k <= Len(files)
      /\ outs = [o \in DOMAIN outs |-> outs[o]] /\ made \subseteq DOMAIN outs
  BY Same, MkfbAssumption DEF Typed
<1>1. CASE Main
  BY <1>0, <1>1 DEF Main, Typed, Final, Active, scanVars
<1>2. CASE NoSuchScan \/ AllDone \/ CloseSigProcFiles
  BY <1>0, <1>2 DEF NoSuchScan, AllDone, CloseSigProcFiles, NextScan, Typed, Final, Active, scanVars
<1>3. CASE BeginScan
  <2>1. pc' \in {"threw", "monitor", "list"}
    BY <1>3 DEF BeginScan
  <2> QED BY <1>0, <1>3, <2>1 DEF BeginScan, Typed, Final, Active
<1>4. CASE ListDirectory
  <2>1. PICK p : files' = InDir(p)
    BY <1>4 DEF ListDirectory
  <2>2. files' \in Seq(dir)
    BY <1>0, <2>1, InDirLists DEF ListingOf
  <2>3. k' = 0 /\ k' \in Nat /\ k' <= Len(files')
    BY <1>4, <2>2 DEF ListDirectory
  <2>4. pc' \in Active
    BY <1>4 DEF ListDirectory, NextScan, Active
  <2> QED BY <1>0, <1>4, <2>2, <2>3, <2>4 DEF ListDirectory, Typed
<1>5. CASE Create
  <2>1. outs' = [o \in DOMAIN outs' |-> outs'[o]] /\ DOMAIN outs' = DOMAIN outs \cup {Output}
    BY <1>5 DEF Create, MakeSigProcFiles
  <2>2. pc' \in Active
    BY <1>5 DEF Create, Active
  <2> QED BY <1>0, <1>5, <2>1, <2>2 DEF Create, Typed, scanVars
<1>6. CASE Skip
  <2>1. k' = k + 1 /\ k < End /\ End \in Nat /\ End <= Len(files) /\ Len(files) \in Nat
    BY <1>6, EndIs DEF Skip, SkipFile, Active
  <2>2. k' \in Nat /\ k' <= Len(files)
    BY <1>0, <2>1
  <2> QED BY <1>0, <1>6, <2>2 DEF Skip, Typed
<1>7. CASE ProcessFile
  <2>1. k < End /\ End \in Nat /\ End <= Len(files) /\ Len(files) \in Nat
    BY <1>7, EndIs DEF ProcessFile, Active
  <2>2. k' = k \/ k' = k + 1
    BY <1>7 DEF ProcessFile
  <2>3. k' \in Nat /\ k' <= Len(files)
    BY <1>0, <2>1, <2>2
  <2>4. outs' = outs \/ outs' = Added
    BY <1>7 DEF ProcessFile
  <2>5. outs' = [o \in DOMAIN outs' |-> outs'[o]] /\ DOMAIN outs' = DOMAIN outs
    BY <1>0, <2>4 DEF Added
  <2>6. pc' \in Final \cup Active
    BY <1>7 DEF ProcessFile, Final, Active
  <2> QED BY <1>0, <1>7, <2>3, <2>5, <2>6 DEF ProcessFile, Typed
<1>8. CASE Arrive
  <2>1. PICK f \in Arrivals \ dir : dir' = dir \cup {f}
    BY <1>8 DEF Arrive
  <2>2. IsFiniteSet(dir') /\ dir' \subseteq Files /\ dir \subseteq dir'
    BY <1>0, <2>1, FS_AddElement, MkfbAssumption
  <2>3. files \in Seq(dir')
    BY <1>0, <2>2
  <2> QED BY <1>0, <1>8, <2>2, <2>3 DEF Arrive, Typed, scanVars
<1>9. CASE Crash
  <2>1. outs' = outs \/ outs' = Added
    BY <1>9 DEF Crash
  <2>2. outs' = [o \in DOMAIN outs' |-> outs'[o]] /\ DOMAIN outs' = DOMAIN outs
    BY <1>0, <2>1 DEF Added
  <2> QED BY <1>0, <1>9, <2>2 DEF Crash, Typed, Final, scanVars
<1>10. CASE Rerun
  <2>1. runs' \in 1..MaxRuns
    BY <1>0, <1>10 DEF Rerun
  <2> QED BY <1>0, <1>10, <2>1 DEF Rerun, Typed, scanVars
<1>11. CASE UNCHANGED vars
  BY <1>0, <1>11 DEF vars, scanVars, Typed
<1> QED BY <1>1, <1>2, <1>3, <1>4, <1>5, <1>6, <1>7, <1>8, <1>9, <1>10, <1>11
        DEF Next, Process

\* The outputs change in three actions only.
LEMMA OutputsChange ==
  ASSUME [Next]_vars
  PROVE  outs' = outs \/ Create \/ (pc = "files" /\ k < End /\ k >= cmd.skip /\ outs' = Added)
BY DEF Next, Process, Main, NoSuchScan, BeginScan, AllDone, ListDirectory, Skip,
       ProcessFile, CloseSigProcFiles, Arrive, Crash, Rerun, vars

LEMMA PlannedNext ==
  ASSUME Inv, [Next]_vars
  PROVE  Planned'
<1> USE DEF Inv
<1>0. /\ cmd' = cmd /\ cmd \in Commands /\ Reading' = Reading /\ Plan' = Plan
      /\ pc \in Final \cup Active \cup {"main"} /\ todo \in Seq({NoScan} \cup Int)
  BY Same, SameCommand DEF Typed, Planned
<1>1. CASE Main
  <2>1. CASE Reading
    <3>1. todo' = Plan /\ pc' = "scan"
      BY <1>1, <2>1 DEF Main, Reading
    <3>2. Plan \in Seq({NoScan} \cup Int) /\ Len(Plan) \in Nat
      BY <1>0, <2>1, PlanIs
    <3>3. \A i \in 1..Len(Plan) : Len(Plan) - Len(Plan) + i = i
      BY <3>2
    <3> QED BY <1>0, <2>1, <3>1, <3>2, <3>3 DEF Planned
  <2>2. CASE ~Reading
    <3>1. todo' = <<>> /\ pc' = "threw"
      BY <1>1, <2>2 DEF Main, Reading
    <3> QED BY <1>0, <2>2, <3>1 DEF Planned, Active
  <2> QED BY <2>1, <2>2
<1>2. ASSUME pc \in Active, todo # <<>>, todo' = Tail(todo), pc' = "scan" PROVE Planned'
  BY <1>0, <1>2, NowIsNew DEF Planned, Active
<1>3. ASSUME todo' = todo, pc' # "main", pc # "main", pc' \in Active => pc \in Active PROVE Planned'
  BY <1>0, <1>3 DEF Planned
<1>4. CASE NoSuchScan \/ BeginScan \/ AllDone
  BY <1>3, <1>4 DEF NoSuchScan, BeginScan, AllDone, Active
<1>5. CASE ListDirectory
  <2>1. pc = "list" /\ (NextScan \/ (todo' = todo /\ pc' = "create"))
    BY <1>5 DEF ListDirectory
  <2>2. todo # <<>>
    BY <2>1 DEF AtScan
  <2> QED BY <1>2, <1>3, <2>1, <2>2 DEF NextScan, Active
<1>6. CASE CloseSigProcFiles
  <2>1. pc = "files" /\ NextScan /\ todo # <<>>
    BY <1>6 DEF CloseSigProcFiles, AtScan
  <2> QED BY <1>2, <2>1 DEF NextScan, Active
<1>7. CASE Create \/ Skip \/ ProcessFile \/ Crash
  BY <1>3, <1>7 DEF Create, Skip, ProcessFile, Crash, Final, Active
<1>8. CASE Arrive \/ UNCHANGED vars
  BY <1>0, <1>8 DEF Arrive, vars, Planned
<1>9. CASE Rerun
  BY <1>0, <1>9 DEF Rerun, Planned, Active
<1> QED BY <1>1, <1>4, <1>5, <1>6, <1>7, <1>8, <1>9 DEF Next, Process

LEMMA Within ==
  ASSUME NEW a \in Nat, NEW b \in Nat, NEW n \in Nat, a <= b, b <= n
  PROVE  \A i \in 1..(b - a) : a + i \in 1..b /\ a + i \in 1..n
OBVIOUS

\* What has been copied, file by file; one more makes it what is copied next.
LEMMA CopiedIs ==
  ASSUME Typed, Planned, pc = "files", k >= cmd.skip
  PROVE  /\ Copied \in Seq(dir) /\ Len(Copied) = k - cmd.skip /\ DOMAIN Copied = 1..(k - cmd.skip)
         /\ Copied = [i \in 1..(k - cmd.skip) |-> files[cmd.skip + i]]
         /\ \A i \in 1..(k - cmd.skip) : cmd.skip + i \in 1..k /\ Copied[i] = files[cmd.skip + i]
<1>1. /\ cmd.skip \in Nat /\ Len(files) \in Nat /\ k \in Nat /\ k <= Len(files)
      /\ files \in Seq(dir)
  BY EndIs DEF Typed, Active
<1>2. PICK a \in Nat : a = cmd.skip
  BY <1>1
<1>3. (IF k <= a THEN 0 ELSE k - a) = k - a
  BY <1>1, <1>2
<1>4. Copied = [i \in 1..(k - a) |-> files[a + i]]
  BY <1>2, <1>3 DEF Copied
<1>5. \A i \in 1..(k - a) : a + i \in 1..k /\ a + i \in 1..Len(files)
  BY <1>1, <1>2, Within
<1>6. k - a \in Nat
  BY <1>1, <1>2
<1>7. \A i \in 1..Len(files) : files[i] \in dir
  BY <1>1
<1>8. Copied \in [1..(k - a) -> dir]
  BY <1>4, <1>5, <1>7
<1>9. PICK n \in Nat : n = k - a
  BY <1>6
<1>10. Copied \in Seq(dir) /\ Len(Copied) = n /\ DOMAIN Copied = 1..n
  BY <1>8, <1>9
<1>11. \A i \in 1..n : Copied[i] = files[a + i]
  BY <1>4, <1>9
<1> QED BY <1>2, <1>4, <1>5, <1>9, <1>10, <1>11

LEMMA CopyOneMore ==
  ASSUME Typed, Planned, pc = "files", k >= cmd.skip, k < Len(files)
  PROVE  /\ k + 1 \in DOMAIN files /\ files[k + 1] \in dir
         /\ \A i \in 1..(k + 1 - cmd.skip) : cmd.skip + i \in DOMAIN files
         /\ Append(Copied, files[k + 1])
              = [i \in 1..(k + 1 - cmd.skip) |-> files[cmd.skip + i]]
<1>1. /\ cmd.skip \in Nat /\ Len(files) \in Nat /\ k \in Nat /\ files \in Seq(dir)
  BY EndIs DEF Typed, Active
<1>2. PICK a \in Nat : a = cmd.skip
  BY <1>1
<1>3. k + 1 \in 1..Len(files) /\ k + 1 \in DOMAIN files /\ files[k + 1] \in dir
  BY <1>1
<1>5. PICK n \in Nat : n = k - a
  BY <1>1, <1>2
<1>4. /\ Copied \in Seq(dir) /\ Len(Copied) = n
      /\ \A i \in 1..n : Copied[i] = files[a + i]
  BY <1>2, <1>5, CopiedIs
<1> DEFINE s == Append(Copied, files[k + 1])
           t == [i \in 1..(n + 1) |-> files[a + i]]
<1>6. /\ s \in Seq(dir) /\ Len(s) = n + 1 /\ s[n + 1] = files[k + 1]
      /\ \A i \in 1..n : s[i] = files[a + i]
  BY <1>3, <1>4, <1>5
<1>8. a + (n + 1) = k + 1 /\ k + 1 - a = n + 1
  BY <1>1, <1>2, <1>5
<1> HIDE DEF s
<1>9. s = [i \in 1..(n + 1) |-> s[i]]
  BY <1>6
<1>10. ASSUME NEW i \in 1..(n + 1) PROVE s[i] = files[a + i]
  <2>1. CASE i = n + 1
    BY <1>6, <1>8, <2>1
  <2>2. CASE i # n + 1
    <3>1. i \in 1..n
      BY <2>2
    <3> QED BY <1>6, <3>1
  <2> QED BY <2>1, <2>2
<1>11. s = t
  BY <1>9, <1>10
<1>12. \A i \in 1..(n + 1) : a + i \in DOMAIN files
  <2>1. a <= k + 1 /\ k + 1 \in Nat /\ k + 1 <= Len(files)
    BY <1>1, <1>3, <1>5, <1>8
  <2>2. \A i \in 1..(k + 1 - a) : a + i \in 1..Len(files)
    BY <1>1, <2>1, Within
  <2> QED BY <1>1, <1>8, <2>2
<1> QED BY <1>2, <1>3, <1>8, <1>11, <1>12 DEF s

LEMMA OwnedNext ==
  ASSUME Inv, [Next]_vars
  PROVE  Owned'
<1> USE DEF Inv
<1>0. cmd' = cmd /\ dir \subseteq dir' /\ \A n : LineOf(n)' = LineOf(n)
  BY Same, SameCommand
<1>1. \A o \in DOMAIN outs : Right(o)
  BY DEF Owned
<1>2. ASSUME NEW o \in DOMAIN outs, o \in DOMAIN outs', outs'[o] = outs[o] PROVE Right(o)'
  <2>1. Right(o)
    BY <1>1
  <2>2. outs[o].data \in Seq(dir')
    BY <1>0, <2>1 DEF Right
  <2> QED BY <1>0, <1>2, <2>1, <2>2 DEF Right
<1>3. CASE outs' = outs
  BY <1>2, <1>3 DEF Owned
<1>4. CASE Create
  <2>1. /\ pc = "create" /\ outDir' = outDir /\ prefix' = prefix
        /\ DOMAIN outs' = DOMAIN outs \cup {Output}
        /\ \A o \in DOMAIN outs \ {Output} : outs'[o] = outs[o]
        /\ outs'[Output] = [header |-> MakeHeader(config, files[1]), data |-> <<>>]
    BY <1>4 DEF Create, MakeSigProcFiles, scanVars
  <2>2. ScanOf(Output) = Now /\ Output[2] = prefix
    BY <2>1, OutputIs DEF Output
  <2>3. Now # NoScan => Begins(LineOf(Now), prefix)
    BY <2>1, OutputIs DEF AtScan
  <2>4. Right(Output)'
    <3>1. PICK o : o = Output
      OBVIOUS
    <3>2. outs'[o].data = <<>> /\ outs'[o] = [header |-> outs'[o].header, data |-> outs'[o].data]
      BY <2>1, <3>1
    <3>3. ScanOf(o) # NoScan => Begins(LineOf(ScanOf(o))', o[2])
      BY <1>0, <2>2, <2>3, <3>1
    <3>4. Right(o)'
      BY <3>2, <3>3 DEF Right
    <3>5. Output' = Output
      BY <2>1 DEF Output
    <3> QED BY <3>1, <3>4, <3>5 DEF Right
  <2>5. Output' = Output
    BY <2>1 DEF Output
  <2> QED BY <1>2, <2>1, <2>4, <2>5 DEF Owned
<1>5. CASE pc = "files" /\ k < End /\ k >= cmd.skip /\ outs' = Added
  <2> DEFINE f == files[k + 1]
  <2>1. /\ Output \in DOMAIN outs
        /\ outs' = [o \in DOMAIN outs |->
             IF o = Output THEN [header |-> outs[o].header, data |-> Append(outs[o].data, f)]
             ELSE outs[o]]
    BY <1>5, AddedIs DEF Added
  <2>2. k < Len(files) /\ k \in Nat /\ Len(files) \in Nat /\ cmd.skip \in Nat
    BY <1>5, EndIs DEF Typed, Active
  <2>3. k + 1 \in DOMAIN files /\ f \in dir
    BY <1>5, <2>2, CopyOneMore
  <2>4. /\ outs[Output].data = Copied /\ Copied \in Seq(dir)
        /\ Len(Copied) = k - cmd.skip /\ DOMAIN Copied = 1..(k - cmd.skip)
        /\ \A i \in 1..(k - cmd.skip) : cmd.skip + i \in 1..k /\ Copied[i] = files[cmd.skip + i]
    BY <1>5, CopiedIs DEF AtOutput
  <2>5. /\ \A i \in DOMAIN files : files[i][1] = prefix
        /\ \A i, j \in DOMAIN files : i < j => files[i][2] < files[j][2]
    BY <1>5 DEF AtFiles
  <2>6. PICK n \in Nat : n = k - cmd.skip
    BY <1>5, <2>2
  <2>7. PICK s : s = Copied
    OBVIOUS
  <2> DEFINE t == Append(s, f)
  <2>8. /\ t \in Seq(dir) /\ DOMAIN t = 1..(n + 1) /\ t[n + 1] = f
        /\ \A i \in 1..n : t[i] = s[i]
    BY <2>3, <2>4, <2>6, <2>7
  <2> HIDE DEF t
  <2>9. \A i \in 1..(n + 1) : cmd.skip + i \in DOMAIN files /\ t[i] = files[cmd.skip + i]
    <3>1. k + 1 - cmd.skip = n + 1
      BY <2>2, <2>6
    <3> QED BY <1>5, <2>2, <2>7, <3>1, CopyOneMore DEF t
  <2>10. \A i, j \in 1..(n + 1) : i < j => t[i][2] < t[j][2]
    <3> TAKE i, j \in 1..(n + 1)
    <3>1. i < j => cmd.skip + i < cmd.skip + j
      BY <2>2
    <3> QED BY <2>5, <2>9, <3>1
  <2>11. \A i \in 1..(n + 1) : t[i][1] = prefix
    BY <2>5, <2>9
  <2>12. Right(Output)
    BY <1>1, <2>1
  <2>13. PICK o : o = Output
    OBVIOUS
  <2>14. o[2] = prefix /\ outs'[o].data = t
         /\ outs'[o] = [header |-> outs'[o].header, data |-> outs'[o].data]
    <3>1. o[2] = prefix
      BY <2>13 DEF Output
    <3>2. outs'[o] = [header |-> outs[o].header, data |-> t]
      BY <2>1, <2>4, <2>7, <2>13 DEF t
    <3> QED BY <3>1, <3>2
  <2>15. t \in Seq(dir')
    BY <1>0, <2>8
  <2>16. Right(o)'
    BY <1>0, <2>8, <2>10, <2>11, <2>12, <2>13, <2>14, <2>15 DEF Right
  <2>17. \A q \in DOMAIN outs : q # o => outs'[q] = outs[q]
    BY <2>1, <2>13
  <2>18. DOMAIN outs' = DOMAIN outs
    BY <2>1
  <2> QED BY <1>2, <2>16, <2>17, <2>18 DEF Owned
<1> QED BY <1>3, <1>4, <1>5, OutputsChange

LEMMA AtScanNext ==
  ASSUME Inv, [Next]_vars
  PROVE  AtScan'
<1> USE DEF Inv
<1>0. /\ cmd' = cmd /\ pScans' = pScans
      /\ \A n : DirOf(n)' = DirOf(n) /\ PrefixOf(n)' = PrefixOf(n) /\ Looked(n)' = Looked(n)
  BY Same, SameCommand
<1>1. \A n : Merged(n)' = Merged(n)
  BY <1>0 DEF Merged, Root
<1>2. ASSUME pc' \notin {"list", "create", "files"} PROVE AtScan'
  BY <1>2 DEF AtScan
<1>3. ASSUME UNCHANGED <<todo, config, prefix, outDir>>, pc \in {"list", "create", "files"},
             pc' = "list" => pc = "list"
      PROVE  AtScan'
  BY <1>0, <1>1, <1>3 DEF AtScan, Now
<1>4. CASE BeginScan
  <2>1. CASE pc' = "list"
    <3>1. todo # <<>> /\ todo' = todo /\ Now \in {NoScan} \cup DOMAIN pScans
      BY <1>4 DEF BeginScan, Now
    <3>2. config' = Merged(Now) /\ prefix' = PrefixOf(Now) /\ outDir' = DirOf(Now)
      BY <1>4 DEF BeginScan, Now, PrefixOf, DirOf
    <3> QED BY <1>0, <1>1, <2>1, <3>1, <3>2 DEF AtScan, Now
  <2> QED BY <1>2, <1>4, <2>1 DEF BeginScan
<1>5. CASE ListDirectory
  <2>1. CASE pc' = "create"
    <3>1. todo' = todo /\ config' = config /\ outDir' = outDir /\ pc = "list"
      BY <1>5, <2>1 DEF ListDirectory, NextScan
    <3>2. Now # NoScan => prefix' = prefix
      <4>1. SUFFICES ASSUME Now # NoScan PROVE prefix' = prefix
        OBVIOUS
      <4>2. prefix = PrefixOf(Now) /\ PrefixOf(Now) = Scan(LineOf(Now)).Prefix /\ LineOf(Now) \in Lines
        BY <3>1, <4>1, OutputIs DEF AtScan
      <4>3. Len(prefix) = 4
        BY <4>2, PrefixBegins
      <4>4. prefix # NoPrefix
        BY <4>3 DEF NoPrefix
      <4> QED BY <1>5, <4>4 DEF ListDirectory, Candidates
    <3> QED BY <1>0, <1>1, <2>1, <3>1, <3>2 DEF AtScan, Now
  <2> QED BY <1>2, <1>5, <2>1 DEF ListDirectory, NextScan
<1>6. CASE Main \/ NoSuchScan \/ AllDone \/ CloseSigProcFiles \/ Crash \/ Rerun
  BY <1>2, <1>6 DEF Main, NoSuchScan, AllDone, CloseSigProcFiles, NextScan, Crash, Rerun, Final
<1>7. CASE Create \/ Skip
  BY <1>3, <1>7 DEF Create, Skip, scanVars
<1>8. CASE ProcessFile
  BY <1>2, <1>3, <1>8 DEF ProcessFile
<1>9. CASE Arrive \/ UNCHANGED vars
  BY <1>0, <1>1, <1>9 DEF Arrive, vars, scanVars, AtScan, Now
<1> QED BY <1>4, <1>5, <1>6, <1>7, <1>8, <1>9 DEF Next, Process

LEMMA AtFilesNext ==
  ASSUME Inv, [Next]_vars
  PROVE  AtFiles'
<1> USE DEF Inv
<1>2. ASSUME pc' \notin {"create", "files"} PROVE AtFiles'
  BY <1>2 DEF AtFiles
<1>3. ASSUME UNCHANGED <<files, prefix, before>>, pc \in {"create", "files"}, pc' # "create"
      PROVE  AtFiles'
  BY <1>3 DEF AtFiles
<1>4. CASE ListDirectory
  <2>1. CASE files' # <<>>
    <3>1. PICK p : prefix' = p /\ files' = InDir(p)
      BY <1>4 DEF ListDirectory
    <3>2. ListingOf(files', prefix', dir)
      BY <3>1, InDirLists DEF Typed
    <3>3. before' = before /\ before \subseteq dir /\ k' = 0
      BY <1>4 DEF ListDirectory, Typed
    <3> QED BY <2>1, <3>2, <3>3 DEF ListingOf, AtFiles
  <2> QED BY <1>2, <1>4, <2>1 DEF ListDirectory, NextScan
<1>5. CASE Main \/ NoSuchScan \/ BeginScan \/ AllDone \/ CloseSigProcFiles \/ Crash \/ Rerun
  BY <1>2, <1>5 DEF Main, NoSuchScan, BeginScan, AllDone, CloseSigProcFiles, NextScan, Crash,
                    Rerun, Final
<1>6. CASE Create \/ Skip \/ ProcessFile
  BY <1>3, <1>6 DEF Create, Skip, ProcessFile, scanVars
<1>7. CASE Arrive \/ UNCHANGED vars
  BY <1>7 DEF Arrive, vars, scanVars, AtFiles
<1> QED BY <1>4, <1>5, <1>6, <1>7 DEF Next, Process

LEMMA AtOutputNext ==
  ASSUME Inv, [Next]_vars
  PROVE  AtOutput'
<1> USE DEF Inv
<1>0. cmd' = cmd
  BY Same
<1>2. ASSUME pc' # "files" PROVE AtOutput'
  BY <1>2 DEF AtOutput
<1>1. ASSUME files' = files PROVE End' = End
  BY <1>0, <1>1 DEF End
<1>3. CASE Create
  <2>1. /\ pc = "create" /\ files' = files /\ k' = k /\ Output' = Output
        /\ made' = made \cup {Output}
        /\ outs'[Output] = [header |-> MakeHeader(config, files[1]), data |-> <<>>]
    BY <1>3 DEF Create, MakeSigProcFiles, scanVars, Output
  <2>2. k = 0 /\ End \in Nat /\ cmd.skip \in Nat
    BY <2>1, EndIs DEF AtFiles, Active
  <2>3. k' <= End'
    BY <1>1, <2>1, <2>2
  <2>4. Copied' = <<>>
    <3>1. Copied' = [i \in 1..0 |-> files'[cmd'.skip + i]]
      BY <1>0, <2>1, <2>2 DEF Copied
    <3> QED BY <3>1
  <2>5. outs'[Output].data = <<>> /\ outs'[Output].header.rawdatafile = files[1]
    BY <2>1 DEF MakeHeader
  <2> QED BY <2>1, <2>3, <2>4, <2>5 DEF AtOutput
<1>4. ASSUME UNCHANGED <<config, prefix, outDir, files, outs, made>>, pc = "files", pc' = "files",
             k' <= End', Copied' = Copied
      PROVE  AtOutput'
  BY <1>4 DEF AtOutput, Output
<1>5. CASE Skip
  <2>1. /\ pc = "files" /\ pc' = "files" /\ k' = k + 1 /\ k < End /\ k < cmd.skip
        /\ UNCHANGED <<config, prefix, outDir, files, outs, made>>
    BY <1>5 DEF Skip, SkipFile
  <2>2. k \in Nat /\ End \in Nat /\ cmd.skip \in Nat /\ End' = End
    BY <1>1, <2>1, EndIs DEF Typed, Active
  <2>3. k' <= End' /\ k <= cmd.skip /\ k' <= cmd.skip
    BY <2>1, <2>2
  <2>4. Copied' = Copied
    BY <1>0, <2>1, <2>3 DEF Copied
  <2> QED BY <1>4, <2>1, <2>3, <2>4
<1>6. CASE ProcessFile
  <2>1. CASE pc' # "files"
    BY <1>2, <2>1
  <2>2. CASE pc' = "files"
    <3>1. /\ pc = "files" /\ outs' = Added /\ k' = k + 1 /\ k < End /\ k >= cmd.skip
          /\ UNCHANGED <<prefix, outDir, files, made>>
      BY <1>6, <2>2 DEF ProcessFile
    <3>2. k \in Nat /\ End \in Nat /\ cmd.skip \in Nat /\ End' = End /\ End <= Len(files) /\ Len(files) \in Nat
      BY <1>1, <3>1, EndIs DEF Typed, Active
    <3>3. k' <= End' /\ k < Len(files)
      BY <3>1, <3>2
    <3>4. Append(Copied, files[k + 1]) = [i \in 1..(k + 1 - cmd.skip) |-> files[cmd.skip + i]]
      BY <3>1, <3>3, CopyOneMore
    <3>5. Copied' = Append(Copied, files[k + 1])
      <4>1. (IF k' <= cmd.skip THEN 0 ELSE k' - cmd.skip) = k + 1 - cmd.skip
        BY <3>1, <3>2
      <4>2. Copied' = [i \in 1..(IF k' <= cmd.skip THEN 0 ELSE k' - cmd.skip) |-> files[cmd.skip + i]]
        BY <1>0, <3>1 DEF Copied
      <4> QED BY <3>4, <4>1, <4>2
    <3>6. /\ Output \in made /\ Output \in DOMAIN outs /\ outs[Output].data = Copied
          /\ outs[Output].header.rawdatafile = files[1]
      BY <3>1 DEF AtOutput, Typed
    <3>7. outs'[Output] = [header |-> outs[Output].header, data |-> Append(outs[Output].data, files[k + 1])]
      <4>1. [outs EXCEPT ![Output].data = Append(@, files[k + 1])]
              = [x \in DOMAIN outs |->
                   IF x = Output
                   THEN [header |-> outs[x].header, data |-> Append(outs[x].data, files[k + 1])]
                   ELSE outs[x]]
        BY <3>1, AddedIs
      <4> QED BY <3>1, <3>6, <4>1 DEF Added
    <3>8. outs'[Output].data = Copied' /\ outs'[Output].header.rawdatafile = files[1]
      BY <3>5, <3>6, <3>7
    <3>9. Output' = Output
      BY <3>1 DEF Output
    <3> QED BY <3>1, <3>3, <3>6, <3>8, <3>9 DEF AtOutput
  <2> QED BY <2>1, <2>2
<1>7. CASE Main \/ NoSuchScan \/ BeginScan \/ AllDone \/ ListDirectory \/ CloseSigProcFiles \/ Crash \/ Rerun
  BY <1>2, <1>7 DEF Main, NoSuchScan, BeginScan, AllDone, ListDirectory, CloseSigProcFiles,
                    NextScan, Crash, Rerun, Final
<1>8. CASE Arrive \/ UNCHANGED vars
  <2>1. UNCHANGED <<config, prefix, outDir, files, k, outs, made, pc>>
    BY <1>8 DEF Arrive, vars, scanVars
  <2>2. Copied' = Copied /\ End' = End
    BY <1>0, <1>1, <2>1 DEF Copied
  <2>3. CASE pc = "files"
    <3>1. k' <= End'
      BY <2>1, <2>2, <2>3 DEF AtOutput
    <3> QED BY <1>4, <2>1, <2>2, <2>3, <3>1
  <2> QED BY <1>2, <2>1, <2>3
<1> QED BY <1>3, <1>5, <1>6, <1>7, <1>8 DEF Next, Process

LEMMA MadeNext ==
  ASSUME Inv, [Next]_vars
  PROVE  MadeForScans'
<1> USE DEF Inv
<1>0. cmd' = cmd /\ Plan' = Plan
  BY Same, SameCommand
<1>1. ASSUME pc' \notin Active PROVE MadeForScans'
  BY <1>1 DEF MadeForScans
<1>2. ASSUME UNCHANGED <<todo, made>>, pc \in {"scan", "list", "create"}, pc' # "files"
      PROVE  MadeForScans'
  BY <1>0, <1>2 DEF MadeForScans, Past, Active
<1>3. ASSUME UNCHANGED <<todo, made, prefix, outDir>>, pc = "files", pc' = "files"
      PROVE  MadeForScans'
  BY <1>0, <1>3 DEF MadeForScans, Past, Active, Output
<1>4. ASSUME NextScan, made' = made, pc \in {"list", "files"} PROVE MadeForScans'
  <2>1. todo # <<>> /\ todo' = Tail(todo) /\ pc' = "scan"
    BY <1>4 DEF AtScan, NextScan
  <2>2. Past' = Past \cup {Now}
    BY <1>0, <1>4, <2>1, NowIsNew DEF Past, Active
  <2>3. ScanOf(Output) = Now
    BY <1>4, OutputIs DEF Output
  <2> QED BY <1>4, <2>1, <2>2, <2>3 DEF MadeForScans, Active
<1>5. CASE Main
  BY <1>5 DEF Main, MadeForScans
<1>6. CASE BeginScan
  BY <1>1, <1>2, <1>6 DEF BeginScan, Active
<1>7. CASE ListDirectory
  BY <1>2, <1>4, <1>7 DEF ListDirectory
<1>8. CASE Create
  <2>1. /\ pc = "create" /\ pc' = "files" /\ todo' = todo /\ made' = made \cup {Output}
        /\ Output' = Output
    BY <1>8 DEF Create, scanVars, Output
  <2>2. Past' = Past
    BY <1>0, <2>1 DEF Past
  <2> QED BY <2>1, <2>2 DEF MadeForScans, Active
<1>9. CASE Skip
  BY <1>3, <1>9 DEF Skip
<1>10. CASE ProcessFile
  BY <1>1, <1>3, <1>10 DEF ProcessFile, Active
<1>11. CASE CloseSigProcFiles
  BY <1>4, <1>11 DEF CloseSigProcFiles
<1>12. CASE NoSuchScan \/ AllDone \/ Crash \/ Rerun
  BY <1>1, <1>12 DEF NoSuchScan, AllDone, Crash, Rerun, Final, Active
<1>13. CASE Arrive \/ UNCHANGED vars
  BY <1>0, <1>13 DEF Arrive, vars, scanVars, MadeForScans, Past, Output
<1> QED BY <1>5, <1>6, <1>7, <1>8, <1>9, <1>10, <1>11, <1>12, <1>13 DEF Next, Process

-----------------------------------------------------------------------------
(* That the scans gone through are complete.                               *)

\* A file comes after as many files as its place in the listing says.
LEMMA RankIs ==
  ASSUME Typed, AtFiles, pc = "files", \A f \in dir : f[1] = prefix => f \in before,
         NEW i \in DOMAIN files
  PROVE  RankIn(files[i], Own(prefix)) = i - 1
<1>1. /\ files \in Seq(dir) /\ Len(files) \in Nat /\ DOMAIN files = 1..Len(files)
      /\ before \subseteq dir
      /\ \A j \in DOMAIN files : files[j][1] = prefix
      /\ \A h, j \in DOMAIN files : h < j => files[h][2] < files[j][2]
      /\ \A f \in before : f[1] = prefix => \E j \in DOMAIN files : files[j] = f
  BY DEF Typed, AtFiles
<1>2. \A j \in DOMAIN files : files[j] \in dir /\ files[j] \in Own(prefix) /\ files[j][2] \in Nat
  BY <1>1, FileIs DEF Typed, Own
<1>3. \A f \in Own(prefix) : \E j \in DOMAIN files : files[j] = f
  BY <1>1 DEF Own
<1>4. \A h, j \in DOMAIN files : files[h][2] < files[j][2] <=> h < j
  <2> TAKE h, j \in DOMAIN files
  <2>1. files[h][2] \in Nat /\ files[j][2] \in Nat /\ h \in Nat /\ j \in Nat
    BY <1>1, <1>2
  <2>2. h < j => files[h][2] < files[j][2]
    BY <1>1
  <2>3. j < h => files[j][2] < files[h][2]
    BY <1>1
  <2>4. CASE h = j
    BY <2>1, <2>4
  <2> QED BY <2>1, <2>2, <2>3, <2>4
<1> DEFINE S == {g \in Own(prefix) : g[2] < files[i][2]}
           b == [j \in 1..(i - 1) |-> files[j]]
<1>5. i \in Nat /\ i >= 1 /\ i - 1 \in Nat /\ \A j \in 1..(i - 1) : j \in DOMAIN files /\ j < i
  BY <1>1
<1>6. \A g \in S : \E j \in 1..(i - 1) : b[j] = g
  <2> TAKE g \in S
  <2>1. PICK j \in DOMAIN files : files[j] = g
    BY <1>3
  <2>2. j < i
    BY <1>4, <2>1
  <2>3. j \in 1..(i - 1)
    BY <1>1, <1>5, <2>2
  <2> QED BY <2>1, <2>3
<1>7. \A j \in 1..(i - 1) : b[j] \in S
  BY <1>2, <1>4, <1>5
<1>8. \A h, j \in 1..(i - 1) : b[h] = b[j] => h = j
  <2> TAKE h, j \in 1..(i - 1)
  <2>1. HAVE b[h] = b[j]
  <2>2. files[h] = files[j] /\ h \in DOMAIN files /\ j \in DOMAIN files /\ files[h][2] \in Nat
    BY <1>2, <1>5, <2>1
  <2>3. ~(h < j) /\ ~(j < h)
    BY <1>4, <2>2
  <2> QED BY <1>5, <2>3
<1>9. b \in Bijection(1..(i - 1), S)
  <2>1. b \in [1..(i - 1) -> S]
    BY <1>7
  <2> HIDE DEF b, S
  <2> QED BY <1>6, <1>8, <2>1 DEF Bijection, Injection, Surjection, IsInjective
<1>10. Cardinality(S) = i - 1
  BY <1>5, <1>9, FS_CountingElements DEF ExistsBijection
<1> QED BY <1>10 DEF RankIn

\* The data of a listing that has been gone through.
LEMMA DataIs ==
  ASSUME Typed, Planned, AtOutput, pc = "files", NEW f
  PROVE  f \in DataOf(Output) <=>
           \E j \in DOMAIN files : f = files[j] /\ j > cmd.skip /\ j <= k
<1>1. /\ outs[Output].data = Copied /\ k \in Nat /\ cmd.skip \in Nat /\ k <= Len(files)
      /\ Len(files) \in Nat /\ DOMAIN files = 1..Len(files)
  BY EndIs DEF Typed, AtOutput, Active
<1>2. CASE k < cmd.skip
  <2>1. (IF k <= cmd.skip THEN 0 ELSE k - cmd.skip) = 0
    BY <1>1, <1>2
  <2>2. DOMAIN Copied = 1..0
    BY <2>1 DEF Copied
  <2>3. f \notin DataOf(Output)
    BY <1>1, <2>2 DEF DataOf
  <2>4. \A j \in DOMAIN files : ~(j > cmd.skip /\ j <= k)
    BY <1>1, <1>2
  <2> QED BY <2>3, <2>4
<1>3. CASE k >= cmd.skip
  <2>1. /\ DOMAIN Copied = 1..(k - cmd.skip)
        /\ \A i \in 1..(k - cmd.skip) : cmd.skip + i \in 1..k /\ Copied[i] = files[cmd.skip + i]
    BY <1>3, CopiedIs
  <2>2. ASSUME NEW i \in 1..(k - cmd.skip)
        PROVE  cmd.skip + i \in DOMAIN files /\ cmd.skip + i > cmd.skip /\ cmd.skip + i <= k
    BY <1>1, <1>3
  <2>3. ASSUME f \in DataOf(Output)
        PROVE  \E j \in DOMAIN files : f = files[j] /\ j > cmd.skip /\ j <= k
    <3>1. PICK i \in 1..(k - cmd.skip) : f = Copied[i]
      BY <1>1, <2>1, <2>3 DEF DataOf
    <3> QED BY <2>1, <2>2, <3>1
  <2>4. ASSUME NEW j \in DOMAIN files, f = files[j], j > cmd.skip, j <= k
        PROVE  f \in DataOf(Output)
    <3>1. PICK i \in Nat : i = j - cmd.skip
      BY <1>1, <2>4
    <3>2. i \in 1..(k - cmd.skip) /\ cmd.skip + i = j
      BY <1>1, <1>3, <2>4, <3>1
    <3>3. Copied[i] = f /\ i \in DOMAIN Copied
      BY <2>1, <2>4, <3>2
    <3> QED BY <1>1, <3>3 DEF DataOf
  <2> QED BY <2>3, <2>4
<1> QED BY <1>1, <1>2, <1>3

LEMMA BeforeEnd ==
  ASSUME NEW n \in Nat, NEW a \in Nat, NEW b \in Nat
  PROVE  \A j \in 1..n : /\ j <= Lesser(n, a + b) <=> j - 1 < a + b
                         /\ j > a <=> j - 1 >= a
BY DEF Lesser

LEMMA ClosedIsComplete ==
  ASSUME Inv, pc = "files", k >= End
  PROVE  Output \in made /\ ScanOf(Output) = Now /\ Has(Output)
<1> USE DEF Inv
<1>1. /\ cmd.skip \in Nat /\ cmd.num \in Nat /\ Len(files) \in Nat /\ End \in Nat
      /\ End <= Len(files)
      /\ cmd.num = 0 => End = Len(files)
      /\ cmd.num # 0 => End = Lesser(Len(files), cmd.skip + cmd.num)
  BY EndIs DEF Active
<1>2. k = End /\ Output \in made /\ k \in Nat
  BY <1>1 DEF AtOutput, Typed
<1>3. ScanOf(Output) = Now /\ Output[2] = prefix
  BY OutputIs DEF Output
<1>4. DOMAIN files = 1..Len(files) /\ files \in Seq(dir)
  BY DEF Typed
<1>5. ASSUME cmd.skip = 0, cmd.num = 0, NEW f \in Own(prefix) PROVE f \in DataOf(Output)
  <2>1. PICK j \in DOMAIN files : files[j] = f
    BY DEF AtFiles, Own
  <2>2. j > cmd.skip /\ j <= k
    BY <1>1, <1>2, <1>4, <1>5, <2>1
  <2> QED BY <2>1, <2>2, DataIs
<1>6. ASSUME \A f \in dir : f[1] = prefix => f \in before PROVE DataOf(Output) = Asked(prefix)
  <2>1. \A j \in DOMAIN files : j <= k <=> (cmd.num = 0 \/ j - 1 < cmd.skip + cmd.num)
    <3>1. CASE cmd.num = 0
      BY <1>1, <1>2, <1>4, <3>1
    <3>2. CASE cmd.num # 0
      <4>1. k = Lesser(Len(files), cmd.skip + cmd.num)
        BY <1>1, <1>2, <3>2
      <4>2. \A j \in 1..Len(files) : j <= k <=> j - 1 < cmd.skip + cmd.num
        BY <1>1, <4>1, BeforeEnd
      <4> QED BY <1>4, <3>2, <4>2
    <3> QED BY <3>1, <3>2
  <2>2. \A j \in DOMAIN files : j > cmd.skip <=> j - 1 >= cmd.skip
    <3>1. PICK a \in Nat : a = cmd.skip
      BY <1>1
    <3>2. \A j \in 1..Len(files) : j > a <=> j - 1 >= a
      BY <1>1, BeforeEnd
    <3> QED BY <1>4, <3>1, <3>2
  <2>3. \A j \in DOMAIN files : files[j] \in Own(prefix) /\ RankIn(files[j], Own(prefix)) = j - 1
    <3>1. \A j \in DOMAIN files : files[j] \in dir /\ files[j][1] = prefix
      BY <1>4 DEF AtFiles
    <3> QED BY <1>6, <3>1, RankIs DEF Own
  <2>4. \A f \in Own(prefix) : \E j \in DOMAIN files : files[j] = f
    BY DEF AtFiles, Own
  <2>5. ASSUME NEW f \in DataOf(Output) PROVE f \in Asked(prefix)
    <3>1. PICK j \in DOMAIN files : f = files[j] /\ j > cmd.skip /\ j <= k
      BY DataIs
    <3>2. j - 1 >= cmd.skip /\ (cmd.num = 0 \/ j - 1 < cmd.skip + cmd.num)
      BY <2>1, <2>2, <3>1
    <3> QED BY <2>3, <3>1, <3>2 DEF Asked
  <2>6. ASSUME NEW f \in Asked(prefix) PROVE f \in DataOf(Output)
    <3>1. f \in Own(prefix)
      BY DEF Asked
    <3>2. PICK j \in DOMAIN files : files[j] = f
      BY <2>4, <3>1
    <3>3. j - 1 >= cmd.skip /\ (cmd.num = 0 \/ j - 1 < cmd.skip + cmd.num)
      BY <2>3, <3>2 DEF Asked
    <3>4. j > cmd.skip /\ j <= k
      BY <2>1, <2>2, <3>3
    <3> QED BY <3>2, <3>4, DataIs
  <2> QED BY <2>5, <2>6
<1> QED BY <1>2, <1>3, <1>5, <1>6 DEF Has

\* Without a file of its own a scan gets no output.
LEMMA NothingListed ==
  ASSUME Inv, ListDirectory, files' = <<>>
  PROVE  ~\E f \in before : Now # NoScan => Begins(LineOf(Now), f[1])
<1> USE DEF Inv
<1>1. SUFFICES ASSUME NEW f \in before, Now # NoScan => Begins(LineOf(Now), f[1]) PROVE FALSE
  OBVIOUS
<1>2. f \in dir /\ f \in Files /\ pc = "list" /\ prefix = PrefixOf(Now)
  BY DEF Typed, ListDirectory, AtScan
<1>3. PICK p \in Candidates : files' = InDir(p)
  BY DEF ListDirectory
<1>4. ListingOf(<<>>, p, dir)
  BY <1>3, InDirLists DEF Typed
<1>5. \A g \in dir : g[1] # p
  BY <1>4 DEF ListingOf
<1>6. CASE Now = NoScan
  <2>1. p \in {g[1] : g \in dir}
    BY <1>2, <1>3, <1>6 DEF Candidates, PrefixOf
  <2> QED BY <1>5, <2>1
<1>7. CASE Now # NoScan
  <2>1. f[1] = PrefixOf(Now) /\ Len(PrefixOf(Now)) = 4
    BY <1>1, <1>2, <1>7, OwnPrefix, OutputIs, PrefixBegins
  <2>2. prefix # NoPrefix
    BY <1>2, <2>1 DEF NoPrefix
  <2>3. p = prefix
    BY <1>3, <2>2 DEF Candidates
  <2> QED BY <1>2, <1>5, <2>1, <2>3
<1> QED BY <1>6, <1>7

LEMMA CompleteStays ==
  ASSUME cmd' = cmd, before' = before, made \subseteq made', dir \subseteq dir', NEW n, Complete(n),
         \A o \in made : ScanOf(o) = n => outs'[o].data = outs[o].data
  PROVE  Complete(n)'
<1>1. LineOf(n)' = LineOf(n)
  BY SameCommand
<1>2. SUFFICES ASSUME \E f \in before : n # NoScan => Begins(LineOf(n), f[1])
               PROVE  \E o \in made' : ScanOf(o) = n /\ Has(o)'
  BY <1>1 DEF Complete
<1>3. PICK o \in made : ScanOf(o) = n /\ Has(o)
  BY <1>2 DEF Complete
<1>4. outs'[o].data = outs[o].data
  BY <1>3
<1>5. DataOf(o)' = DataOf(o)
  BY <1>4 DEF DataOf
<1>6. \A p : Own(p)' = Own(p) /\ Asked(p)' = Asked(p)
  BY DEF Own, Asked
<1>7. Has(o)'
  BY <1>3, <1>5, <1>6 DEF Has
<1> QED BY <1>3, <1>7

LEMMA PastCompleteNext ==
  ASSUME Inv, [Next]_vars
  PROVE  PastComplete'
<1> USE DEF Inv
<1>0. cmd' = cmd /\ Reading' = Reading /\ Plan' = Plan /\ dir \subseteq dir'
  BY Same, SameCommand
<1>1. ASSUME pc' = "main" PROVE PastComplete'
  BY <1>1 DEF PastComplete
<1>2. ASSUME UNCHANGED <<todo, before, made, outs>>, pc # "main" PROVE PastComplete'
  <2>1. SUFFICES ASSUME Reading, NEW n \in Past PROVE Complete(n)'
    BY <1>0, <1>2 DEF PastComplete, Past
  <2>2. Complete(n)
    BY <1>2, <2>1 DEF PastComplete
  <2> QED BY <1>0, <1>2, <2>2, CompleteStays
<1>3. ASSUME UNCHANGED <<todo, before>>, made \subseteq made', pc \in {"create", "files"},
             \A o \in made : o # Output => outs'[o].data = outs[o].data
      PROVE  PastComplete'
  <2>1. SUFFICES ASSUME Reading, NEW n \in Past PROVE Complete(n)'
    BY <1>0, <1>3 DEF PastComplete, Past
  <2>2. Complete(n)
    BY <1>3, <2>1 DEF PastComplete
  <2>3. ScanOf(Output) = Now /\ Now # n
    BY <1>3, <2>1, OutputIs, NowIsNew DEF Output, AtScan, Active
  <2>4. \A o \in made : ScanOf(o) = n => outs'[o].data = outs[o].data
    BY <1>3, <2>3
  <2> QED BY <1>0, <1>3, <2>2, <2>4, CompleteStays
<1>4. ASSUME NextScan, UNCHANGED <<before, made, outs>>, pc \in {"list", "files"}, Complete(Now)
      PROVE  PastComplete'
  <2>1. todo # <<>> /\ todo' = Tail(todo) /\ Reading /\ pc # "main"
    BY <1>4 DEF AtScan, NextScan, Planned, Active
  <2>2. Past' = Past \cup {Now}
    BY <1>0, <1>4, <2>1, NowIsNew DEF Past, Active
  <2>3. \A n \in Past \cup {Now} : Complete(n)
    BY <1>4, <2>1 DEF PastComplete
  <2>4. ASSUME NEW n \in Past \cup {Now} PROVE Complete(n)'
    BY <1>0, <1>4, <2>3, CompleteStays
  <2> QED BY <2>2, <2>4 DEF PastComplete
<1>5. CASE Main
  <2>1. SUFFICES ASSUME Reading, NEW n \in Past' PROVE Complete(n)'
    BY <1>0 DEF PastComplete
  <2>2. todo' = Plan
    BY <1>5, <2>1 DEF Main, Reading
  <2>3. Len(Plan) \in Nat
    BY <2>1, PlanIs DEF Typed
  <2>4. Past' = {}
    BY <1>0, <2>2, <2>3 DEF Past
  <2> QED BY <2>1, <2>4
<1>6. CASE NoSuchScan \/ BeginScan \/ AllDone
  BY <1>2, <1>6 DEF NoSuchScan, BeginScan, AllDone
<1>7. CASE ListDirectory
  <2>1. pc = "list" /\ UNCHANGED <<before, made, outs>>
    BY <1>7 DEF ListDirectory
  <2>2. CASE files' = <<>>
    <3>1. NextScan
      BY <1>7, <2>2 DEF ListDirectory
    <3>2. Complete(Now)
      BY <1>7, <2>2, NothingListed DEF Complete
    <3> QED BY <1>4, <2>1, <3>1, <3>2
  <2>3. CASE files' # <<>>
    <3>1. todo' = todo
      BY <1>7, <2>3 DEF ListDirectory
    <3> QED BY <1>2, <2>1, <3>1
  <2> QED BY <2>2, <2>3
<1>8. CASE Create
  <2>1. /\ pc = "create" /\ UNCHANGED <<todo, before>> /\ made' = made \cup {Output}
        /\ \A o \in DOMAIN outs : o # Output => outs'[o] = outs[o]
    BY <1>8 DEF Create, MakeSigProcFiles
  <2>2. made \subseteq DOMAIN outs
    BY DEF Typed
  <2> QED BY <1>3, <2>1, <2>2
<1>9. CASE Skip
  BY <1>2, <1>9 DEF Skip
<1>10. ASSUME pc = "files", outs' = Added \/ outs' = outs, UNCHANGED <<todo, before, made>>
       PROVE  PastComplete'
  <2>1. \A o \in made : o # Output => outs'[o].data = outs[o].data
    BY <1>10, AddedIs DEF Added, Typed
  <2> QED BY <1>3, <1>10, <2>1
<1>11. CASE ProcessFile
  BY <1>10, <1>11 DEF ProcessFile
<1>12. CASE Crash
  BY <1>2, <1>10, <1>12 DEF Crash
<1>13. CASE CloseSigProcFiles
  <2>1. pc = "files" /\ k >= End /\ NextScan /\ UNCHANGED <<before, made, outs>>
    BY <1>13 DEF CloseSigProcFiles
  <2>2. Complete(Now)
    BY <2>1, ClosedIsComplete DEF Complete
  <2> QED BY <1>4, <2>1, <2>2
<1>14. CASE Arrive \/ UNCHANGED vars
  <2>1. UNCHANGED <<todo, before, made, outs, pc>>
    BY <1>14 DEF Arrive, vars
  <2> QED BY <1>1, <1>2, <2>1
<1>15. CASE Rerun
  BY <1>1, <1>15 DEF Rerun
<1> QED BY <1>5, <1>6, <1>7, <1>8, <1>9, <1>11, <1>12, <1>13, <1>14, <1>15 DEF Next, Process

-----------------------------------------------------------------------------
(* That each output has the header of its scan.                            *)

\* What HeaderOfScan says of a header, and of its file and the data.
RightRA(name) == IF Set("RA") THEN cmd.conf.RA
                 ELSE IF Entries(name) = {} THEN 0
                 ELSE Angle(cmd.catalog[CHOOSE i \in Entries(name) : TRUE].ra)
RightTsamp(n) == IF Set("SampleTime") THEN cmd.conf.SampleTime
                 ELSE IF n = NoScan THEN 0 ELSE 1024 * (LineOf(n).dt + 1)
RightTstart(p) == IF Set("Start_MJD") /\ cmd.conf.Start_MJD > 0 THEN cmd.conf.Start_MJD
                  ELSE IF Len(p) = 4 THEN Hours(p) ELSE 0
RightDec(name, dec) ==
  /\ Set("Dec") => dec = cmd.conf.Dec
  /\ \A i \in Entries(name) :
       ~Set("Dec") /\ cmd.catalog[i].dec.deg # 0 => dec = Angle(cmd.catalog[i].dec)
FieldsRight(o, h) ==
  LET n == ScanOf(o) IN
  /\ h.source_name = NameOf(n)
  /\ h.tsamp = RightTsamp(n) /\ h.tstart = RightTstart(o[2])
  /\ h.src_raj = RightRA(h.source_name) /\ RightDec(h.source_name, h.src_dej)
FirstRight(o) ==
  LET file == outs[o].header.rawdatafile IN
  /\ file[1] = o[2] /\ file \in dir
  /\ \A i \in DOMAIN outs[o].data : file[2] <= outs[o].data[i][2]
HeaderRight(o) == FieldsRight(o, outs[o].header) /\ FirstRight(o)
Headed == \A o \in made : HeaderRight(o)

LEMMA SameFields ==
  ASSUME cmd' = cmd, NEW o, NEW h, FieldsRight(o, h), outs'[o].header = h
  PROVE  FieldsRight(o, outs[o].header)'
<1>1. /\ \A n : LineOf(n)' = LineOf(n)
      /\ \A x : Set(x)' <=> Set(x)
      /\ \A x : Entries(x)' = Entries(x)
  BY SameCommand DEF Set, Entries
<1>2. \A n : NameOf(n)' = NameOf(n)
  BY <1>1, SameCommand DEF NameOf
<1>3. \A n : RightTsamp(n)' = RightTsamp(n)
  BY <1>1 DEF RightTsamp
<1>4. \A p : RightTstart(p)' = RightTstart(p)
  BY <1>1 DEF RightTstart
<1>5. \A name : RightRA(name)' = RightRA(name)
  BY DEF RightRA, Entries, Set
<1>6. \A name, dec : RightDec(name, dec)' <=> RightDec(name, dec)
  BY <1>1 DEF RightDec
<1> QED BY <1>2, <1>3, <1>4, <1>5, <1>6 DEF FieldsRight

\* The time of the first sample, from the configuration or a date.
LEMMA TstartIs ==
  ASSUME Inv, pc = "create"
  PROVE  Tstart(config, files[1]) = RightTstart(prefix)
<1> USE DEF Inv
<1>1. /\ cmd \in Commands /\ Reading /\ Now \in {NoScan} \cup DOMAIN pScans
      /\ config = Merged(Now) /\ (Now # NoScan => prefix = PrefixOf(Now))
  BY DEF Typed, Planned, AtScan, Active
<1>2. files \in Seq(dir) /\ files # <<>> /\ files[1] \in Files /\ files[1][1] = prefix
  BY DEF Typed, AtFiles
<1>3. config.Start_MJD = IF Set("Start_MJD") THEN cmd.conf.Start_MJD
                         ELSE IF Now = NoScan THEN 0 ELSE MakeMJD(PrefixOf(Now))
  BY <1>1, MergedIs, FilledIs
<1>4. prefix = <<0>> \/ prefix \in Dates
  BY <1>2, FileIs
<1>5. MakeMJD(prefix) = IF Len(prefix) = 4 THEN Hours(prefix) ELSE 0
  <2>1. CASE prefix = <<0>>
    BY <2>1 DEF MakeMJD, IsDate
  <2>2. CASE prefix \in Dates
    <3>1. PICK yr \in Years, mo \in 1..12, day \in 1..31, hour \in 0..23 :
            prefix = <<yr, mo, day, hour>>
      BY <2>2, DateIs, Zenon
    <3>2. Len(prefix) = 4
      BY <3>1
    <3> QED BY <2>2, <3>2, HoursIs
  <2> QED BY <1>4, <2>1, <2>2
<1>6. Tstart(config, files[1]) = IF config.Start_MJD > 0 THEN config.Start_MJD ELSE MakeMJD(prefix)
  BY <1>2 DEF Tstart
<1>7. RightTstart(prefix) = IF Set("Start_MJD") /\ cmd.conf.Start_MJD > 0 THEN cmd.conf.Start_MJD
                            ELSE MakeMJD(prefix)
  BY <1>5 DEF RightTstart
<1>8. CASE Set("Start_MJD")
  BY <1>3, <1>6, <1>7, <1>8
<1>9. CASE ~Set("Start_MJD") /\ Now = NoScan
  BY <1>3, <1>6, <1>7, <1>9
<1>10. CASE ~Set("Start_MJD") /\ Now # NoScan
  <2>1. config.Start_MJD = MakeMJD(prefix)
    BY <1>1, <1>3, <1>10
  <2> QED BY <1>6, <1>7, <1>10, <2>1
<1> QED BY <1>8, <1>9, <1>10

\* Create writes the header of the scan that the run is at.
LEMMA CreatedRight ==
  ASSUME Inv, [Next]_vars, Create
  PROVE  \E o : o = Output /\ HeaderRight(o)'
<1> USE DEF Inv
<1>1. /\ cmd \in Commands /\ Reading /\ Now \in {NoScan} \cup DOMAIN pScans
      /\ config = Merged(Now)
  BY DEF Typed, Planned, AtScan, Active, Create
<1>2. pc = "create" /\ cmd' = cmd /\ dir' = dir /\ Output' = Output
  BY DEF Create, scanVars, Output
<1>3. ScanOf(Output) = Now /\ Output[2] = prefix
  BY <1>2, OutputIs DEF Output
<1>4. files \in Seq(dir) /\ files # <<>> /\ files[1] \in dir /\ files[1][1] = prefix
  BY <1>2 DEF Typed, AtFiles
<1> DEFINE h == MakeHeader(config, files[1])
<1>5. outs'[Output] = [header |-> h, data |-> <<>>]
  BY DEF Create, MakeSigProcFiles
<1>6. /\ h.source_name = config.Name /\ h.src_raj = config.RA /\ h.src_dej = config.Dec
      /\ h.tsamp = config.SampleTime /\ h.tstart = Tstart(config, files[1])
      /\ h.rawdatafile = files[1]
  BY DEF MakeHeader
<1> HIDE DEF h
<1>7. FieldsRight(Output, h)
  <2>1. h.source_name = NameOf(Now) /\ h.tsamp = RightTsamp(Now)
    BY <1>1, <1>6, MergedIs, FilledIs DEF RightTsamp
  <2>2. h.src_raj = RightRA(h.source_name) /\ RightDec(h.source_name, h.src_dej)
    BY <1>1, <1>6, <2>1, MergedIs DEF RightRA, RightDec
  <2>3. h.tstart = RightTstart(prefix)
    BY <1>2, <1>6, TstartIs
  <2> QED BY <1>3, <2>1, <2>2, <2>3 DEF FieldsRight
<1>8. PICK o : o = Output
  OBVIOUS
<1>9. outs'[o].header = h /\ outs'[o].data = <<>>
  BY <1>5, <1>8
<1>10. FieldsRight(o, outs[o].header)'
  BY <1>2, <1>7, <1>8, <1>9, SameFields
<1>11. FirstRight(o)'
  BY <1>2, <1>3, <1>4, <1>6, <1>8, <1>9 DEF FirstRight
<1>12. HeaderRight(o)'
  BY <1>10, <1>11 DEF HeaderRight
<1> QED BY <1>8, <1>12

LEMMA HeadedNext ==
  ASSUME Inv, Headed, [Next]_vars
  PROVE  Headed'
<1> USE DEF Inv
<1>0. cmd' = cmd /\ dir \subseteq dir'
  BY Same
<1>1. made' \subseteq made \/ (Create /\ made' = made \cup {Output})
  BY DEF Next, Process, Main, NoSuchScan, BeginScan, AllDone, ListDirectory, Create, Skip,
         ProcessFile, CloseSigProcFiles, Arrive, Crash, Rerun, vars
<1>2. ASSUME NEW o \in made, outs'[o] = outs[o] PROVE HeaderRight(o)'
  <2>1. HeaderRight(o)
    BY DEF Headed
  <2>2. FieldsRight(o, outs[o].header)'
    <3>1. PICK h : h = outs[o].header
      OBVIOUS
    <3>2. FieldsRight(o, h) /\ outs'[o].header = h
      BY <1>2, <2>1, <3>1 DEF HeaderRight
    <3> QED BY <1>0, <3>2, SameFields
  <2> QED BY <1>0, <1>2, <2>1, <2>2 DEF HeaderRight, FirstRight
<1>3. CASE outs' = outs /\ ~Create
  BY <1>1, <1>2, <1>3 DEF Headed
<1>4. CASE Create
  <2> SUFFICES ASSUME NEW o \in made' PROVE HeaderRight(o)'
    BY DEF Headed
  <2>2. CASE o = Output
    BY <1>4, <2>2, CreatedRight
  <2>3. CASE o # Output
    <3>1. o \in made /\ o \in DOMAIN outs
      BY <1>1, <1>4, <2>3 DEF Typed
    <3>2. outs'[o] = outs[o]
      BY <1>4, <2>3, <3>1 DEF Create, MakeSigProcFiles
    <3> QED BY <1>2, <3>1, <3>2
  <2> QED BY <2>2, <2>3
<1>5. CASE pc = "files" /\ k < End /\ k >= cmd.skip /\ outs' = Added
  <2> SUFFICES ASSUME NEW o \in made PROVE HeaderRight(o)'
    BY <1>1, <1>5 DEF Headed, Create
  <2>1. o \in DOMAIN outs
    BY DEF Typed
  <2>2. CASE o # Output
    BY <1>2, <1>5, <2>1, <2>2, AddedIs DEF Added
  <2>3. CASE o = Output
    <3>1. outs'[o] = [header |-> outs[o].header, data |-> Append(outs[o].data, files[k + 1])]
      <4>1. [outs EXCEPT ![Output].data = Append(@, files[k + 1])]
              = [x \in DOMAIN outs |->
                   IF x = Output
                   THEN [header |-> outs[x].header, data |-> Append(outs[x].data, files[k + 1])]
                   ELSE outs[x]]
        BY <1>5, AddedIs
      <4> QED BY <1>5, <2>1, <2>3, <4>1 DEF Added
    <3>2. outs[o].header.rawdatafile = files[1] /\ HeaderRight(o) /\ outs[o].data \in Seq(dir)
      BY <1>5, <2>1, <2>3 DEF AtOutput, Headed, Owned, Right
    <3>3. PICK h, d : h = outs[o].header /\ d = outs[o].data
      OBVIOUS
    <3>4. outs'[o].header = h /\ outs'[o].data = Append(d, files[k + 1])
      BY <3>1, <3>3
    <3>5. files[1][2] <= files[k + 1][2]
      <4>1. k \in Nat /\ End \in Nat /\ End <= Len(files) /\ Len(files) \in Nat /\ files \in Seq(dir)
        BY <1>5, EndIs DEF Typed, Active
      <4>2. 1 \in DOMAIN files /\ k + 1 \in DOMAIN files
        BY <1>5, <4>1
      <4>3. files[1][2] \in Nat /\ files[k + 1][2] \in Nat
        BY <4>1, <4>2, FileIs DEF Typed
      <4>4. 1 < k + 1 => files[1][2] < files[k + 1][2]
        BY <1>5, <4>2 DEF AtFiles
      <4> QED BY <4>1, <4>3, <4>4
    <3>6. \A i \in DOMAIN Append(d, files[k + 1]) :
            \/ i \in DOMAIN d /\ Append(d, files[k + 1])[i] = d[i]
            \/ Append(d, files[k + 1])[i] = files[k + 1]
      BY <3>2, <3>3
    <3>7. FirstRight(o)'
      <4>1. h.rawdatafile = files[1] /\ h.rawdatafile[1] = o[2] /\ h.rawdatafile \in dir
        BY <3>2, <3>3 DEF HeaderRight, FirstRight
      <4>2. \A i \in DOMAIN d : h.rawdatafile[2] <= d[i][2]
        BY <3>2, <3>3 DEF HeaderRight, FirstRight
      <4> QED BY <1>0, <3>4, <3>5, <3>6, <4>1, <4>2 DEF FirstRight
    <3>8. FieldsRight(o, outs[o].header)'
      <4>1. FieldsRight(o, h)
        BY <3>2, <3>3 DEF HeaderRight
      <4> QED BY <1>0, <3>4, <4>1, SameFields
    <3> QED BY <3>7, <3>8 DEF HeaderRight
  <2> QED BY <2>2, <2>3
<1> QED BY <1>3, <1>4, <1>5, OutputsChange

LEMMA InitInv == Init => Inv
<1> SUFFICES ASSUME Init PROVE Inv
  OBVIOUS
<1>1. Typed
  <2>1. cmd \in Commands /\ dir \in Present /\ before = {} /\ made = {} /\ files = <<>> /\ k = 0
        /\ runs = 1 /\ pc = "main"
    BY DEF Init
  <2>2. IsFiniteSet(dir) /\ dir \subseteq Files /\ runs \in 1..MaxRuns
    BY <2>1, MkfbAssumption
  <2>3. outs = [o \in {} |-> <<>>] /\ DOMAIN outs = {}
    BY DEF Init
  <2>4. outs = [o \in DOMAIN outs |-> outs[o]]
    BY <2>3
  <2> QED BY <2>1, <2>2, <2>4 DEF Typed
<1>2. Owned
  BY DEF Init, Owned
<1>3. Planned
  BY DEF Init, Planned, Active
<1>4. AtScan /\ AtFiles /\ AtOutput /\ MadeForScans /\ PastComplete
  BY DEF Init, AtScan, AtFiles, AtOutput, MadeForScans, PastComplete, Active
<1> QED BY <1>1, <1>2, <1>3, <1>4 DEF Inv

LEMMA NextInv == Inv /\ [Next]_vars => Inv'
BY TypedNext, OwnedNext, PlannedNext, AtScanNext, AtFilesNext, AtOutputNext, MadeNext,
   PastCompleteNext DEF Inv

LEMMA AlwaysInv == Spec => []Inv
BY InitInv, NextInv, PTL DEF Spec

-----------------------------------------------------------------------------
(* The theorems about mkfb.                                                *)

\* Every variable keeps its type, for any command line and directory.
THEOREM TypeCorrect == Spec => []TypeOK
<1>1. Inv => TypeOK
  <2> SUFFICES ASSUME Inv PROVE TypeOK
    OBVIOUS
  <2>1. /\ cmd \in Commands /\ runs \in 1..MaxRuns
        /\ pc \in Final \cup {"main", "scan", "list", "create", "files"}
        /\ made \subseteq DOMAIN outs /\ before \subseteq dir
    BY DEF Inv, Typed, Active
  <2>2. k \in Nat /\ k <= Len(files) /\ files \in Seq(dir) /\ Len(files) \in Nat
    BY DEF Inv, Typed
  <2>3. k \in 0..Len(files) /\ \A i \in DOMAIN files : files[i] \in dir
    BY <2>2
  <2> QED BY <2>1, <2>3 DEF TypeOK
<1> QED BY <1>1, AlwaysInv, PTL

\* Whatever scans fail, whenever the program is killed and run again, and
\* whatever arrives in the directory, each output holds the files of its own
\* scan, each once and in order.
THEOREM AlwaysOwnFiles == Spec => []OwnFiles
<1>1. Inv => OwnFiles
  <2> SUFFICES ASSUME Inv, NEW o \in DOMAIN outs
               PROVE  /\ \A i \in DOMAIN outs[o].data :
                           /\ outs[o].data[i] \in dir /\ outs[o].data[i][1] = o[2]
                           /\ i > 1 => outs[o].data[i - 1][2] < outs[o].data[i][2]
                      /\ ScanOf(o) # NoScan => Begins(LineOf(ScanOf(o)), o[2])
    BY DEF OwnFiles
  <2>1. Right(o)
    BY DEF Inv, Owned
  <2>2. PICK s : s = outs[o].data
    OBVIOUS
  <2>3. /\ s \in Seq(dir)
        /\ \A i \in DOMAIN s : s[i][1] = o[2]
        /\ \A i, j \in DOMAIN s : i < j => s[i][2] < s[j][2]
    BY <2>1, <2>2 DEF Right
  <2>4. \A i \in DOMAIN s : s[i] \in dir /\ (i > 1 => i - 1 \in DOMAIN s /\ i - 1 < i)
    BY <2>3
  <2>5. \A i \in DOMAIN s : i > 1 => s[i - 1][2] < s[i][2]
    BY <2>3, <2>4
  <2> QED BY <2>1, <2>2, <2>3, <2>4, <2>5 DEF Right
<1> QED BY <1>1, AlwaysInv, PTL

\* Whether a later scan fails or not, a scan that a run has been through has its
\* output, with the files that were asked for.
THEOREM AlwaysPastScansComplete == Spec => []PastScansComplete
<1>1. Inv => PastScansComplete
  BY DEF Inv, PastComplete, PastScansComplete, Reading, Complete, Has, Own, Asked, RankIn, DataOf
<1> QED BY <1>1, AlwaysInv, PTL

\* Within a run no step touches the output of a scan that is done.
THEOREM AlwaysDoneStaysDone == Spec => DoneStaysDone
<1>1. ASSUME Inv, [Next]_vars, NEW o \in made, pc # "files" \/ o # Output
      PROVE  outs'[o] = outs[o]
  <2> USE <1>1 DEF Inv
  <2>1. o \in DOMAIN outs
    BY <1>1 DEF Typed
  <2>2. CASE Create
    <3>1. (pc = "create" /\ outs'[o] = outs[o]) \/ o = Output
      BY <2>1, <2>2 DEF Create, MakeSigProcFiles
    <3>2. pc = "create" /\ todo # <<>>
      BY <1>1, <2>2 DEF Create, AtScan
    <3>3. ScanOf(Output) = Now /\ Now \notin Past
      BY <1>1, <3>2, OutputIs, NowIsNew DEF Output, Active
    <3>4. ScanOf(o) \in Past
      BY <1>1, <3>2 DEF MadeForScans, Active
    <3> QED BY <3>1, <3>3, <3>4
  <2>3. CASE pc = "files" /\ outs' = Added
    BY <1>1, <2>1, <2>3, AddedIs DEF Added
  <2> QED BY <1>1, <2>2, <2>3, OutputsChange
<1>2. Inv /\ [Next]_vars => \A o \in made : (pc # "files" \/ o # Output) => outs'[o] = outs[o]
  BY <1>1
<1> QED BY <1>2, AlwaysInv, PTL DEF Spec, DoneStaysDone

\* The header of an output belongs to its own scan, whatever scan came before
\* and wherever each of its fields comes from: ProcessScan and MakeHeader mix
\* up no two of them.
THEOREM AlwaysHeaderOfScan == Spec => []HeaderOfScan
<1>1. Init => Headed
  BY DEF Init, Headed
<1>2. Inv /\ Headed /\ [Next]_vars => Headed'
  BY HeadedNext
<1>3. Headed => HeaderOfScan
  <2> DEFINE Body(o) ==
          LET n == ScanOf(o)  h == outs[o].header IN
          /\ h.source_name = NameOf(n)
          /\ h.tsamp = IF Set("SampleTime") THEN cmd.conf.SampleTime
                       ELSE IF n = NoScan THEN 0 ELSE 1024 * (LineOf(n).dt + 1)
          /\ h.tstart = IF Set("Start_MJD") /\ cmd.conf.Start_MJD > 0 THEN cmd.conf.Start_MJD
                        ELSE IF Len(o[2]) = 4 THEN Hours(o[2]) ELSE 0
          /\ h.rawdatafile[1] = o[2] /\ h.rawdatafile \in dir
          /\ \A i \in DOMAIN outs[o].data : h.rawdatafile[2] <= outs[o].data[i][2]
          /\ h.src_raj = IF Set("RA") THEN cmd.conf.RA
                         ELSE IF Entries(h.source_name) = {} THEN 0
                         ELSE Angle(cmd.catalog[CHOOSE i \in Entries(h.source_name) : TRUE].ra)
          /\ Set("Dec") => h.src_dej = cmd.conf.Dec
          /\ \A i \in Entries(h.source_name) :
               ~Set("Dec") /\ cmd.catalog[i].dec.deg # 0
                 => h.src_dej = Angle(cmd.catalog[i].dec)
  <2>0. HeaderOfScan <=> \A o \in made : Body(o)
    BY Zenon DEF HeaderOfScan
  <2> HIDE DEF Body
  <2> SUFFICES ASSUME Headed, NEW o \in made PROVE Body(o)
    BY <2>0
  <2> DEFINE n == ScanOf(o)
             h == outs[o].header
  <2>1. FieldsRight(o, outs[o].header) /\ FirstRight(o)
    BY Zenon DEF Headed, HeaderRight
  <2>2. /\ h.source_name = NameOf(n)
        /\ h.tsamp = RightTsamp(n) /\ h.tstart = RightTstart(o[2])
        /\ h.src_raj = RightRA(h.source_name) /\ RightDec(h.source_name, h.src_dej)
    BY <2>1 DEF FieldsRight
  <2>3. /\ h.rawdatafile[1] = o[2] /\ h.rawdatafile \in dir
        /\ \A i \in DOMAIN outs[o].data : h.rawdatafile[2] <= outs[o].data[i][2]
    BY <2>1 DEF FirstRight
  <2> QED BY <2>2, <2>3 DEF Body, RightTsamp, RightTstart, RightRA, RightDec
<1> QED BY <1>1, <1>2, <1>3, AlwaysInv, PTL DEF Spec
=============================================================================
