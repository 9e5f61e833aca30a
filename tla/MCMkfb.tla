------------------------------- MODULE MCMkfb -------------------------------
(* Small instances of Mkfb for TLC.                                        *)
EXTENDS Mkfb

Upper(id) == [id |-> id, upper |-> TRUE]
Lower(id) == [id |-> id, upper |-> FALSE]

\* Scans over two turns of a month, of a leap year's February and of a year.
P1 == <<2016, 2, 29, 5>>
P2 == <<2016, 3, 1, 16>>
P3 == <<2017, 1, 1, 0>>
Line(name, num, ymd, hour, dt) ==
  [kind |-> "scan", target |-> name, num |-> num, ymd |-> ymd, hour |-> hour, dt |-> dt]
Other(kind) == [Line(Lower("?"), 0, 0, 0, 0) EXCEPT !.kind = kind]
Line1 == Line(Lower("vela"), 2, 160229, 5, 499)
Line2 == Line(Upper("crab"), 1, 160301, 16, 99)
Line3 == Line(Upper("vela"), 10, 170101, 0, 499)

\* In any order of numbers; a number that comes twice, two numbers for one
\* start, a blank line in the middle, a line that is no scan.
ScanFiles ==
  {<<Line1, Line2, Line3>>, <<Line1, [Line2 EXCEPT !.num = 2]>>,
   <<Line1, [Line1 EXCEPT !.num = 3]>>, <<Line2, Other("blank"), Line1>>, <<Line1, Other("other")>>}

Pos(neg, deg, rest) == [form |-> "dms", neg |-> neg, deg |-> deg, rest |-> rest]
Pulsar(name, ra, dec) == [fields |-> 4, name |-> name, ra |-> ra, dec |-> dec]
Catalog1 == <<Pulsar(Lower("vela"), Pos(FALSE, 8, 3520), Pos(TRUE, 45, 1034)),
              Pulsar(Upper("vela"), Pos(FALSE, 1, 0), Pos(FALSE, 1, 0)),
              Pulsar(Upper("crab"), Pos(FALSE, 5, 3431), Pos(FALSE, 22, 52))>>
\* The declination has no sign.
NoSign == <<[Catalog1[1] EXCEPT !.dec.form = "other"]>>
Broken == <<[Catalog1[1] EXCEPT !.fields = 3]>>
\* A pulsar just south of the equator.
Equator == <<Pulsar(Upper("vela"), Pos(FALSE, 6, 3026), Pos(TRUE, 0, 4605))>>

Bits == [x \in {"InputBits"} |-> 16]
Conf1 == [InputBits |-> 16, OutputBits |-> 32, Name |-> Lower("crab"), Dec |-> -5, Start_MJD |-> 7]
Conf2 == [InputBits |-> 16, RA |-> 9, SampleTime |-> 3, Start_MJD |-> -1, NumIFs |-> 2]

Command(opts, scanNum, skip, num, scans, catalog, conf) ==
  [batch |-> TRUE, monitor |-> FALSE, paths |-> TRUE, opts |-> opts, scanNum |-> scanNum,
   skip |-> skip, num |-> num, scans |-> scans, catalog |-> catalog, conf |-> conf]
Plain(scans, catalog, conf) == Command({}, 0, 0, 0, scans, catalog, conf)

MCCommands ==
  {Plain(s, Catalog1, Bits) : s \in ScanFiles}
  \cup {Plain(s, Catalog1, c) : s \in {<<Line1, Line2, Line3>>, NoFile}, c \in {Conf1, Conf2}}
  \cup {Plain(<<Line1>>, NoSign, Bits), Plain(NoFile, NoFile, Bits), Plain(NoFile, Missing, Bits), Plain(NoFile, Broken, Bits),
        Plain(NoFile, NoFile, [Bits EXCEPT !["InputBits"] = 8])}
  \cup {Command({"skip", "num"}, 0, 1, 1, <<Line1, Line2>>, NoFile, Bits),
        Command({"num"}, 0, 0, -1, NoFile, NoFile, Bits)}
  \cup {Command({"scan-num"}, n, 0, 0, <<Line1, Line2>>, NoFile, Bits) : n \in {2, 4}}
  \cup {[Plain(NoFile, NoFile, Bits) EXCEPT !.batch = b, !.monitor = TRUE] : b \in BOOLEAN}

EquatorCommands == {Plain(<<Line1, Line2>>, Equator, Bits)}

MCPresent ==
  {{}, {<<P1, 1>>, <<P1, 2>>, <<P2, 1>>}, {<<P1, 1>>, <<P1, 2>>, <<P2, 2>>, <<P3, 1>>, <<<<0>>, 1>>}}
MCArrivals == {<<P1, 3>>, <<P2, 1>>}
MCBadFiles == {<<P2, 2>>}
=============================================================================
