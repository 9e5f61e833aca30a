------------------------------- MODULE Scans -------------------------------
(***************************************************************************)
(* What mkfb reads before it works: dates (MakeMJD), the scan file, the     *)
(* catalogue of pulsars and the configuration, and how ProcessScan merges    *)
(* them.  Pure operators, for Mkfb.                                         *)
(*                                                                         *)
(* A date is <<year, month, day, hour>>, the prefix of a .dada file a date  *)
(* or <<0>>, which is none; NoPrefix is the empty string.  Minutes and      *)
(* seconds are left out: times are in hours, sample times in nanoseconds.   *)
(* A name is [id, upper], where id "" is the empty name.                    *)
(***************************************************************************)
EXTENDS Integers, Sequences, FiniteSets

NoPrefix == <<>>
ToUpper(name) == [name EXCEPT !.upper = TRUE]
Named(name)   == name.id # ""

-----------------------------------------------------------------------------
(* Dates.                                                                  *)

\* The Julian day of noon: years begin in March, and months are as long as
\* 153 days for five make them.
JulianDay(year, month, day) ==
  LET a == (14 - month) \div 12
      y == year + 4800 - a
      m == month + 12 * a - 3
  IN  day + (153 * m + 2) \div 5 + 365 * y + y \div 4 - y \div 100 + y \div 400 - 32045

\* The calendar, to compare with.
IsLeap(y) == y % 4 = 0 /\ (y % 100 = 0 => y % 400 = 0)
DaysIn(y, m) == IF m = 2 THEN (IF IsLeap(y) THEN 29 ELSE 28)
                ELSE IF m \in {4, 6, 9, 11} THEN 30 ELSE 31
NextDay(y, m, d) == IF d < DaysIn(y, m) THEN <<y, m, d + 1>>
                    ELSE IF m < 12 THEN <<y, m + 1, 1>> ELSE <<y + 1, 1, 1>>

IsDate(prefix) == Len(prefix) = 4

\* Hours since MJD 0; 0 for a name without a date.
MakeMJD(prefix) ==
  IF IsDate(prefix)
  THEN 24 * JulianDay(prefix[1], prefix[2], prefix[3]) + (prefix[4] - 12) - 57600012
  ELSE 0

-----------------------------------------------------------------------------
(* The scan file: lines [kind, target, num, ymd, hour, dt].                 *)

Scan(line) ==
  LET date == <<line.ymd \div 10000 + 2000, (line.ymd \div 100) % 100, line.ymd % 100,
                line.hour>>
  IN [Num |-> line.num, Target |-> ToUpper(line.target), Prefix |-> date,
      MJD |-> MakeMJD(date), SampleTime |-> 1024 * (line.dt + 1)]

\* A blank line ends the reading; any other line that is no scan is an error.
Blanks(lines)  == {i \in DOMAIN lines : lines[i].kind = "blank"}
ReadOf(lines)  == {i \in DOMAIN lines : \A j \in Blanks(lines) : i < j}
ScanFileThrows(lines) == \E i \in ReadOf(lines) : lines[i].kind = "other"

\* map::insert keeps what is there.
ScanFile(lines) ==
  [n \in {lines[i].num : i \in ReadOf(lines)} |->
    Scan(lines[CHOOSE i \in ReadOf(lines) :
      lines[i].num = n /\ \A j \in ReadOf(lines) : lines[j].num = n => i <= j])]

OutDir_Target(scan) == <<scan.Target>> \* a slip: the number is forgotten
\* The buffer the number is printed into holds five characters of it.
OutDir(scan) == <<scan.Num, ToUpper(scan.Target)>>

-----------------------------------------------------------------------------
(* The catalogue: lines [fields, name, ra, dec], where an angle is           *)
(* [form, neg, deg, rest], rest being minutes * 100 + seconds.  One that is  *)
(* not of the form "dms" does not match the regular expression.             *)

\* Two lines of heading are skipped; a line needs four fields.
CatalogThrows(lines) == \E i \in DOMAIN lines : lines[i].fields # 4

\* The sign is looked for in the degrees once they are a number.
GetRADec(angle) ==
  LET res == 10000 * (IF angle.neg THEN -angle.deg ELSE angle.deg)
  IN  IF angle.form # "dms" THEN 0
      ELSE IF res >= 0 THEN res + angle.rest ELSE res - angle.rest

Pulsars(lines) ==
  [n \in {ToUpper(lines[i].name) : i \in DOMAIN lines} |->
    LET i == CHOOSE i \in DOMAIN lines :
               ToUpper(lines[i].name) = n
               /\ \A j \in DOMAIN lines : ToUpper(lines[j].name) = n => i <= j
    IN  [RA |-> GetRADec(lines[i].ra), Dec |-> GetRADec(lines[i].dec)]]

-----------------------------------------------------------------------------
(* The configuration: a file that has some of the fields.                   *)

Defaults == [Name |-> [id |-> "", upper |-> FALSE], RA |-> 0, Dec |-> 0, Start_MJD |-> 0,
             SampleTime |-> 0, NumIFs |-> 0, InputBits |-> 0, OutputBits |-> -1]
FromPB(pb) == [x \in DOMAIN Defaults |-> IF x \in DOMAIN pb THEN pb[x] ELSE Defaults[x]]

\* The constructor of MakeFilterbank.
Refused(config) ==
  config.InputBits # 16 \/ (config.OutputBits > 0 /\ config.OutputBits # 32)

\* ProcessScan: what the configuration does not set comes from the scan, ...
OrElse(value, other) == IF value = 0 THEN other ELSE value
WithScan(config, scan) ==
  [config EXCEPT !.Start_MJD = OrElse(@, scan.MJD),
                 !.SampleTime = OrElse(@, scan.SampleTime),
                 !.Name = IF Named(@) THEN @ ELSE scan.Target]
\* ... and a position from the catalogue, if it has the name.
WithPulsar(config, pulsars) ==
  IF config.Name \notin DOMAIN pulsars THEN config
  ELSE [config EXCEPT !.RA = OrElse(@, pulsars[config.Name].RA),
                      !.Dec = OrElse(@, pulsars[config.Name].Dec)]

\* The header of what is made of a listing that starts with a file.
Tstart(config, file) ==
  IF config.Start_MJD > 0 THEN config.Start_MJD ELSE MakeMJD(file[1])
MakeHeader(config, file) ==
  [source_name |-> config.Name, src_raj |-> config.RA, src_dej |-> config.Dec,
   tsamp |-> config.SampleTime, nifs |-> IF config.NumIFs > 0 THEN config.NumIFs ELSE 1,
   tstart |-> Tstart(config, file), rawdatafile |-> file]
=============================================================================
