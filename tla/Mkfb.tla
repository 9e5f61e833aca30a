-------------------------------- MODULE Mkfb --------------------------------
(***************************************************************************)
(* The program mkfb over whole files: main's checks, the scans it goes       *)
(* through in batch mode, and for each of them ProcessScan and               *)
(* ProcessDirectory, next to a recorder that adds files to the directory;    *)
(* an exception, which nothing catches, and a kill end it anywhere, and it   *)
(* may be run again.  How a file is copied is Batch; what monitor mode does  *)
(* once it has begun is Monitor.                                            *)
(*                                                                         *)
(* A .dada file is <<prefix, index>>.  The filterbanks of an observation     *)
(* are one output, <<directory, prefix>>, with a header and the files in it. *)
(***************************************************************************)
EXTENDS Scans

CONSTANTS
  Commands,   \* command lines with the files they name
  Present,    \* sets of files the directory may hold at first
  Arrivals,   \* files that the recorder may add
  BadFiles,   \* files without an integer number of spectra
  MaxRuns,    \* bound: how often the command is run
  NoScan, NoFile, Missing

\* The names of .dada files, and what argp, the configuration, a scan file and a
\* catalogue can give.  A position has two digits of degrees or hours, and the
\* hours no sign.
Years == {y \in Nat : y >= 2000 /\ y <= 9999}
Dates == Years \X (1..12) \X (1..31) \X (0..23)
Files == ({<<0>>} \cup Dates) \X Nat
Names == [id : STRING, upper : BOOLEAN]
Lines == [kind : {"scan", "blank", "other"}, target : {n \in Names : Named(n)}, num : Int, ymd : Nat,
          hour : Nat, dt : Int]
Angles   == [form : {"dms", "other"}, neg : BOOLEAN, deg : Nat, rest : Nat]
Entry    == [fields : Nat, name : Names, ra : {a \in Angles : ~a.neg}, dec : Angles]
Settings == [Name : Names, RA : Int, Dec : Int, Start_MJD : Int, SampleTime : Int,
             NumIFs : Int, InputBits : Int, OutputBits : Int]

CommandOk(c) ==
  /\ c \in [batch : BOOLEAN, monitor : BOOLEAN, paths : BOOLEAN,
            opts : SUBSET {"scan-num", "skip", "num"}, scanNum : Int, skip : Int, num : Int,
            scans : {NoFile, Missing} \cup Seq(Lines),
            catalog : {NoFile, Missing} \cup Seq(Entry), conf : {c.conf}]
  /\ ("skip" \in c.opts \/ c.skip = 0) /\ ("num" \in c.opts \/ c.num = 0)
  /\ FromPB(c.conf) \in Settings
  /\ Named(FromPB(c.conf).Name) \/ FromPB(c.conf).Name = Defaults.Name

ASSUME MkfbAssumption ==
  /\ MaxRuns \in Nat \ {0} /\ NoScan \notin Int
  /\ \A c \in Commands : CommandOk(c)
  /\ \A s \in Present : IsFiniteSet(s) /\ s \subseteq Files
  /\ Arrivals \subseteq Files

VARIABLES
  cmd,            \* the command line
  dir,            \* the files in the input directory
  runs,           \* how often mkfb has been started
  pc,             \* where it is
  todo,           \* the scans it has still to process
  config, prefix, outDir, \* locals of ProcessScan
  files, k,       \* dadaFiles, and the one it is at
  outs,           \* the outputs
  before, made    \* history: files at the start of the run, outputs it has made

scanVars == <<config, prefix, outDir, files, k>>
vars == <<cmd, dir, runs, pc, todo, scanVars, outs, before, made>>

Final == {"done", "threw", "down", "monitor"}

-----------------------------------------------------------------------------
(* main.                                                                   *)

\* --batch or --monitor, three paths that are given and can be used, files that
\* exist, a scan file for a scan number, and numbers that make sense.
Rejected ==
  \/ cmd.batch = cmd.monitor \/ ~cmd.paths
  \/ cmd.scans = Missing \/ cmd.catalog = Missing
  \/ "scan-num" \in cmd.opts /\ cmd.scans = NoFile
  \/ "skip" \in cmd.opts /\ cmd.skip < 0
  \/ "num" \in cmd.opts /\ cmd.num <= 0
Unreadable ==
  \/ cmd.scans # NoFile /\ ScanFileThrows(cmd.scans)
  \/ cmd.catalog # NoFile /\ CatalogThrows(cmd.catalog)

pScans == IF cmd.scans = NoFile THEN <<>> ELSE ScanFile(cmd.scans)

\* Numbers in ascending order, as the map holds those of the scans.
InOrder(numbers) ==
  CHOOSE s \in [1..Cardinality(numbers) -> numbers] :
    \A i, j \in DOMAIN s : i < j => s[i] < s[j]
AllScans == InOrder(DOMAIN pScans)

\* Which scans there are to process.  Monitor mode takes a scan file only with
\* a scan number.
Plan ==
  IF "scan-num" \in cmd.opts THEN <<cmd.scanNum>>
  ELSE IF cmd.batch /\ cmd.scans # NoFile THEN AllScans
  ELSE <<NoScan>>

Main ==
  /\ pc = "main"
  /\ before' = dir /\ made' = {}
  /\ IF Rejected \/ Unreadable THEN pc' = "threw" /\ todo' = <<>>
     ELSE pc' = "scan" /\ todo' = Plan
  /\ UNCHANGED <<cmd, dir, runs, scanVars, outs>>

-----------------------------------------------------------------------------
(* ProcessScan.                                                            *)

Root == FromPB(cmd.conf)
Looked(c) == IF cmd.catalog = NoFile \/ ~Named(c.Name) THEN c
             ELSE WithPulsar(c, Pulsars(cmd.catalog))
Merged_Leaks(n) == \* a slip: the configuration of the scan before is filled up
  IF n = NoScan THEN Looked(Root)
  ELSE Looked(WithScan(IF made = {} THEN Root ELSE config, pScans[n]))
Merged(n) ==
  IF n = NoScan THEN Looked(Root) ELSE Looked(WithScan(Root, pScans[n]))

NoSuchScan ==
  /\ pc = "scan" /\ todo # <<>>
  /\ Head(todo) \notin {NoScan} \cup DOMAIN pScans
  /\ pc' = "threw"
  /\ UNCHANGED <<cmd, dir, runs, todo, scanVars, outs, before, made>>

BeginScan ==
  /\ pc = "scan" /\ todo # <<>>
  /\ LET n == Head(todo) IN
     /\ n \in {NoScan} \cup DOMAIN pScans
     /\ config' = Merged(n)
     /\ prefix' = IF n = NoScan THEN NoPrefix ELSE pScans[n].Prefix
     /\ outDir' = IF n = NoScan THEN <<>> ELSE OutDir(pScans[n])
     /\ pc' = IF Refused(config') THEN "threw" ELSE IF cmd.monitor THEN "monitor" ELSE "list"
  /\ UNCHANGED <<cmd, dir, runs, todo, files, k, outs, before, made>>

AllDone ==
  /\ pc = "scan" /\ todo = <<>> /\ pc' = "done"
  /\ UNCHANGED <<cmd, dir, runs, todo, scanVars, outs, before, made>>

-----------------------------------------------------------------------------
(* ProcessDirectory.                                                       *)

\* The files with a prefix, by name.
InDir(p) ==
  LET numbers == InOrder({f[2] : f \in {g \in dir : g[1] = p}})
  IN  [i \in DOMAIN numbers |-> <<p, numbers[i]>>]

\* Without a prefix, that of the file the directory happens to list first.
Candidates == IF prefix # NoPrefix \/ dir = {} THEN {prefix} ELSE {f[1] : f \in dir}

NextScan == todo' = Tail(todo) /\ pc' = "scan"

ListDirectory ==
  /\ pc = "list"
  /\ \E p \in Candidates : prefix' = p /\ files' = InDir(p)
  /\ k' = 0
  /\ IF files' = <<>> THEN NextScan ELSE pc' = "create" /\ UNCHANGED todo
  /\ UNCHANGED <<cmd, dir, runs, config, outDir, outs, before, made>>

Output == <<outDir, prefix>>

\* The outputs are emptied, and named after the first file even if that is
\* skipped.
MakeSigProcFiles_Reopen == \* a slip: what an earlier run wrote stays
  LET new == [header |-> MakeHeader(config, files[1]), data |-> <<>>]
  IN  outs' = [o \in DOMAIN outs \cup {Output} |-> IF o \in DOMAIN outs THEN outs[o] ELSE new]
MakeSigProcFiles ==
  outs' = [o \in DOMAIN outs \cup {Output} |->
    IF o = Output THEN [header |-> MakeHeader(config, files[1]), data |-> <<>>]
    ELSE outs[o]]

Create ==
  /\ pc = "create"
  /\ MakeSigProcFiles
  /\ made' = made \cup {Output} /\ pc' = "files"
  /\ UNCHANGED <<cmd, dir, runs, todo, scanVars, before>>

Lesser(x, y) == IF x < y THEN x ELSE y
End_NoSkip == Lesser(Len(files), IF cmd.num > 0 THEN cmd.num ELSE Len(files)) \* a slip
End == Lesser(Len(files), IF cmd.num > 0 THEN cmd.skip + cmd.num ELSE Len(files))

SkipFile_Stays == UNCHANGED k \* a slip: the loop does not go on
SkipFile_TooFar == k' = k + cmd.skip + 1 \* a slip
SkipFile == k' = k + 1

Skip ==
  /\ pc = "files" /\ k < End /\ k < cmd.skip
  /\ SkipFile
  /\ UNCHANGED <<cmd, dir, runs, pc, todo, config, prefix, outDir, files, outs, before, made>>

Added == [outs EXCEPT ![Output].data = Append(@, files[k + 1])]

ProcessFile ==
  /\ pc = "files" /\ k < End /\ k >= cmd.skip
  /\ IF files[k + 1] \in BadFiles THEN pc' = "threw" /\ UNCHANGED <<outs, k>>
     ELSE outs' = Added /\ k' = k + 1 /\ UNCHANGED pc
  /\ UNCHANGED <<cmd, dir, runs, todo, config, prefix, outDir, files, before, made>>

CloseSigProcFiles ==
  /\ pc = "files" /\ k >= End
  /\ NextScan
  /\ UNCHANGED <<cmd, dir, runs, scanVars, outs, before, made>>

-----------------------------------------------------------------------------
(* The world around it.                                                    *)

\* The recorder adds a file.
Arrive ==
  /\ \E f \in Arrivals \ dir : dir' = dir \cup {f}
  /\ UNCHANGED <<cmd, runs, pc, todo, scanVars, outs, before, made>>

\* A kill, or a call that fails, once main has read its files: perhaps within
\* a .dada file, part of which is then in the output.
Crash ==
  /\ pc \notin Final \cup {"main"}
  /\ \/ UNCHANGED outs
     \/ pc = "files" /\ k < End /\ k >= cmd.skip /\ files[k + 1] \notin BadFiles /\ outs' = Added
  /\ pc' = "down"
  /\ UNCHANGED <<cmd, dir, runs, todo, scanVars, before, made>>

\* The same command again; bound: MaxRuns.
Rerun ==
  /\ pc \in Final \ {"monitor"} /\ runs < MaxRuns
  /\ runs' = runs + 1 /\ pc' = "main" /\ todo' = <<>>
  /\ UNCHANGED <<cmd, dir, scanVars, outs, before, made>>

-----------------------------------------------------------------------------
Init ==
  /\ cmd \in Commands /\ dir \in Present
  /\ runs = 1 /\ pc = "main" /\ todo = <<>>
  /\ config = FromPB(cmd.conf) /\ prefix = NoPrefix /\ outDir = <<>>
  /\ files = <<>> /\ k = 0
  /\ outs = [o \in {} |-> <<>>] /\ before = {} /\ made = {}

Process == \/ Main \/ NoSuchScan \/ BeginScan \/ AllDone
           \/ ListDirectory \/ Create \/ Skip \/ ProcessFile \/ CloseSigProcFiles

Next == Process \/ Arrive \/ Crash \/ Rerun

\* A process that runs goes on; nobody has to run it again.
Spec == Init /\ [][Next]_vars /\ WF_vars(Process)
-----------------------------------------------------------------------------
(* Properties.  What is expected of the input is written down once more,    *)
(* from what the files mean.                                                *)

TypeOK ==
  /\ cmd \in Commands /\ runs \in 1..MaxRuns
  /\ pc \in Final \cup {"main", "scan", "list", "create", "files"}
  /\ k \in 0..Len(files) /\ made \subseteq DOMAIN outs
  /\ \A i \in DOMAIN files : files[i] \in dir
  /\ before \subseteq dir

\* The line of a scan: the first of its number above the first blank line.
LineOf(n) == CHOOSE line \in {cmd.scans[i] : i \in ReadOf(cmd.scans)} :
  \E i \in ReadOf(cmd.scans) :
    line = cmd.scans[i] /\ line.num = n /\ \A j \in 1..(i - 1) : cmd.scans[j].num # n
Begins(line, p) ==
  /\ Len(p) = 4 /\ p[4] = line.hour
  /\ (p[1] - 2000) * 10000 + p[2] * 100 + p[3] = line.ymd
ScanOf(o) == IF o[1] = <<>> THEN NoScan ELSE o[1][1]

\* Whatever has happened, an output holds files of its own prefix only, which
\* is that of its scan, each once and in order.
OwnFiles ==
  \A o \in DOMAIN outs :
    /\ \A i \in DOMAIN outs[o].data :
         /\ outs[o].data[i] \in dir /\ outs[o].data[i][1] = o[2]
         /\ i > 1 => outs[o].data[i - 1][2] < outs[o].data[i][2]
    /\ ScanOf(o) # NoScan => Begins(LineOf(ScanOf(o)), o[2])

\* The scans that this run has been through.
Past == {Plan[i] : i \in 1..(Len(Plan) - Len(todo))}

\* Whether a later scan fails or not, a scan the run has been through has its
\* output, with the files asked for of those that were there at the start.
PastScansComplete ==
  pc # "main" /\ ~Rejected /\ ~Unreadable =>
    \A n \in Past :
      (\E f \in before : n # NoScan => Begins(LineOf(n), f[1])) =>
        \E o \in made :
          LET own  == {f \in before : f[1] = o[2]}
              data == {outs[o].data[i] : i \in DOMAIN outs[o].data}
              Rank(f) == Cardinality({g \in own : g[2] < f[2]})
              asked == {f \in own : /\ Rank(f) >= cmd.skip
                                    /\ cmd.num = 0 \/ Rank(f) < cmd.skip + cmd.num}
          IN  /\ ScanOf(o) = n
              /\ cmd.skip = 0 /\ cmd.num = 0 => own \subseteq data
              /\ (\A f \in dir : f[1] = o[2] => f \in before) => data = asked

\* Hours from MJD 0 to a date after 2000-01-01 (MJD 51544), day by day.
Hours(p) ==
  24 * (51544 + 365 * (p[1] - 2000) + Cardinality({y \in 2000..(p[1] - 1) : IsLeap(y)})
        + Cardinality({md \in (1..12) \X (1..31) : md[1] < p[2] /\ md[2] <= DaysIn(p[1], md[1])})
        + p[3] - 1) + p[4]

Set(x) == x \in DOMAIN cmd.conf /\ cmd.conf[x] # Defaults[x]
NameOf(n) == IF Set("Name") THEN cmd.conf.Name
             ELSE IF n = NoScan THEN Defaults.Name ELSE [LineOf(n).target EXCEPT !.upper = TRUE]
Entries(name) ==
  IF cmd.catalog = NoFile \/ ~name.upper THEN {}
  ELSE {i \in DOMAIN cmd.catalog :
          /\ cmd.catalog[i].name.id = name.id
          /\ \A j \in 1..(i - 1) : cmd.catalog[j].name.id # name.id}
\* What cannot be read as an angle counts as none.
Angle(a) == IF a.form # "dms" THEN 0
            ELSE (10000 * a.deg + a.rest) * (IF a.neg THEN -1 ELSE 1)

\* The header of an output belongs to its own scan: each field is that of the
\* configuration, else of the scan file or of the name of the first file, else
\* of the catalogue.  (South of the equator by less than a degree see
\* DecAsInCatalogue.)
HeaderOfScan ==
  \A o \in made :
    LET n == ScanOf(o)  h == outs[o].header IN
    /\ h.source_name = NameOf(n)
    /\ h.tsamp = IF Set("SampleTime") THEN cmd.conf.SampleTime
                 ELSE IF n = NoScan THEN 0 ELSE 1024 * (LineOf(n).dt + 1)
    /\ h.tstart = IF Set("Start_MJD") /\ cmd.conf.Start_MJD > 0 THEN cmd.conf.Start_MJD
                  ELSE IF Len(o[2]) = 4 THEN Hours(o[2]) ELSE 0
    /\ h.rawdatafile[1] = o[2] /\ h.rawdatafile \in dir
    /\ \A i \in DOMAIN outs[o].data : h.rawdatafile[2] <= outs[o].data[i][2]
    /\ h.src_raj = IF Set("RA") THEN cmd.conf.RA
                   ELSE IF Entries(h.source_name) = {} THEN 0
                   ELSE Angle(cmd.catalog[CHOOSE i \in Entries(h.source_name) : TRUE].ra)
    /\ Set("Dec") => h.src_dej = cmd.conf.Dec
    /\ \A i \in Entries(h.source_name) :
         ~Set("Dec") /\ cmd.catalog[i].dec.deg # 0
           => h.src_dej = Angle(cmd.catalog[i].dec)

\* A declination is taken from the catalogue as it stands there; the catalogue
\* of the repository has "-00:46:05.8" (pulsars, line 222).
DecAsInCatalogue ==
  \A o \in made : \A i \in Entries(outs[o].header.source_name) :
    ~Set("Dec") => outs[o].header.src_dej = Angle(cmd.catalog[i].dec)

\* Within a run nothing touches the output of a scan that is done.
DoneStaysDone ==
  [][ \A o \in made :
        (pc # "files" \/ o # Output) => outs'[o] = outs[o] ]_vars

\* Every run comes to an end, or to monitor mode.
Ends == pc = "main" ~> pc \in Final
=============================================================================
