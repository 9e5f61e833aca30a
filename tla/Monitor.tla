------------------------------ MODULE Monitor ------------------------------
(***************************************************************************)
(* mkfb in monitor mode: MakeFilterbank::MonitorDirectory watches a        *)
(* directory into which a recorder writes .dada files, waits until the     *)
(* size of the next file has stopped changing, and appends the file to     *)
(* the filterbank files of its prefix.                                     *)
(*                                                                         *)
(* Three parties interleave: the recorder (external: it creates, extends   *)
(* and closes files), the clock (the monitor sleeps one second per loop    *)
(* iteration) and the monitor itself, which can be killed and started      *)
(* again with the same arguments.  Nothing the monitor knows survives it.  *)
(*                                                                         *)
(* A file name is a prefix and a sequence number; sizes are counted in     *)
(* blocks, of which the first HeaderBlocks are the DADA header and every   *)
(* SpecBlocks further ones are one spectrum of every filterbank.           *)
(***************************************************************************)
EXTENDS Integers, Sequences, FiniteSets

CONSTANTS
  Prefixes,     \* observation prefixes that may appear in the directory
  MaxFiles,     \* bound: files per prefix
  MaxSize,      \* bound: blocks of a file
  HeaderBlocks, \* blocks of the DADA header (512 * 8 bytes)
  SpecBlocks,   \* blocks of one spectrum of all filterbanks
  Wrap,         \* size_t arithmetic is modulo Wrap
  StablePolls,  \* polls without a change before a file is processed (5)
  MaxStall,     \* the recorder extends an open file at least this often (s)
  QuietCap,     \* bound: seconds of silence are counted up to this
  Faults,       \* what the environment may do beyond a tidy recorder
  MaxFaults,    \* bound: how many faults and restarts happen
  SkipArgs, NumArgs, PrefixArgs,  \* values of --skip, --num and the prefix
  NoFile, NoPrefix                \* the empty strings

Files == Prefixes \X (1..MaxFiles)

ASSUME MonitorAssumption ==
  /\ MaxFiles \in Nat /\ MaxSize \in Nat /\ MaxFaults \in Nat
  /\ HeaderBlocks \in Nat \ {0} /\ SpecBlocks \in Nat \ {0}
  /\ Wrap \in Nat /\ Wrap > MaxSize
  /\ StablePolls \in Nat \ {0} /\ MaxStall \in Nat /\ QuietCap \in Nat
  /\ "stall" \in Faults \/ MaxStall <= QuietCap
  /\ SkipArgs \subseteq Nat /\ NumArgs \subseteq Nat
  /\ NoFile \notin Files /\ NoPrefix \notin Prefixes
  /\ PrefixArgs \subseteq Prefixes \cup {NoPrefix}

VARIABLES
  \* the input directory and the recorder
  disk,      \* the .dada files present
  recorded,  \* every file the recorder has ever created
  closed,    \* the files the recorder will not extend any more
  size,      \* size of each file
  quiet,     \* seconds since an open file last changed, up to QuietCap
  faults,    \* faults and restarts so far
  \* the monitor
  args,      \* skip, num and prefix on the command line
  pc,        \* where the monitor is
  prefix, numSkipped, numActuallyProcessed, lastFileProcessed, numProcessed,
  monitoringFile, lastSize, numNoChange,
  inSize,    \* file size Do2ProcessDadaFile read when it opened the file
  fils,      \* prefix of the filterbank files that are open (mpFils)
  handled,   \* history: files this process has processed or skipped
  \* the filterbank files, one set per prefix
  rawdatafile, \* the file its header names, NoFile if there is none yet
  data         \* what was appended: a file and how many of its spectra

disks  == <<disk, recorded, closed, size, quiet>>
locals == <<prefix, numSkipped, numActuallyProcessed, lastFileProcessed,
            numProcessed, monitoringFile, lastSize, numNoChange, inSize,
            fils, handled>>
outs   == <<rawdatafile, data>>
vars   == <<disks, faults, args, pc, locals, outs>>

\* Whole spectra in a file of s blocks, and whether no part of one is left:
\* the subtraction of the header is done in size_t.
DataBlocks(s) == (s - HeaderBlocks) % Wrap
NumSpec(s)    == DataBlocks(s) \div SpecBlocks
Integral(s)   == NumSpec(s) * SpecBlocks = DataBlocks(s)

\* GetDadaFilesInDir: the files of a prefix, and the prefixes an empty filter
\* may stand for: that of whichever entry the directory iterator gives first.
InDir_AllButLast(p) == \* a slip: the listing stops before the last name
  {f \in disk : f[1] = p /\ \E g \in disk : g[1] = p /\ g[2] > f[2]}
InDir(p)   == {f \in disk : f[1] = p}
Filter(p)  == IF p # NoPrefix THEN {p}
              ELSE IF disk = {} THEN {NoPrefix} ELSE {f[1] : f \in disk}
After(f, g) == g = NoFile \/ f[2] > g[2]
\* the position of f in the sorted listing of its prefix, counted from 0
Index(f)   == Cardinality({g \in InDir(f[1]) : g[2] < f[2]})
\* the first file of the listing that comes after the last one processed
Newer(p)   == {f \in InDir(p) : After(f, lastFileProcessed)}
Next1(p)   == {f \in Newer(p) : \A g \in Newer(p) : f[2] <= g[2]}

-----------------------------------------------------------------------------
(* The recorder and whoever else touches the directory.                    *)

Fault == faults < MaxFaults /\ faults' = faults + 1

\* A file appears, empty.  A tidy recorder opens file n+1 after closing n.
Create(f) ==
  /\ f \notin recorded
  /\ \/ f[2] = 1 \/ <<f[1], f[2] - 1>> \in closed
     \/ "late" \in Faults
  /\ disk' = disk \cup {f} /\ recorded' = recorded \cup {f}
  /\ size' = [size EXCEPT ![f] = 0] /\ quiet' = [quiet EXCEPT ![f] = 0]
  /\ UNCHANGED <<closed, faults, args, pc, locals, outs>>

Extend(f) ==
  /\ f \in disk \ closed /\ size[f] < MaxSize
  /\ size' = [size EXCEPT ![f] = @ + 1] /\ quiet' = [quiet EXCEPT ![f] = 0]
  /\ UNCHANGED <<disk, recorded, closed, faults, args, pc, locals, outs>>

Close(f) ==
  /\ f \in disk \ closed /\ size[f] >= HeaderBlocks /\ Integral(size[f])
  /\ closed' = closed \cup {f} /\ quiet' = [quiet EXCEPT ![f] = 0]
  /\ UNCHANGED <<disk, recorded, size, faults, args, pc, locals, outs>>

\* Someone removes a file: any file, or only one already in the output.
Remove(f) ==
  /\ \/ "remove" \in Faults
     \/ "cleanup" \in Faults /\ f \in handled /\ f \in closed
  /\ f \in disk /\ Fault
  /\ disk' = disk \ {f}
  /\ UNCHANGED <<recorded, closed, size, quiet, args, pc, locals, outs>>

Truncate(f) ==
  /\ "truncate" \in Faults /\ f \in disk /\ size[f] > 0 /\ Fault
  /\ size' = [size EXCEPT ![f] = @ - 1] /\ quiet' = [quiet EXCEPT ![f] = 0]
  /\ UNCHANGED <<disk, recorded, closed, args, pc, locals, outs>>

\* One second passes.  An open file never stalls longer than MaxStall.  The
\* monitor may oversleep, so several seconds may pass between two polls.
Tick ==
  /\ "stall" \in Faults \/ \A f \in disk \ closed : quiet[f] < MaxStall
  /\ quiet' = [f \in Files |->
       IF f \in disk \ closed /\ quiet[f] < QuietCap
       THEN quiet[f] + 1 ELSE quiet[f]]
  /\ pc' = IF pc = "sleep" THEN "poll" ELSE pc
  /\ UNCHANGED <<disk, recorded, closed, size, faults, args, locals, outs>>

-----------------------------------------------------------------------------
(* MonitorDirectory.                                                       *)

\* The listing before the loop settles the prefix if any file is there.
Start ==
  /\ pc = "start"
  /\ \E p \in Filter(args.prefix) : prefix' = p
  /\ pc' = "poll"
  /\ UNCHANGED <<disks, faults, args, numSkipped, numActuallyProcessed,
       lastFileProcessed, numProcessed, monitoringFile, lastSize, numNoChange,
       inSize, fils, handled, outs>>

Looking == pc = "poll" /\ monitoringFile = NoFile

\* No more files than have been processed: look again in a second.
NothingNew ==
  /\ Looking
  /\ \E p \in Filter(prefix) : Cardinality(InDir(p)) <= numProcessed
  /\ pc' = "sleep"
  /\ UNCHANGED <<disks, faults, args, locals, outs>>

\* The next file in order becomes the monitored one; the loop continues
\* without sleeping.
Pick_AnyIndex == \* a slip: the index of the file is not compared
  /\ Looking
  /\ \E p \in Filter(prefix) :
       /\ Cardinality(InDir(p)) > numProcessed
       /\ \E f \in Next1(p) : monitoringFile' = f
  /\ numNoChange' = 0
  /\ UNCHANGED <<disks, faults, args, pc, prefix, numSkipped,
       numActuallyProcessed, lastFileProcessed, numProcessed, lastSize,
       inSize, fils, handled, outs>>

Pick ==
  /\ Looking
  /\ \E p \in Filter(prefix) :
       /\ Cardinality(InDir(p)) > numProcessed
       /\ \E f \in Next1(p) : Index(f) = numProcessed /\ monitoringFile' = f
  /\ numNoChange' = 0
  /\ UNCHANGED <<disks, faults, args, pc, prefix, numSkipped,
       numActuallyProcessed, lastFileProcessed, numProcessed, lastSize,
       inSize, fils, handled, outs>>

\* More files than processed, but none sorts next: the monitor throws.
PickThrows ==
  /\ Looking
  /\ \E p \in Filter(prefix) :
       /\ Cardinality(InDir(p)) > numProcessed
       /\ \A f \in Next1(p) : Index(f) # numProcessed
  /\ pc' = "failed"
  /\ UNCHANGED <<disks, faults, args, locals, outs>>

\* A slip: the count of unchanged polls may pass its limit.
Waiting_Past == pc = "poll" /\ monitoringFile # NoFile
Waiting == pc = "poll" /\ monitoringFile # NoFile /\ numNoChange # StablePolls

SizeSame ==
  /\ Waiting /\ monitoringFile \in disk /\ size[monitoringFile] = lastSize
  /\ numNoChange' = numNoChange + 1 /\ pc' = "sleep"
  /\ UNCHANGED <<disks, faults, args, prefix, numSkipped,
       numActuallyProcessed, lastFileProcessed, numProcessed, monitoringFile,
       lastSize, inSize, fils, handled, outs>>

SizeGrown_NoReset == \* a slip: growth does not restart the count
  /\ Waiting /\ monitoringFile \in disk /\ size[monitoringFile] > lastSize
  /\ lastSize' = size[monitoringFile] /\ pc' = "sleep"
  /\ UNCHANGED <<disks, faults, args, prefix, numSkipped,
       numActuallyProcessed, lastFileProcessed, numProcessed, monitoringFile,
       numNoChange, inSize, fils, handled, outs>>

SizeGrown ==
  /\ Waiting /\ monitoringFile \in disk /\ size[monitoringFile] > lastSize
  /\ numNoChange' = 0 /\ lastSize' = size[monitoringFile] /\ pc' = "sleep"
  /\ UNCHANGED <<disks, faults, args, prefix, numSkipped,
       numActuallyProcessed, lastFileProcessed, numProcessed, monitoringFile,
       inSize, fils, handled, outs>>

\* A file that shrank, or went away, ends the monitor.
SizeThrows ==
  /\ Waiting
  /\ monitoringFile \notin disk \/ size[monitoringFile] < lastSize
  /\ pc' = "failed"
  /\ UNCHANGED <<disks, faults, args, locals, outs>>

Stable == pc = "poll" /\ monitoringFile # NoFile /\ numNoChange = StablePolls

\* For the first file: settle the prefix and create (truncating) the
\* filterbank files, whose header names this file even if it is skipped.
MakeSigProcFiles_Append(f) == \* a slip: an existing output is kept
  IF lastFileProcessed # NoFile
  THEN UNCHANGED <<prefix, fils, outs>>
  ELSE LET p == IF prefix = NoPrefix THEN f[1] ELSE prefix IN
       /\ prefix' = p /\ fils' = p
       /\ rawdatafile' = [rawdatafile EXCEPT ![p] = f]
       /\ UNCHANGED data

MakeSigProcFiles_EachFile(f) == \* a slip: made anew for every file
  LET p == IF prefix = NoPrefix THEN f[1] ELSE prefix IN
  /\ prefix' = p /\ fils' = p
  /\ rawdatafile' = [rawdatafile EXCEPT ![p] = f]
  /\ data' = [data EXCEPT ![p] = <<>>]

MakeSigProcFiles(f) ==
  IF lastFileProcessed # NoFile
  THEN UNCHANGED <<prefix, fils, outs>>
  ELSE LET p == IF prefix = NoPrefix THEN f[1] ELSE prefix IN
       /\ prefix' = p /\ fils' = p
       /\ rawdatafile' = [rawdatafile EXCEPT ![p] = f]
       /\ data' = [data EXCEPT ![p] = <<>>]

\* What follows a processed or skipped file.
Advance_SizeKept(processed, skipped) == \* a slip: lastSize is not reset
  /\ lastFileProcessed' = monitoringFile
  /\ numProcessed' = numProcessed + 1 /\ monitoringFile' = NoFile
  /\ numNoChange' = 0 /\ lastSize' = lastSize
  /\ numActuallyProcessed' = processed /\ numSkipped' = skipped
  /\ pc' = IF args.num > 0 /\ processed >= args.num THEN "exited" ELSE "sleep"
  /\ handled' = handled \cup {monitoringFile}

Advance_OneMore(processed, skipped) == \* a slip: stops one file late
  /\ lastFileProcessed' = monitoringFile
  /\ numProcessed' = numProcessed + 1 /\ monitoringFile' = NoFile
  /\ numNoChange' = 0 /\ lastSize' = 0
  /\ numActuallyProcessed' = processed /\ numSkipped' = skipped
  /\ pc' = IF args.num > 0 /\ processed > args.num THEN "exited" ELSE "sleep"
  /\ handled' = handled \cup {monitoringFile}

Advance(processed, skipped) ==
  /\ lastFileProcessed' = monitoringFile
  /\ numProcessed' = numProcessed + 1 /\ monitoringFile' = NoFile
  /\ numNoChange' = 0 /\ lastSize' = 0
  /\ numActuallyProcessed' = processed /\ numSkipped' = skipped
  /\ pc' = IF args.num > 0 /\ processed >= args.num THEN "exited" ELSE "sleep"
  /\ handled' = handled \cup {monitoringFile}

SkipFile_OneMore == \* a slip: skips one file too many
  /\ Stable /\ numSkipped <= args.skip
  /\ MakeSigProcFiles(monitoringFile)
  /\ Advance(numActuallyProcessed, numSkipped + 1)
  /\ UNCHANGED <<disks, faults, args, inSize>>

SkipFile ==
  /\ Stable /\ numSkipped < args.skip
  /\ MakeSigProcFiles(monitoringFile)
  /\ Advance(numActuallyProcessed, numSkipped + 1)
  /\ UNCHANGED <<disks, faults, args, inSize>>

\* DoProcessDadaFile opens the file and takes its size.
OpenFile ==
  /\ Stable /\ numSkipped >= args.skip
  /\ monitoringFile \in disk /\ Integral(size[monitoringFile])
  /\ MakeSigProcFiles(monitoringFile)
  /\ inSize' = size[monitoringFile] /\ pc' = "reading"
  /\ UNCHANGED <<disks, faults, args, numSkipped, numActuallyProcessed,
       lastFileProcessed, numProcessed, monitoringFile, lastSize, numNoChange,
       handled>>

\* It cannot be opened or holds a part of a spectrum: DoProcessDadaFile throws.
OpenThrows ==
  /\ Stable /\ numSkipped >= args.skip
  /\ monitoringFile \notin disk \/ ~Integral(size[monitoringFile])
  /\ MakeSigProcFiles(monitoringFile)
  /\ pc' = "failed"
  /\ UNCHANGED <<disks, faults, args, numSkipped, numActuallyProcessed,
       lastFileProcessed, numProcessed, monitoringFile, lastSize, numNoChange,
       inSize, handled>>

Append1(n) ==
  data' = [data EXCEPT ![fils] =
             Append(@, [file |-> monitoringFile, num |-> n])]

\* Every spectrum has been written and flushed.
FinishFile ==
  /\ pc = "reading"
  /\ Append1(NumSpec(inSize))
  /\ Advance(numActuallyProcessed + 1, numSkipped)
  /\ UNCHANGED <<disks, faults, args, prefix, inSize, fils, rawdatafile>>

-----------------------------------------------------------------------------
(* The process dies, by a signal or an exception out of a write, possibly   *)
(* with a part of the file written; and it is started again.               *)

Alive == pc \in {"start", "poll", "sleep", "reading"}

Crash ==
  /\ "crash" \in Faults /\ Alive /\ Fault
  /\ pc' = "down" /\ fils' = NoPrefix
  /\ \/ UNCHANGED data
     \/ /\ pc = "reading"
        /\ \E n \in 1..NumSpec(inSize) : Append1(n)
  /\ UNCHANGED <<disks, args, prefix, numSkipped, numActuallyProcessed,
       lastFileProcessed, numProcessed, monitoringFile, lastSize, numNoChange,
       inSize, handled, rawdatafile>>

\* A monitor that gave up is started again only if someone looks after it.
Restart ==
  /\ \/ pc = "down" /\ UNCHANGED faults
     \/ pc = "failed" /\ "crash" \in Faults /\ Fault
  /\ pc' = "start" /\ prefix' = NoPrefix
  /\ numSkipped' = 0 /\ numActuallyProcessed' = 0 /\ numProcessed' = 0
  /\ lastFileProcessed' = NoFile /\ monitoringFile' = NoFile
  /\ lastSize' = 0 /\ numNoChange' = 0
  /\ inSize' = 0 /\ fils' = NoPrefix /\ handled' = {}
  /\ UNCHANGED <<disks, args, outs>>

-----------------------------------------------------------------------------
Init ==
  /\ disk = {} /\ recorded = {} /\ closed = {}
  /\ size = [f \in Files |-> 0] /\ quiet = [f \in Files |-> 0]
  /\ faults = 0
  /\ args \in [skip : SkipArgs, num : NumArgs, prefix : PrefixArgs]
  /\ pc = "start" /\ prefix = NoPrefix
  /\ numSkipped = 0 /\ numActuallyProcessed = 0 /\ numProcessed = 0
  /\ lastFileProcessed = NoFile /\ monitoringFile = NoFile
  /\ lastSize = 0 /\ numNoChange = 0
  /\ inSize = 0 /\ fils = NoPrefix /\ handled = {}
  /\ rawdatafile = [p \in Prefixes |-> NoFile]
  /\ data = [p \in Prefixes |-> <<>>]

Writes(f)  == Extend(f) \/ Close(f)
Recorder   == \E f \in Files : Create(f) \/ Writes(f)
Intruder   == \E f \in Files : Remove(f) \/ Truncate(f)
Monitoring ==
  \/ Start \/ NothingNew \/ Pick \/ PickThrows
  \/ SizeSame \/ SizeGrown \/ SizeThrows
  \/ SkipFile \/ OpenFile \/ OpenThrows \/ FinishFile

Next == Recorder \/ Intruder \/ Tick \/ Monitoring \/ Crash \/ Restart

(* The monitor is a running process, seconds pass, and an open file is      *)
(* written to and closed in the end; a process that died is started again. *)
Fairness ==
  /\ WF_vars(Monitoring) /\ WF_vars(Tick) /\ WF_vars(Restart)
  /\ \A f \in Files : WF_vars(Writes(f))

Spec == Init /\ [][Next]_vars /\ Fairness

-----------------------------------------------------------------------------
(* Properties.                                                             *)

Chunks == [file : Files, num : Nat]

DiskType ==
  /\ disk \subseteq Files /\ recorded \subseteq Files /\ closed \subseteq Files
  /\ size \in [Files -> 0..MaxSize] /\ quiet \in [Files -> 0..QuietCap]
  /\ faults \in 0..MaxFaults

LocalsType ==
  /\ args \in [skip : SkipArgs, num : NumArgs, prefix : PrefixArgs]
  /\ pc \in {"start", "poll", "sleep", "reading", "exited", "failed", "down"}
  /\ numSkipped \in Nat /\ numActuallyProcessed \in Nat /\ numProcessed \in Nat
  /\ lastFileProcessed \in Files \cup {NoFile}
  /\ monitoringFile \in Files \cup {NoFile}
  /\ lastSize \in 0..MaxSize /\ inSize \in 0..MaxSize
  /\ numNoChange \in 0..StablePolls
  /\ handled \subseteq Files

OutsType ==
  /\ prefix \in Prefixes \cup {NoPrefix} /\ fils \in Prefixes \cup {NoPrefix}
  /\ rawdatafile \in [Prefixes -> Files \cup {NoFile}]
  /\ data \in [Prefixes -> Seq(Chunks)]

\* The type invariant.
TypeOK == DiskType /\ LocalsType /\ OutsType

\* A tidy recorder: files appear in order, nobody touches them, and an open
\* file never stalls so long that it can seem stable.  The margin is one poll
\* more than one would think: a file that is still empty when it is picked
\* counts as unchanged from the first poll (lastSize starts at 0).
Tidy == Faults \subseteq {"crash"} /\ MaxStall + 1 < StablePolls

\* With a tidy recorder, everything in a filterbank file is a whole recorded
\* file: the heuristic of lines 277-326 (no change for five polls) never takes
\* a file that is still being written.  Only the last chunk may be short, and
\* only in the output of a process that died.
WholeFiles ==
  \A p \in Prefixes : \A i \in DOMAIN data[p] :
    LET c == data[p][i] IN
    /\ c.file \in closed
    /\ \/ c.num = NumSpec(size[c.file])
       \/ i = Len(data[p]) /\ fils # p /\ c.num < NumSpec(size[c.file])

\* With a tidy recorder the spectra of a filterbank file are contiguous in
\* time: the i-th file appended is the i-th after the skipped ones, counted
\* from the file the header names, across restarts and truncations.
Contiguous ==
  \A p \in Prefixes : \A i \in DOMAIN data[p] :
    /\ rawdatafile[p] = <<p, 1>>
    /\ data[p][i].file = <<p, args.skip + i>>

\* With a tidy recorder no throw of MonitorDirectory or of the opening of a
\* file is ever reached: not the index check (lines 255-258), not the
\* non-increasing names (271), not a shrunk or missing file, not a file with
\* part of a spectrum.
NeverThrows == pc # "failed"

\* Whatever the directory does, the files in the output come in the order of
\* their names, belong to its prefix and none is there twice.
InOrder ==
  \A p \in Prefixes : \A i, j \in DOMAIN data[p] :
    /\ data[p][i].file[1] = p
    /\ i < j => data[p][i].file[2] < data[p][j].file[2]

\* When the monitor stops by itself (line 307-310) the output holds exactly
\* the requested number of files, and what the process handled is these and
\* the skipped ones.
ExitsWithRequested ==
  pc = "exited" =>
    /\ Len(data[fils]) = args.num
    /\ Cardinality(handled) = args.skip + args.num
    /\ {data[fils][i].file : i \in DOMAIN data[fils]} =
         {f \in handled : Cardinality({g \in handled : g[2] < f[2]}) >= args.skip}

\* As long as nothing has been removed, a file is picked only when every file below it
\* in the directory has been processed or skipped: counting the files (lines
\* 251-258) is enough to notice one that arrived late.
PickSkipsNothing ==
  [][Pick /\ disk = recorded =>
        {g \in disk : g[1] = monitoringFile'[1]
                     /\ g[2] < monitoringFile'[2]} = handled]_vars

\* Every closed file of the monitored prefix is in the end processed or
\* skipped, unless the monitor has processed as many as it was asked for.
EveryFileHandled ==
  <>[](\/ pc = "exited"
       \/ prefix = NoPrefix /\ closed = {}
       \/ prefix # NoPrefix /\ \A f \in closed : f[1] = prefix => f \in handled)

\* The filterbank files keep the promise of module Archive: emptied at most
\* once per process, before anything is added, and growing in file order.
FilesOf(chunks) == [i \in DOMAIN chunks |-> chunks[i].file]

A == INSTANCE Archive WITH
       open <- fils, header <- rawdatafile,
       content <- [p \in Prefixes |-> FilesOf(data[p])]

ArchiveSpec == A!Spec

\* "monitor input directory and process dada files as they appear until
\* terminated" (exec/mkfb.cpp lines 63-64).
ProcessedAsTheyAppear ==
  \A f \in Files : (f \in closed /\ f[1] = prefix) ~> (f \in handled \/ ~Alive)
=============================================================================
