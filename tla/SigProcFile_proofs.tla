------------------------- MODULE SigProcFile_proofs -------------------------
(***************************************************************************)
(* What holds of a filterbank file whoever has it open, whatever program it *)
(* is from and wherever mkfb is killed and started again.                   *)
(*                                                                         *)
(* The data survive an edit because a header never gets shorter than the    *)
(* one that the editor has compared (Compared): mkfb, which may truncate    *)
(* the file between the comparison and the write, writes the same length.   *)
(*                                                                         *)
(* The number of samples settled at the open holds as a file of one run     *)
(* only grows (Lengths); what a reader has is what the file has at these     *)
(* places (SoFar); and the check of the length cannot fail on a file of      *)
(* mkfb, whose header tells of no more than is there (Kept, Seen, Excused).  *)
(***************************************************************************)
EXTENDS SigProcFile, Batches_proofs, TLAPS

SigProcs == [ro : BOOLEAN, hdr : Headers \cup {NoHeader}, run : Nat, size : Int]

Typed ==
  /\ job \in Scenarios
  /\ file \in Files \cup {NoFile}
  /\ wpc \in {"new", "created", "writing", "closed", "dead"}
  /\ pc \in [Procs -> {"absent", "open", "header", "size", "use", "write", "done", "failed"}]
  /\ why \in [Procs -> {"", "open", "header", "errno", "size", "read", "differs", "write"}]
  /\ errno \in [Procs -> BOOLEAN]
  /\ opened \in [Procs -> Seq(SigProcs)]
  /\ i \in Nat /\ b \in Nat /\ t \in Nat

\* How far process p is with its SigProcs: the last one may lack its header.
StageOf(p) ==
  /\ Len(opened[p]) <= Needed(p)
  /\ pc[p] = "open" => Len(opened[p]) < Needed(p)
  /\ pc[p] \in {"header", "size"} => Len(opened[p]) > 0
  /\ pc[p] \in {"use", "write", "done"} => Len(opened[p]) = Needed(p)
  /\ \A j \in 1..Len(opened[p]) :
       opened[p][j].hdr = NoHeader => j = Len(opened[p]) /\ pc[p] \in {"header", "failed"}
  /\ pc[p] \notin {"absent", "open", "failed"} => file # NoFile
  /\ pc[p] = "write" => p = "editor"

Stages ==
  /\ \A p \in Procs : StageOf(p)
  /\ wpc \in {"created", "writing"} => file # NoFile

\* Once the editor has found a header of our own length in the file, there is
\* no other in it.
OwnLength(h) == h # NoHeader => h.len = HeaderLen
Compared ==
  /\ Len(opened["editor"]) = 2 /\ InFile.hdr # NoHeader /\ InFile.hdr.len = HeaderLen
       => file # NoFile /\ OwnLength(file.hdr)
  /\ pc["editor"] = "write" => InFile.hdr # NoHeader /\ InFile.hdr.len = HeaderLen

Inv == Typed /\ Stages /\ Compared /\ DataIntact

-----------------------------------------------------------------------------
(* Headers.                                                                *)

LEMMA UnderstoodHeader ==
  ASSUME NEW h \in Headers
  PROVE  Understood(h) \in Headers /\ Understood(h).len = h.len
<1> DEFINE g == [h EXCEPT !.nchans = IF h.type = 2 THEN 1 ELSE @]
<1>1. g \in Headers /\ g.len = h.len /\ g.nsamples = h.nsamples
  BY DEF Headers
<1>2. Understood(h) = [g EXCEPT !.nsamples = IF @ = 0 THEN -1 ELSE @]
  BY <1>1 DEF Understood
<1> HIDE DEF g
<1>3. (IF g.nsamples = 0 THEN -1 ELSE g.nsamples) \in Int
  BY <1>1 DEF Headers
<1> QED BY <1>1, <1>2, <1>3 DEF Headers

LEMMA PerSampleNat == ASSUME NEW h \in Headers PROVE PerSample(h) \in Nat \ {0}
<1>1. h.nifs \in Nat \ {0} /\ h.nchans \in Nat \ {0}
  BY DEF Headers
<1> QED BY <1>1 DEF PerSample

LEMMA AsIntInt == ASSUME NEW x \in Int PROVE AsInt(x) \in Int
<1>1. x % IntWrap \in Int
  BY SigProcFileAssumption
<1> QED BY <1>1, SigProcFileAssumption DEF AsInt

LEMMA WithSamplesHeader ==
  ASSUME NEW h \in Headers, NEW size \in Int
  PROVE  WithSamples(h, size) \in Headers /\ WithSamples(h, size).len = h.len
<1>1. (size - h.len) % SizeWrap \in Int
  <2>1. size - h.len \in Int
    BY DEF Headers
  <2> QED BY <2>1, SigProcFileAssumption
<1>2. ((size - h.len) % SizeWrap) \div PerSample(h) \in Int
  BY <1>1, PerSampleNat
<1>3. AsInt(((size - h.len) % SizeWrap) \div PerSample(h)) \in Int
  BY <1>2, AsIntInt
<1> QED BY <1>3 DEF WithSamples, Headers

LEMMA SizeInt == ASSUME NEW x \in Files PROVE SizeOf(x) \in Int
<1>1. x.hdr \in Headers \cup {NoHeader} /\ x.data \in Seq(Values)
  BY DEF Files
<1> QED BY <1>1 DEF SizeOf, Headers

-----------------------------------------------------------------------------
(* The initial states and the steps.                                       *)

LEMMA EmptySeq == ASSUME NEW S PROVE <<>> \in Seq(S)
OBVIOUS

LEMMA InitInv == Init => Inv
<1> SUFFICES ASSUME Init PROVE Inv
  OBVIOUS
<1>1. job \in Scenarios /\ file = job.file
  BY DEF Init
<1>2. file # NoFile =>
        file \in Files /\ \A o \in DOMAIN file.data : file.data[o] = <<file.run, o - 1>>
  BY <1>1, ScenariosAssumption
<1>3. \A p \in Procs : Len(opened[p]) = 0 /\ pc[p] \in {"absent", "open"}
  BY DEF Init
<1>4. Typed
  <2>1. why \in [Procs -> {""}] /\ errno \in [Procs -> BOOLEAN]
    BY DEF Init
  <2>2. opened \in [Procs -> Seq(SigProcs)]
    BY EmptySeq, Zenon DEF Init
  <2>3. pc \in [Procs -> {"absent", "open"}]
    BY DEF Init
  <2> QED BY <1>1, <1>2, <2>1, <2>2, <2>3 DEF Init, Typed
<1>5. Stages
  <2>1. ASSUME NEW p \in Procs PROVE StageOf(p)
    <3>1. Len(opened[p]) = 0 /\ pc[p] \in {"absent", "open"} /\ Needed(p) \in {1, 2}
      BY <1>3 DEF Needed
    <3>2. \A j \in 1..Len(opened[p]) : FALSE
      BY <3>1
    <3> QED BY <3>1, <3>2 DEF StageOf
  <2> QED BY <2>1 DEF Init, Stages
<1>6. Compared
  <2>1. Len(opened["editor"]) = 0 /\ pc["editor"] \in {"absent", "open"}
    BY <1>3 DEF Procs
  <2> QED BY <2>1 DEF Compared
<1> QED BY <1>2, <1>4, <1>5, <1>6 DEF Inv, DataIntact

\* A step of mkfb leaves the SigProcs alone, and a header it writes has the
\* length of our own.
LEMMA WriterInv == ASSUME Inv, Writer PROVE Inv'
<1> USE DEF Inv
<1>1. /\ UNCHANGED <<job, pc, why, errno, opened, loop>>
      /\ wpc' \in {"new", "created", "writing", "closed", "dead"}
  BY DEF Writer, Truncate, WriteHeader, WriteValue, CloseFile, WriterDies, Typed
<1>2. job.nchans \in Nat \ {0} /\ HeaderLen \in Nat
  BY ScenariosAssumption, SigProcFileAssumption DEF Typed
<1>3. ASSUME file' \in Files, file'.hdr = NoHeader \/ file'.hdr.len = HeaderLen
             \/ (file \in Files /\ file'.hdr = file.hdr),
             \A o \in DOMAIN file'.data : file'.data[o] = <<file'.run, o - 1>>
      PROVE  Inv'
  <2>1. Typed'
    BY <1>1, <1>3 DEF Typed, loop
  <2>2. Stages'
    <3>1. file' # NoFile /\ UNCHANGED <<pc, opened>>
      BY <1>1, <1>3, NamesDiffer
    <3>2. ASSUME NEW p \in Procs PROVE StageOf(p)'
      BY <3>1 DEF Stages, StageOf, Needed
    <3> QED BY <3>1, <3>2 DEF Stages
  <2>3. Compared'
    BY <1>1, <1>3, NamesDiffer DEF Compared, OwnLength, InFile
  <2> QED BY <1>3, <2>1, <2>2, <2>3 DEF DataIntact
<1>4. CASE Truncate
  <2>1. LastRun \in Nat /\ LastRun + 1 \in 1..(MaxRuns + 1)
    <3>1. file # NoFile => file.run \in 1..(MaxRuns + 1)
      BY DEF Typed, Files
    <3>2. LastRun \in Nat /\ LastRun < MaxRuns
      BY <1>4, <3>1, SigProcFileAssumption DEF Truncate, LastRun
    <3> QED BY <3>2, SigProcFileAssumption
  <2>2. file' \in Files /\ file'.hdr = NoHeader /\ file'.data = <<>>
    BY <1>4, <2>1 DEF Truncate, Files
  <2> QED BY <1>3, <2>2
<1>5. CASE WriteHeader
  <2>1. file \in Files
    BY <1>5 DEF WriteHeader, Typed, Stages
  <2>2. WriterHeader \in Headers /\ WriterHeader.len = HeaderLen
    <3>1. file.run \in Nat
      BY <2>1 DEF Files
    <3>2. job.nchans \in Nat \ {0} /\ HeaderLen \in Nat
      BY <1>2
    <3> QED BY <3>1, <3>2 DEF WriterHeader, Headers
  <2>3. file' = [file EXCEPT !.hdr = WriterHeader]
    BY <1>5 DEF WriteHeader
  <2>4. /\ file' \in Files /\ file'.hdr = WriterHeader
        /\ file'.data = file.data /\ file'.run = file.run
    BY <2>1, <2>2, <2>3 DEF Files
  <2> QED BY <1>3, <2>1, <2>2, <2>4, NamesDiffer DEF DataIntact
<1>6. CASE WriteValue
  <2> DEFINE v == <<file.run, Len(file.data)>>
  <2>1. file \in Files
    BY <1>6 DEF WriteValue, Typed, Stages
  <2>2. file.data \in Seq(Values) /\ file.run \in Nat /\ v \in Values
    <3>1. file.data \in Seq(Values) /\ file.run \in Nat
      BY <2>1 DEF Files
    <3>2. Len(file.data) \in Nat
      BY <3>1
    <3> QED BY <3>1, <3>2 DEF Values
  <2>3. /\ file' \in Files /\ file'.hdr = file.hdr /\ file'.run = file.run
        /\ file'.data = Append(file.data, v)
    <3>1. Append(file.data, v) \in Seq(Values)
      BY <2>2
    <3>2. file' = [file EXCEPT !.data = Append(file.data, v)]
      BY <1>6 DEF WriteValue
    <3> HIDE DEF v
    <3> QED BY <2>1, <3>1, <3>2 DEF Files
  <2>4. ASSUME NEW o \in DOMAIN file'.data
        PROVE  file'.data[o] = <<file'.run, o - 1>>
    <3> HIDE DEF v
    <3>1. CASE o \in 1..Len(file.data)
      <4>1. file'.data[o] = file.data[o] /\ o \in DOMAIN file.data
        BY <2>1, <2>2, <2>3, <3>1
      <4> QED BY <2>1, <2>3, <4>1, NamesDiffer DEF DataIntact
    <3>2. CASE o = Len(file.data) + 1
      <4>1. file'.data[o] = v /\ o - 1 = Len(file.data)
        BY <2>1, <2>2, <2>3, <3>2
      <4> QED BY <2>3, <4>1 DEF v
    <3> QED BY <2>1, <2>2, <2>3, <3>1, <3>2
  <2> QED BY <1>3, <2>1, <2>3, <2>4
<1>7. CASE CloseFile \/ WriterDies
  <2>1. UNCHANGED file /\ wpc' \in {"closed", "dead"}
    BY <1>7 DEF CloseFile, WriterDies
  <2> QED
    BY <1>1, <2>1 DEF Typed, Stages, StageOf, Needed, Compared, OwnLength, InFile, DataIntact, loop
<1> QED BY <1>4, <1>5, <1>6, <1>7 DEF Writer

\* A step of a process that leaves the file alone need only be looked at for
\* its own SigProcs.
LEMMA OwnStep ==
  ASSUME Inv, NEW p \in Procs, UNCHANGED <<job, file, wpc>>,
         Typed', \A q \in Procs \ {p} : pc'[q] = pc[q] /\ opened'[q] = opened[q],
         StageOf(p)',
         p = "editor" => Compared'
  PROVE  Inv'
<1>1. Stages'
  BY DEF Inv, Stages, StageOf, Needed
<1>2. Compared'
  BY DEF Inv, Compared, OwnLength, InFile, Procs
<1> QED BY <1>1, <1>2 DEF Inv, DataIntact

\* A failure is the end of a process.
LEMMA FailInv ==
  ASSUME Inv, NEW p \in Procs, UNCHANGED <<job, file, wpc>>,
         NEW reason \in {"open", "header", "errno", "size", "read", "differs", "write"},
         Fail(p, reason), i' \in Nat, b' \in Nat, t' \in Nat
  PROVE  Inv'
<1>1. Typed'
  BY DEF Fail, Inv, Typed
<1>2. StageOf(p)'
  BY DEF Fail, Inv, Typed, Stages, StageOf, Needed
<1>3. Compared'
  <2>1. /\ UNCHANGED <<opened, file>> /\ "editor" \in Procs
        /\ pc'["editor"] \in {pc["editor"], "failed"}
    BY DEF Fail, Inv, Typed, Procs
  <2>2. UNCHANGED InFile
    BY <2>1 DEF InFile
  <2> QED BY <2>1, <2>2 DEF Inv, Compared, OwnLength
<1>4. \A q \in Procs \ {p} : pc'[q] = pc[q] /\ opened'[q] = opened[q]
  BY DEF Fail, Inv, Typed
<1> QED BY <1>1, <1>2, <1>3, <1>4, OwnStep

LEMMA OpenedOf ==
  ASSUME Inv, NEW p \in Procs
  PROVE  /\ opened[p] \in Seq(SigProcs) /\ Len(opened[p]) \in Nat
         /\ StageOf(p) /\ Needed(p) \in {1, 2}
<1>1. opened[p] \in Seq(SigProcs)
  BY DEF Inv, Typed
<1>2. Len(opened[p]) \in Nat
  BY <1>1
<1>3. StageOf(p)
  BY DEF Inv, Stages
<1> QED BY <1>1, <1>2, <1>3 DEF Needed

\* Opening begins with a SigProc without a header.
LEMMA OpenFileInv == ASSUME Inv, NEW p \in Procs, OpenFile(p) PROVE Inv'
<1>1. CASE file = NoFile
  BY <1>1, FailInv DEF OpenFile, Inv, Typed, loop
<1>2. CASE file # NoFile
  <2> DEFINE x == [ro |-> ~job.writable, hdr |-> NoHeader, run |-> 0, size |-> 0]
             n == Len(opened[p])
  <2>1. /\ pc[p] = "open" /\ pc' = [pc EXCEPT ![p] = "header"]
        /\ errno' = [errno EXCEPT ![p] = FALSE]
        /\ opened' = [opened EXCEPT ![p] = Append(opened[p], x)]
        /\ UNCHANGED <<job, file, wpc, why, loop>>
    BY <1>2 DEF OpenFile
  <2>2. opened[p] \in Seq(SigProcs) /\ n \in Nat /\ n < Needed(p)
    BY <2>1, OpenedOf DEF StageOf
  <2>3. x \in SigProcs
    <3>1. (~job.writable) \in BOOLEAN
      OBVIOUS
    <3> QED BY <3>1 DEF SigProcs
  <2> HIDE DEF x
  <2>4. /\ opened'[p] = Append(opened[p], x) /\ opened'[p] \in Seq(SigProcs)
        /\ Len(opened'[p]) = n + 1 /\ pc'[p] = "header"
    <3>1. opened'[p] = Append(opened[p], x) /\ pc'[p] = "header"
      BY <2>1 DEF Inv, Typed
    <3> QED BY <2>2, <2>3, <3>1
  <2>5. \A j \in 1..n : opened'[p][j] = opened[p][j]
    BY <2>2, <2>3, <2>4
  <2>6. opened'[p][n + 1].hdr = NoHeader
    BY <2>2, <2>3, <2>4 DEF x
  <2> HIDE DEF n
  <2>7. Typed'
    BY <2>1, <2>4 DEF Inv, Typed, loop
  <2>8. StageOf(p)'
    <3>1. \A j \in 1..n : opened[p][j].hdr # NoHeader
      BY <2>1 DEF Inv, Stages, StageOf, n
    <3>2. Needed(p)' = Needed(p) /\ Needed(p) \in Nat
      BY DEF Needed
    <3>3. n + 1 <= Needed(p) /\ n + 1 > 0
      BY <2>2, <3>2
    <3>4. \A j \in 1..(n + 1) : opened'[p][j].hdr = NoHeader => j = n + 1
      BY <2>2, <2>5, <3>1
    <3> QED BY <1>2, <2>1, <2>4, <3>2, <3>3, <3>4 DEF StageOf
  <2>9. ASSUME p = "editor" PROVE Compared'
    <3>1. ASSUME n + 1 = 2 PROVE opened'["editor"][2].hdr = NoHeader
      BY <2>6, <2>9, <3>1
    <3> QED BY <2>2, <2>4, <2>9, <3>1 DEF Compared, InFile
  <2>10. \A q \in Procs \ {p} : pc'[q] = pc[q] /\ opened'[q] = opened[q]
    BY <2>1 DEF Inv, Typed
  <2> QED BY <2>1, <2>7, <2>8, <2>9, <2>10, OwnStep
<1> QED BY <1>1, <1>2

\* A step that changes the last SigProc of p to x, of which the header is known
\* and, when it was known before, as long as before.
LEMMA KnownStep ==
  ASSUME Inv, NEW p \in Procs, NEW x \in SigProcs, x.hdr # NoHeader,
         pc[p] \in {"header", "size"},
         opened' = [opened EXCEPT ![p][Len(opened[p])] = x],
         NEW next \in {"open", "size", "use"}, pc' = [pc EXCEPT ![p] = next],
         next = "open" => Len(opened[p]) < Needed(p),
         next = "use" => Len(opened[p]) >= Needed(p),
         UNCHANGED <<job, file, wpc, why, errno, loop>>,
         IF pc[p] = "header" THEN file.hdr # NoHeader /\ x.hdr.len = file.hdr.len
         ELSE This(p).hdr # NoHeader /\ x.hdr.len = This(p).hdr.len
  PROVE  Inv'
<1> DEFINE n == Len(opened[p])
<1>1. opened[p] \in Seq(SigProcs) /\ n \in Nat /\ 0 < n /\ n <= Needed(p)
  BY OpenedOf DEF StageOf
<1>2. opened'[p] = [opened[p] EXCEPT ![n] = x] /\ pc'[p] = next
  BY DEF Inv, Typed
<1>3. opened'[p] \in Seq(SigProcs) /\ Len(opened'[p]) = n /\ opened'[p][n] = x
  BY <1>1, <1>2
<1>4. \A j \in 1..n : j # n => opened'[p][j] = opened[p][j]
  BY <1>1, <1>2
<1>5. \A q \in Procs \ {p} : pc'[q] = pc[q] /\ opened'[q] = opened[q]
  BY DEF Inv, Typed
<1>6. opened' \in [Procs -> Seq(SigProcs)]
  BY <1>3, <1>5 DEF Inv, Typed
<1> HIDE DEF n
<1>7. Typed'
  BY <1>6 DEF Inv, Typed, loop
<1>8. StageOf(p)'
  <2>1. Needed(p)' = Needed(p) /\ Needed(p) \in Nat
    BY DEF Needed
  <2>2. \A j \in 1..n : opened'[p][j].hdr # NoHeader
    BY <1>1, <1>3, <1>4 DEF Inv, Stages, StageOf, n
  <2>3. file # NoFile
    BY DEF Inv, Stages, StageOf
  <2> QED BY <1>1, <1>2, <1>3, <2>1, <2>2, <2>3 DEF StageOf, n
<1>9. ASSUME p = "editor" PROVE Compared'
  <2>1. pc'["editor"] # "write"
    BY <1>2, <1>9
  <2>2. ASSUME n = 2, x.hdr.len = HeaderLen PROVE file # NoFile /\ OwnLength(file.hdr)
    <3>1. file # NoFile
      BY DEF Inv, Stages, StageOf
    <3>2. CASE pc[p] = "header"
      BY <2>2, <3>1, <3>2 DEF OwnLength
    <3>3. CASE pc[p] # "header"
      <4>1. InFile = This("editor")
        BY <1>9, <2>2 DEF This, InFile, n
      <4> QED BY <1>9, <2>2, <3>3, <4>1 DEF Inv, Compared, n
    <3> QED BY <3>2, <3>3
  <2>3. n = 2 => InFile' = x
    BY <1>3, <1>9 DEF InFile
  <2> QED BY <1>3, <1>9, <2>1, <2>2, <2>3 DEF Compared
<1> QED BY <1>5, <1>7, <1>8, <1>9, OwnStep

LEMMA ReadHeaderInv == ASSUME Inv, NEW p \in Procs, ReadHeader(p) PROVE Inv'
<1>1. CASE ~Readable(file.hdr) \/ errno[p]
  BY <1>1, FailInv DEF ReadHeader, Inv, Typed, loop
<1>2. CASE Readable(file.hdr) /\ ~errno[p]
  <2> DEFINE x == [opened[p][Len(opened[p])] EXCEPT !.hdr = Understood(file.hdr),
                                                  !.run = file.run]
  <2>1. pc[p] = "header"
    BY DEF ReadHeader
  <2>2. file \in Files /\ file.hdr \in Headers /\ file.hdr # NoHeader /\ file.run \in Nat
    <3>1. file \in Files
      BY <2>1, OpenedOf DEF StageOf, Inv, Typed
    <3>2. file.hdr # NoHeader
      BY <1>2 DEF Readable
    <3> QED BY <3>1, <3>2 DEF Files
  <2>3. opened[p] \in Seq(SigProcs) /\ Len(opened[p]) \in 1..Len(opened[p])
    BY <2>1, OpenedOf DEF StageOf
  <2>4. opened[p][Len(opened[p])] \in SigProcs
    BY <2>3
  <2>5. x \in SigProcs /\ x.hdr = Understood(file.hdr) /\ x.hdr # NoHeader
        /\ x.hdr.len = file.hdr.len
    BY <2>2, <2>4, UnderstoodHeader, NamesDiffer DEF SigProcs
  <2>6. /\ opened' = [opened EXCEPT ![p][Len(opened[p])] = x]
        /\ pc' = [pc EXCEPT ![p] = "size"]
        /\ UNCHANGED <<job, file, wpc, why, errno, loop>>
    BY <1>2 DEF ReadHeader
  <2> HIDE DEF x
  <2> QED BY <2>1, <2>2, <2>5, <2>6, KnownStep
<1> QED BY <1>1, <1>2

LEMMA CheckSizeInv == ASSUME Inv, NEW p \in Procs, CheckSize(p) PROVE Inv'
<1> DEFINE size == SizeOf(file)
           h    == WithSamples(This(p).hdr, size)
           x    == [opened[p][Len(opened[p])] EXCEPT !.hdr = h, !.size = size]
<1>1. CASE Short(h, size)
  BY <1>1, FailInv DEF CheckSize, Inv, Typed, loop
<1>2. CASE ~Short(h, size)
  <2>1. pc[p] = "size"
    BY DEF CheckSize
  <2>2. file \in Files /\ size \in Int
    BY <2>1, SizeInt DEF Inv, Typed, Stages, StageOf
  <2>3. opened[p] \in Seq(SigProcs) /\ Len(opened[p]) \in 1..Len(opened[p])
    BY <2>1, OpenedOf DEF StageOf
  <2>4. opened[p][Len(opened[p])] \in SigProcs
    BY <2>3
  <2>5. This(p).hdr \in Headers /\ This(p).hdr # NoHeader
    <3>1. This(p).hdr # NoHeader
      BY <2>1, <2>3 DEF Inv, Stages, StageOf, This
    <3> QED BY <2>4, <3>1 DEF This, SigProcs
  <2>6. h \in Headers /\ h.len = This(p).hdr.len
    BY <2>2, <2>5, WithSamplesHeader
  <2> DEFINE next == IF Ready(p) THEN "use" ELSE "open"
  <2>7. /\ opened' = [opened EXCEPT ![p][Len(opened[p])] = x]
        /\ pc' = [pc EXCEPT ![p] = next]
        /\ UNCHANGED <<job, file, wpc, why, errno, loop>>
    BY <1>2 DEF CheckSize
  <2> HIDE DEF size, h
  <2>8. x \in SigProcs /\ x.hdr = h /\ x.hdr # NoHeader
    BY <2>2, <2>4, <2>6, NamesDiffer DEF SigProcs
  <2> HIDE DEF x
  <2>9. /\ next \in {"open", "size", "use"}
        /\ next = "open" => Len(opened[p]) < Needed(p)
        /\ next = "use" => Len(opened[p]) >= Needed(p)
    BY <2>3 DEF Ready, Needed
  <2> HIDE DEF next
  <2> QED BY <2>1, <2>5, <2>6, <2>7, <2>8, <2>9, KnownStep
<1> QED BY <1>1, <1>2

LEMMA LibraryCallInv == ASSUME Inv, NEW p \in Procs, LibraryCall(p) PROVE Inv'
<1>1. errno' \in [Procs -> BOOLEAN] /\ UNCHANGED <<job, file, wpc, pc, why, opened, loop>>
  BY DEF LibraryCall, Inv, Typed
<1> QED BY <1>1 DEF Inv, Typed, Stages, StageOf, Needed, Compared, OwnLength, InFile,
  DataIntact, loop

-----------------------------------------------------------------------------
(* The reader and the editor.                                              *)

\* The reader's loops change its counters and what it has read.
LEMMA ReadingInv ==
  ASSUME Inv, UNCHANGED <<job, file, wpc, pc, why, errno, opened>>,
         i' \in Nat, b' \in Nat, t' \in Nat
  PROVE  Inv'
BY DEF Inv, Typed, Stages, StageOf, Needed, Compared, OwnLength, InFile, DataIntact

\* Process p, which has its SigProcs, goes on to another place.
LEMMA GoOn ==
  ASSUME Inv, NEW p \in Procs, pc[p] \in {"use", "write"},
         NEW next \in {"write", "done"}, pc' = [pc EXCEPT ![p] = next],
         next = "write" => p = "editor" /\ InFile.hdr.len = HeaderLen,
         UNCHANGED <<job, file, wpc, why, errno, opened, i, b, t>>
  PROVE  Inv'
<1>1. pc'[p] = next /\ \A q \in Procs \ {p} : pc'[q] = pc[q]
  BY DEF Inv, Typed
<1>2. Typed'
  BY DEF Inv, Typed
<1>3. \A j \in 1..Len(opened[p]) : opened[p][j].hdr # NoHeader
  BY DEF Inv, Stages, StageOf
<1>4. StageOf(p)'
  BY <1>1, <1>3 DEF Inv, Stages, StageOf, Needed
<1>5. ASSUME p = "editor" PROVE Compared'
  <2>1. Len(opened["editor"]) = 2
    BY <1>5 DEF Inv, Stages, StageOf, Needed
  <2>2. InFile.hdr # NoHeader
    BY <1>3, <1>5, <2>1 DEF InFile
  <2>3. InFile' = InFile
    BY DEF InFile
  <2> QED BY <1>1, <1>5, <2>1, <2>2, <2>3 DEF Inv, Compared, OwnLength
<1> QED BY <1>1, <1>2, <1>4, <1>5, OwnStep

LEMMA ReaderInv == ASSUME Inv, Reader PROVE Inv'
<1>1. "reader" \in Procs /\ i \in Nat /\ b \in Nat /\ t \in Nat
  BY DEF Inv, Typed, Procs
<1>2. CASE Open("reader")
  BY <1>1, <1>2, OpenFileInv, ReadHeaderInv, CheckSizeInv DEF Open
<1>3. CASE ReadSample
  <2>1. CASE Fail("reader", "read") /\ UNCHANGED <<got, t>>
    BY <1>1, <1>3, <2>1, FailInv DEF ReadSample
  <2>2. CASE Forward /\ UNCHANGED <<pc, why, errno, opened>>
    BY <1>1, <1>3, <2>2, ReadingInv DEF ReadSample, Forward
  <2> QED BY <1>3, <2>1, <2>2 DEF ReadSample
<1>4. CASE NextBatch
  <2>1. CASE errno["reader"]
    BY <1>1, <1>4, <2>1, FailInv DEF NextBatch
  <2>2. CASE ~errno["reader"]
    BY <1>1, <1>4, <2>2, ReadingInv DEF NextBatch
  <2> QED BY <2>1, <2>2
<1>5. CASE ReadAll
  <2>1. CASE Fail("reader", "read") /\ UNCHANGED <<got, i>>
    BY <1>1, <1>5, <2>1, FailInv DEF ReadAll
  <2>2. CASE i' = Header.nifs /\ UNCHANGED <<pc, why, errno, opened>>
    <3>1. Header \in Headers
      <4>1. /\ opened["reader"] \in Seq(SigProcs) /\ Len(opened["reader"]) = 1
            /\ opened["reader"][1].hdr # NoHeader
        <5>1. pc["reader"] = "use" /\ Needed("reader") = 1
          BY <1>5 DEF ReadAll, Reading, Needed
        <5>2. StageOf("reader") /\ Len(opened["reader"]) = 1
          BY <1>1, <5>1, OpenedOf DEF StageOf
        <5>3. 1 \in 1..Len(opened["reader"])
          BY <5>2
        <5> QED BY <1>1, <5>1, <5>2, <5>3, OpenedOf DEF StageOf
      <4>2. opened["reader"][1] \in SigProcs
        BY <4>1
      <4> QED BY <4>1, <4>2 DEF Header, This, SigProcs
    <3>2. Header.nifs \in Nat
      BY <3>1 DEF Headers
    <3> QED BY <1>1, <1>5, <2>2, <3>2, ReadingInv DEF ReadAll
  <2> QED BY <1>5, <2>1, <2>2 DEF ReadAll
<1>6. CASE HaveRead
  BY <1>1, <1>6, GoOn DEF HaveRead, Reading, loop
<1> QED BY <1>2, <1>3, <1>4, <1>5, <1>6 DEF Reader

\* What is written is the header the editor was asked to change, of our own
\* length; it takes the place of one as long as itself, or of none.
Rewrite(g) ==
  /\ g \in Headers /\ g.len = HeaderLen /\ g.nsamples = Asked.hdr.nsamples
  /\ PerSample(g) = PerSample(Asked.hdr)
  /\ OwnLength(file.hdr)
  /\ file \in Files /\ file' \in Files /\ file'.hdr = g
  /\ file'.data = file.data /\ file'.run = file.run

LEMMA AskedHeader ==
  ASSUME Inv, RewriteHeader
  PROVE  /\ 1 \in 1..Len(opened["editor"]) /\ Asked = opened["editor"][1]
         /\ Asked \in SigProcs /\ Asked.hdr \in Headers /\ Asked.hdr # NoHeader
<1>1. "editor" \in Procs /\ pc["editor"] = "write" /\ Needed("editor") = 2
  BY DEF RewriteHeader, Procs, Needed
<1>2. StageOf("editor") /\ Len(opened["editor"]) = 2
  BY <1>1, OpenedOf DEF StageOf
<1>3. 1 \in 1..Len(opened["editor"])
  BY <1>2
<1>4. opened["editor"] \in Seq(SigProcs) /\ opened["editor"][1].hdr # NoHeader
  BY <1>1, <1>2, <1>3, OpenedOf DEF StageOf
<1>5. opened["editor"][1] \in SigProcs
  BY <1>3, <1>4
<1> QED BY <1>3, <1>4, <1>5 DEF Asked, SigProcs

LEMMA Rewritten ==
  ASSUME Inv, RewriteHeader, ~InFile.ro PROVE \E g : Rewrite(g)
<1> DEFINE h == [Asked.hdr EXCEPT !.of = Asked.run]
           g == [h EXCEPT !.len = HeaderLen]
<1>1. "editor" \in Procs /\ pc["editor"] = "write" /\ file \in Files
  BY DEF RewriteHeader, Inv, Typed, Stages, StageOf, Procs
<1>2. /\ Asked.run \in Nat /\ h \in Headers /\ h.nsamples = Asked.hdr.nsamples
      /\ PerSample(h) = PerSample(Asked.hdr)
  BY AskedHeader DEF SigProcs, Headers, PerSample
<1> HIDE DEF h
<1>3. /\ g \in Headers /\ g.len = HeaderLen /\ g.nsamples = h.nsamples
      /\ PerSample(g) = PerSample(h)
  BY <1>2, SigProcFileAssumption DEF Headers, PerSample
<1> HIDE DEF g
<1>4. OwnLength(file.hdr)
  <2>1. Len(opened["editor"]) = 2
    BY <1>1 DEF Inv, Stages, StageOf, Needed
  <2> QED BY <1>1, <2>1 DEF Inv, Compared
<1>5. ~(file.hdr # NoHeader /\ file.hdr.len < HeaderLen)
  BY <1>4, SigProcFileAssumption DEF OwnLength
<1>6. file' = [file EXCEPT !.hdr = g, !.data = file.data]
  BY <1>5 DEF RewriteHeader, Overwritten, h, g
<1>7. /\ file' \in Files /\ file'.hdr = g /\ file'.data = file.data
      /\ file'.run = file.run
  BY <1>1, <1>3, <1>6 DEF Files
<1>8. Rewrite(g)
  BY <1>1, <1>2, <1>3, <1>4, <1>7 DEF Rewrite
<1> QED BY <1>8

LEMMA RewriteHeaderInv == ASSUME Inv, RewriteHeader PROVE Inv'
<1>1. "editor" \in Procs /\ pc["editor"] = "write"
  BY DEF RewriteHeader, Procs
<1>2. CASE InFile.ro
  BY <1>1, <1>2, FailInv DEF RewriteHeader, loop, Inv, Typed
<1>3. CASE ~InFile.ro
  <2>1. PICK g : Rewrite(g)
    BY <1>3, Rewritten
  <2>2. /\ g.len = HeaderLen /\ file \in Files /\ file' \in Files /\ file'.hdr = g
        /\ file'.data = file.data /\ file'.run = file.run
    BY <2>1 DEF Rewrite
  <2>3. /\ pc' = [pc EXCEPT !["editor"] = "done"]
        /\ UNCHANGED <<job, wpc, why, errno, opened, loop>>
    BY <1>3 DEF RewriteHeader
  <2>4. Typed'
    BY <2>2, <2>3 DEF Inv, Typed, loop
  <2>5. Stages'
    <3>1. file' # NoFile /\ pc'["editor"] = "done" /\ pc'["reader"] = pc["reader"]
      BY <2>2, <2>3, NamesDiffer DEF Inv, Typed, Procs
    <3>2. \A j \in 1..Len(opened["editor"]) : opened["editor"][j].hdr # NoHeader
      BY <1>1 DEF Inv, Stages, StageOf
    <3>3. StageOf("editor")'
      BY <1>1, <2>3, <3>1, <3>2 DEF Inv, Stages, StageOf, Needed
    <3>4. StageOf("reader")'
      BY <2>3, <3>1 DEF Inv, Stages, StageOf, Needed, Procs
    <3> QED BY <3>1, <3>3, <3>4 DEF Stages, Procs
  <2>6. Compared'
    <3>1. file' # NoFile /\ OwnLength(file'.hdr) /\ pc'["editor"] = "done"
      BY <1>1, <2>2, <2>3, NamesDiffer DEF Inv, Typed, OwnLength
    <3> QED BY <3>1 DEF Compared, OwnLength
  <2>7. DataIntact'
    BY <2>2, NamesDiffer DEF Inv, DataIntact
  <2> QED BY <2>4, <2>5, <2>6, <2>7 DEF Inv
<1> QED BY <1>2, <1>3

LEMMA EditorInv == ASSUME Inv, Editor PROVE Inv'
<1>1. "editor" \in Procs
  BY DEF Procs
<1>2. CASE Open("editor")
  BY <1>1, <1>2, OpenFileInv, ReadHeaderInv, CheckSizeInv DEF Open
<1>3. CASE Compare
  <2>1. CASE Differs
    BY <1>1, <1>3, <2>1, FailInv DEF Compare, loop, Inv, Typed
  <2>2. CASE ~Differs
    BY <1>1, <1>3, <2>2, GoOn DEF Compare, Differs, loop
  <2> QED BY <2>1, <2>2
<1> QED BY <1>2, <1>3, RewriteHeaderInv DEF Editor

LEMMA NextInv == ASSUME Inv, [Next]_vars PROVE Inv'
<1>1. CASE UNCHANGED vars
  BY <1>1 DEF Inv, Typed, Stages, StageOf, Needed, Compared, OwnLength, InFile,
    DataIntact, vars, loop
<1> QED BY <1>1, WriterInv, ReaderInv, EditorInv, LibraryCallInv DEF Next

-----------------------------------------------------------------------------
(* The length settled at the open.                                         *)

\* What SigProc x says of the file fl, if it is still of the same run.
SoundIn(x, fl) ==
  /\ x.run <= fl.run
  /\ x.hdr = NoHeader => x.size = 0
  /\ x.hdr # NoHeader => Fits(x.hdr)
  /\ x.hdr # NoHeader /\ x.run = fl.run =>
       /\ fl.hdr # NoHeader /\ fl.hdr.len = x.hdr.len
       /\ x.size > 0 => PerSample(x.hdr) * x.hdr.nsamples <= Len(fl.data)

\* While mkfb has written no header, there can only be one of an editor.
Lengths ==
  /\ file # NoFile /\ file.hdr # NoHeader => Fits(file.hdr)
  /\ wpc = "created" => OwnLength(file.hdr)
  /\ \A p \in Procs : \A j \in 1..Len(opened[p]) :
       file # NoFile /\ SoundIn(opened[p][j], file)
  /\ \A p \in Procs : pc[p] \in {"header", "size"} => This(p).size = 0

\* A file is followed by itself with more data, or by one of a later run.
Follows(gl, fl) ==
  \/ fl.run < gl.run
  \/ /\ fl.run = gl.run /\ Len(fl.data) <= Len(gl.data)
     /\ fl.hdr # NoHeader => gl.hdr # NoHeader /\ gl.hdr.len = fl.hdr.len

LEMMA SoundKept ==
  ASSUME NEW x \in SigProcs, NEW fl \in Files, NEW gl \in Files,
         SoundIn(x, fl), Follows(gl, fl)
  PROVE  SoundIn(x, gl)
<1>1. x.run \in Nat /\ fl.run \in Nat /\ gl.run \in Nat
  BY DEF SigProcs, Files
<1>2. Len(fl.data) \in Nat /\ Len(gl.data) \in Nat
  BY DEF Files
<1>3. CASE fl.run < gl.run
  BY <1>1, <1>3 DEF SoundIn
<1>4. CASE ~(fl.run < gl.run)
  <2>1. ASSUME x.hdr # NoHeader, x.run = gl.run
        PROVE  /\ gl.hdr # NoHeader /\ gl.hdr.len = x.hdr.len
               /\ x.size > 0 => PerSample(x.hdr) * x.hdr.nsamples <= Len(gl.data)
    <3>1. fl.hdr # NoHeader /\ fl.hdr.len = x.hdr.len /\ gl.hdr # NoHeader
          /\ gl.hdr.len = x.hdr.len
      BY <1>4, <2>1 DEF SoundIn, Follows
    <3>2. PICK v : v = PerSample(x.hdr) * x.hdr.nsamples
      BY Zenon
    <3>3. v \in Int
      <4>1. x.hdr \in Headers
        BY <2>1 DEF SigProcs
      <4>2. PerSample(x.hdr) \in Nat /\ x.hdr.nsamples \in Int
        BY <4>1, PerSampleNat DEF Headers
      <4> QED BY <3>2, <4>2
    <3>4. x.size > 0 => v <= Len(fl.data)
      BY <1>4, <2>1, <3>2 DEF SoundIn, Follows
    <3>5. Len(fl.data) <= Len(gl.data)
      BY <1>4 DEF Follows
    <3>6. x.size > 0 => v <= Len(gl.data)
      BY <1>2, <3>3, <3>4, <3>5
    <3> QED BY <3>1, <3>2, <3>6
  <2> QED BY <1>4, <2>1 DEF SoundIn, Follows
<1> QED BY <1>3, <1>4

\* A step of which only the file matters.
LEMMA FileStep ==
  ASSUME Inv, Lengths, UNCHANGED opened,
         \A p \in Procs : pc'[p] \in {"header", "size"} => pc[p] \in {"header", "size"},
         file' \in Files, file # NoFile => Follows(file', file),
         file'.hdr # NoHeader => Fits(file'.hdr),
         wpc' = "created" => OwnLength(file'.hdr)
  PROVE  Lengths'
<1>1. file' # NoFile
  BY NamesDiffer
<1>2. ASSUME NEW p \in Procs, NEW j \in 1..Len(opened[p])
      PROVE  SoundIn(opened[p][j], file')
  <2>1. opened[p][j] \in SigProcs
    BY OpenedOf
  <2>2. file \in Files /\ SoundIn(opened[p][j], file)
    BY DEF Inv, Typed, Lengths
  <2>3. Follows(file', file)
    BY <2>2, NamesDiffer
  <2> QED BY <2>1, <2>2, <2>3, SoundKept
<1>3. ASSUME NEW p \in Procs, pc'[p] \in {"header", "size"}
      PROVE  This(p)'.size = 0
  BY <1>3 DEF Lengths, This
<1> QED BY <1>1, <1>2, <1>3 DEF Lengths

\* A step that leaves the file and the SigProcs alone.
LEMMA QuietStep ==
  ASSUME Lengths, UNCHANGED <<file, opened>>, wpc' = "created" => wpc = "created",
         \A p \in Procs : pc'[p] \in {"header", "size"} => pc[p] \in {"header", "size"}
  PROVE  Lengths'
BY DEF Lengths, This

LEMMA FailLengths ==
  ASSUME Inv, Lengths, NEW p \in Procs, UNCHANGED <<file, wpc>>, NEW reason, Fail(p, reason)
  PROVE  Lengths'
<1>1. /\ UNCHANGED opened
      /\ \A q \in Procs : pc'[q] \in {pc[q], "failed"}
  BY DEF Fail, Inv, Typed
<1> QED BY <1>1, QuietStep

\* A step after which p's last SigProc is x, and the others are as before.
LEMMA OpenedStep ==
  ASSUME Inv, Lengths, NEW p \in Procs, UNCHANGED <<file, wpc>>, file # NoFile,
         \A q \in Procs \ {p} : opened'[q] = opened[q] /\ pc'[q] = pc[q],
         NEW n \in Nat, Len(opened'[p]) = n, NEW x, SoundIn(x, file),
         opened'[p][n] = x, pc'[p] \in {"header", "size"} => x.size = 0,
         \A j \in 1..n : j # n => j \in 1..Len(opened[p]) /\ opened'[p][j] = opened[p][j]
  PROVE  Lengths'
<1>1. ASSUME NEW q \in Procs, NEW j \in 1..Len(opened'[q])
      PROVE  SoundIn(opened'[q][j], file)
  <2>1. CASE q # p
    BY <2>1 DEF Lengths
  <2>2. CASE q = p
    <3>1. CASE j = n
      BY <2>2, <3>1
    <3>2. CASE j # n
      BY <2>2, <3>2 DEF Lengths
    <3> QED BY <3>1, <3>2
  <2> QED BY <2>1, <2>2
<1>2. ASSUME NEW q \in Procs, pc'[q] \in {"header", "size"}
      PROVE  This(q)'.size = 0
  <2>1. CASE q # p
    <3>1. This(q)' = This(q) /\ pc[q] \in {"header", "size"}
      BY <1>2, <2>1 DEF This
    <3> QED BY <3>1 DEF Lengths
  <2>2. CASE q = p
    BY <1>2, <2>2 DEF This
  <2> QED BY <2>1, <2>2
<1> QED BY <1>1, <1>2 DEF Lengths

LEMMA UnderstoodFits ==
  ASSUME NEW h \in Headers, Fits(h) PROVE Fits(Understood(h))
<1> DEFINE g == Understood(h)
<1>1. g \in Headers /\ g.len = h.len
  BY UnderstoodHeader
<1>2. g.nifs = h.nifs /\ g.nchans \in {1, h.nchans} /\ g.nsamples \in {-1, h.nsamples}
  BY DEF Understood, Headers
<1>3. h.nifs \in Nat /\ h.nchans \in Nat \ {0} /\ h.len \in Nat
  BY DEF Headers
<1> HIDE DEF g
<1>4. PerSample(g) <= PerSample(h) /\ PerSample(g) \in Nat /\ PerSample(h) \in Nat
  <2>1. CASE g.nchans = h.nchans
    BY <1>1, <1>2, <2>1, PerSampleNat DEF PerSample
  <2>2. CASE g.nchans = 1
    <3>1. h.nifs * 1 <= h.nifs * h.nchans
      BY <1>3, MulMonotone
    <3> QED BY <1>1, <1>2, <2>2, <3>1, PerSampleNat DEF PerSample
  <2> QED BY <1>2, <2>1, <2>2
<1>5. PICK u \in Nat, v \in Nat :
        u = PerSample(g) * IntWrap /\ v = PerSample(h) * IntWrap /\ u <= v
  BY <1>4, MulMonotone, MulPositive, SigProcFileAssumption
<1>6. h.len + u < SizeWrap /\ HeaderLen + u < SizeWrap
  BY <1>3, <1>5, SigProcFileAssumption DEF Fits
<1>7. 2 * g.nsamples < IntWrap
  BY <1>2, SigProcFileAssumption DEF Fits
<1> QED BY <1>1, <1>5, <1>6, <1>7 DEF Fits, g

LEMMA ModAtMost ==
  ASSUME NEW x \in Nat, NEW y \in Nat \ {0}
  PROVE  x % y \in Nat /\ x % y <= x /\ (x < y => x % y = x)
<1>1. PICK m \in Nat : m = y * (x \div y) /\ x = m + (x % y)
  BY DivParts
<1>2. x % y \in Nat
  BY DivParts
<1>3. ASSUME x < y PROVE x % y = x
  <2>1. y * 0 + x = x /\ x \in 0..(y - 1)
    BY <1>3
  <2>2. (y * 0 + x) % y = x
    BY <2>1, DivMod
  <2> QED BY <2>1, <2>2
<1>4. x % y <= x
  <2>1. PICK r \in Nat : r = x % y
    BY <1>2
  <2> QED BY <1>1, <2>1
<1> QED BY <1>2, <1>3, <1>4

LEMMA AsIntBounds ==
  ASSUME NEW x \in Nat
  PROVE  /\ AsInt(x) \in Int /\ AsInt(x) <= x
         /\ 2 * AsInt(x) < IntWrap /\ -IntWrap <= 2 * AsInt(x)
         /\ 2 * x < IntWrap => AsInt(x) = x
<1>1. IntWrap \in Nat \ {0}
  BY SigProcFileAssumption
<1>2. x \div IntWrap \in Nat /\ x % IntWrap \in 0..(IntWrap - 1)
  BY <1>1, DivParts
<1>3. x % IntWrap <= x
  BY <1>1, ModAtMost
<1>4. 2 * x < IntWrap => x % IntWrap = x
  BY <1>1, ModAtMost
<1> DEFINE r == x % IntWrap
<1>5. AsInt(x) = IF 2 * r < IntWrap THEN r ELSE r - IntWrap
  BY DEF AsInt
<1> HIDE DEF r
<1>6. r \in 0..(IntWrap - 1) /\ r <= x /\ (2 * x < IntWrap => r = x)
  BY <1>2, <1>3, <1>4 DEF r
<1> QED BY <1>1, <1>5, <1>6

\* The samples that are counted, or that are found to be there, are there.
LEMMA SizeSound ==
  ASSUME NEW h \in Headers, Fits(h), NEW fl \in Files, fl.hdr # NoHeader,
         fl.hdr.len = h.len, ~Short(WithSamples(h, SizeOf(fl)), SizeOf(fl))
  PROVE  LET g == WithSamples(h, SizeOf(fl)) IN PerSample(g) * g.nsamples <= Len(fl.data)
<1> DEFINE g == WithSamples(h, SizeOf(fl))
           n == Len(fl.data)
           per == PerSample(h)
<1>1. n \in Nat /\ per \in Nat \ {0} /\ h.len \in Nat /\ h.nsamples \in Int
  BY PerSampleNat DEF Files, Headers
<1>2. SizeOf(fl) = h.len + n
  BY DEF SizeOf
<1>3. SizeWrap \in Nat \ {0} /\ IntWrap \in Nat \ {0}
  BY SigProcFileAssumption
<1>4. CASE h.nsamples > 0
  <2>1. g = h
    BY <1>4 DEF WithSamples
  <2>2. PICK u \in Nat, v \in Nat : u = per * h.nsamples /\ v = per * IntWrap /\ u <= v
    <3>1. h.nsamples \in Nat /\ h.nsamples <= IntWrap
      BY <1>1, <1>3, <1>4 DEF Fits
    <3> HIDE DEF per
    <3> QED BY <1>1, <1>3, <3>1, MulMonotone, MulPositive
  <2>3. h.len + u < SizeWrap
    BY <1>1, <1>3, <2>2 DEF Fits
  <2>4. u % SizeWrap = u /\ (u + h.len) % SizeWrap = u + h.len
    <3>1. PICK w \in Nat : w = u + h.len
      BY <1>1, <2>2
    <3>2. u < SizeWrap /\ w < SizeWrap
      BY <1>1, <1>3, <2>2, <2>3, <3>1
    <3>3. u % SizeWrap = u /\ w % SizeWrap = w
      BY <1>3, <2>2, <3>1, <3>2, ModAtMost
    <3> QED BY <3>1, <3>3
  <2>5. DataSize(h) = u
    BY <1>4, <2>2, <2>4 DEF DataSize, Elements
  <2>6. ~(h.len + n < u + h.len)
    BY <1>2, <2>1, <2>4, <2>5 DEF Short
  <2> QED BY <1>1, <2>1, <2>2, <2>6
<1>5. CASE ~(h.nsamples > 0)
  <2> DEFINE q == (n % SizeWrap) \div per
  <2>1. g = [h EXCEPT !.nsamples = AsInt(q)]
    <3>1. (SizeOf(fl) - h.len) = n
      BY <1>1, <1>2
    <3> QED BY <1>5, <3>1 DEF WithSamples
  <2>2. n % SizeWrap \in Nat /\ n % SizeWrap <= n
    BY <1>1, <1>3, ModAtMost
  <2> HIDE DEF per
  <2>3. q \in Nat /\ per * q <= n % SizeWrap
    BY <1>1, <2>2, DivBounds
  <2> HIDE DEF q
  <2>4. AsInt(q) \in Int /\ AsInt(q) <= q
    BY <2>3, AsIntBounds
  <2>5. per * AsInt(q) <= n
    <3>1. CASE AsInt(q) \in Nat
      <4>1. per * AsInt(q) <= per * q
        BY <1>1, <2>3, <2>4, <3>1, MulMonotone
      <4>2. per * AsInt(q) \in Nat /\ per * q \in Nat
        BY <1>1, <2>3, <3>1, MulPositive
      <4> QED BY <1>1, <2>2, <2>3, <4>1, <4>2
    <3>2. CASE AsInt(q) < 0
      <4>1. per * AsInt(q) <= 0
        BY <1>1, <2>4, <3>2
      <4>2. per * AsInt(q) \in Int
        BY <1>1, <2>4
      <4> QED BY <1>1, <4>1, <4>2
    <3> QED BY <2>4, <3>1, <3>2
  <2>6. g.nsamples = AsInt(q) /\ PerSample(g) = per
    BY <2>1 DEF PerSample, Headers, per
  <2> QED BY <2>5, <2>6
<1> QED BY <1>4, <1>5

LEMMA WithSamplesFits ==
  ASSUME NEW h \in Headers, Fits(h), NEW fl \in Files
  PROVE  Fits(WithSamples(h, SizeOf(fl)))
<1> DEFINE g == WithSamples(h, SizeOf(fl))
           y == (SizeOf(fl) - h.len) % SizeWrap
<1>1. CASE h.nsamples > 0
  BY <1>1 DEF WithSamples
<1>2. CASE ~(h.nsamples > 0)
  <2>1. y \in Nat
    <3>1. SizeOf(fl) - h.len \in Int
      BY SizeInt DEF Headers
    <3> QED BY <3>1, SigProcFileAssumption
  <2>2. y \div PerSample(h) \in Nat
    BY <2>1, PerSampleNat, DivParts
  <2>3. PICK z \in Int : z = AsInt(y \div PerSample(h)) /\ 2 * z < IntWrap
    BY <2>2, AsIntBounds
  <2>4. g = [h EXCEPT !.nsamples = z]
    BY <1>2, <2>3 DEF WithSamples
  <2>5. g.nsamples = z /\ PerSample(g) = PerSample(h) /\ g.len = h.len
    BY <2>4 DEF PerSample, Headers
  <2> QED BY <2>3, <2>5 DEF Fits
<1> QED BY <1>1, <1>2

LEMMA OpenFileLengths == ASSUME Inv, Lengths, NEW p \in Procs, OpenFile(p) PROVE Lengths'
<1>1. CASE file = NoFile
  BY <1>1, FailLengths DEF OpenFile
<1>2. CASE file # NoFile
  <2>1. PICK x : x = [ro |-> ~job.writable, hdr |-> NoHeader, run |-> 0, size |-> 0]
    BY Zenon
  <2>2. x.hdr = NoHeader /\ x.run = 0 /\ x.size = 0
    BY <2>1
  <2>3. /\ opened' = [opened EXCEPT ![p] = Append(opened[p], x)]
        /\ pc' = [pc EXCEPT ![p] = "header"] /\ UNCHANGED <<file, wpc>>
    BY <1>2, <2>1 DEF OpenFile
  <2>4. PICK n \in Nat : n = Len(opened[p]) + 1
    BY OpenedOf
  <2>5. /\ opened'[p] = Append(opened[p], x)
        /\ \A q \in Procs \ {p} : opened'[q] = opened[q] /\ pc'[q] = pc[q]
    BY <2>3 DEF Inv, Typed
  <2>6. /\ Len(opened'[p]) = n /\ opened'[p][n] = x
        /\ \A j \in 1..n : j # n => j \in 1..Len(opened[p]) /\ opened'[p][j] = opened[p][j]
    BY <2>4, <2>5, OpenedOf
  <2>7. SoundIn(x, file)
    <3>1. file \in Files
      BY <1>2 DEF Inv, Typed
    <3>2. file.run \in Nat /\ 0 <= file.run
      BY <3>1 DEF Files
    <3> QED BY <2>2, <3>2 DEF SoundIn
  <2> QED BY <1>2, <2>2, <2>3, <2>5, <2>6, <2>7, OpenedStep
<1> QED BY <1>1, <1>2

\* A step that changes p's last SigProc to x.
LEMMA LastStep ==
  ASSUME Inv, Lengths, NEW p \in Procs, pc[p] \in {"header", "size"},
         UNCHANGED <<file, wpc>>, NEW x, SoundIn(x, file), NEW next,
         opened' = [opened EXCEPT ![p][Len(opened[p])] = x],
         pc' = [pc EXCEPT ![p] = next], next \in {"header", "size"} => x.size = 0
  PROVE  Lengths'
<1>1. PICK n \in Nat : n = Len(opened[p]) /\ n > 0
  BY OpenedOf DEF StageOf
<1>2. /\ opened'[p] = [opened[p] EXCEPT ![n] = x] /\ pc'[p] = next
      /\ \A q \in Procs \ {p} : opened'[q] = opened[q] /\ pc'[q] = pc[q]
  BY <1>1 DEF Inv, Typed
<1>3. /\ Len(opened'[p]) = n /\ opened'[p][n] = x
      /\ \A j \in 1..n : j # n => j \in 1..Len(opened[p]) /\ opened'[p][j] = opened[p][j]
  BY <1>1, <1>2, OpenedOf
<1>4. file # NoFile
  BY OpenedOf DEF StageOf
<1> QED BY <1>2, <1>3, <1>4, OpenedStep

LEMMA ThisOf ==
  ASSUME Inv, Lengths, NEW p \in Procs, pc[p] \in {"header", "size"}
  PROVE  /\ This(p) \in SigProcs /\ SoundIn(This(p), file) /\ This(p).size = 0
         /\ file \in Files /\ (pc[p] = "size" => This(p).hdr # NoHeader)
<1>1. Len(opened[p]) \in 1..Len(opened[p]) /\ opened[p] \in Seq(SigProcs)
  BY OpenedOf DEF StageOf
<1>2. This(p) \in SigProcs
  BY <1>1 DEF This
<1>3. SoundIn(This(p), file) /\ This(p).size = 0 /\ file # NoFile
  BY <1>1 DEF Lengths, This
<1>4. pc[p] = "size" => This(p).hdr # NoHeader
  BY <1>1 DEF Inv, Stages, StageOf, This
<1> QED BY <1>2, <1>3, <1>4 DEF Inv, Typed

LEMMA ReadHeaderLengths ==
  ASSUME Inv, Lengths, NEW p \in Procs, ReadHeader(p) PROVE Lengths'
<1>1. CASE ~Readable(file.hdr) \/ errno[p]
  BY <1>1, FailLengths DEF ReadHeader
<1>2. CASE Readable(file.hdr) /\ ~errno[p]
  <2>1. PICK x : x = [This(p) EXCEPT !.hdr = Understood(file.hdr), !.run = file.run]
    BY Zenon
  <2>2. pc[p] = "header"
    BY DEF ReadHeader
  <2>3. /\ opened' = [opened EXCEPT ![p][Len(opened[p])] = x]
        /\ pc' = [pc EXCEPT ![p] = "size"] /\ UNCHANGED <<file, wpc>>
    BY <1>2, <2>1 DEF ReadHeader, This
  <2>4. x.hdr = Understood(file.hdr) /\ x.run = file.run /\ x.size = 0
    BY <2>1, <2>2, ThisOf DEF SigProcs
  <2>5. /\ file.hdr \in Headers /\ file.hdr # NoHeader /\ file.run \in Nat
        /\ Fits(file.hdr)
    BY <1>2, <2>2, ThisOf, NamesDiffer DEF Readable, Files, Lengths
  <2>6. SoundIn(x, file)
    <3>1. /\ Understood(file.hdr) \in Headers /\ Understood(file.hdr).len = file.hdr.len
          /\ Fits(Understood(file.hdr))
      BY <2>5, UnderstoodHeader, UnderstoodFits
    <3>2. x.hdr # NoHeader /\ Fits(x.hdr) /\ file.hdr.len = x.hdr.len
      BY <2>4, <3>1, NamesDiffer
    <3> QED BY <2>4, <2>5, <3>2 DEF SoundIn
  <2> QED BY <2>2, <2>3, <2>4, <2>6, LastStep
<1> QED BY <1>1, <1>2

LEMMA CheckSizeLengths ==
  ASSUME Inv, Lengths, NEW p \in Procs, CheckSize(p) PROVE Lengths'
<1>1. PICK size : size = SizeOf(file)
  BY Zenon
<1>2. PICK h : h = WithSamples(This(p).hdr, size)
  BY Zenon
<1>3. pc[p] = "size"
  BY DEF CheckSize
<1>4. CASE Short(h, size)
  BY <1>1, <1>2, <1>4, FailLengths DEF CheckSize
<1>5. CASE ~Short(h, size)
  <2>1. PICK x : x = [This(p) EXCEPT !.hdr = h, !.size = size]
    BY Zenon
  <2>2. PICK next : next = IF Ready(p) THEN "use" ELSE "open"
    BY Zenon
  <2>3. /\ opened' = [opened EXCEPT ![p][Len(opened[p])] = x]
        /\ pc' = [pc EXCEPT ![p] = next] /\ UNCHANGED <<file, wpc>>
    BY <1>1, <1>2, <1>5, <2>1, <2>2 DEF CheckSize, This
  <2>4. /\ file \in Files /\ This(p) \in SigProcs /\ This(p).hdr \in Headers
        /\ This(p).hdr # NoHeader /\ Fits(This(p).hdr) /\ SoundIn(This(p), file)
    BY <1>3, ThisOf DEF SigProcs, SoundIn
  <2>5. h \in Headers /\ h # NoHeader /\ h.len = This(p).hdr.len /\ Fits(h)
    BY <1>1, <1>2, <2>4, SizeInt, WithSamplesHeader, WithSamplesFits, NamesDiffer
  <2>6. x.hdr = h /\ x.run = This(p).run /\ x.size = size
    BY <2>1, <2>4 DEF SigProcs
  <2>7. ASSUME x.run = file.run
        PROVE  /\ file.hdr # NoHeader /\ file.hdr.len = h.len
               /\ PerSample(h) * h.nsamples <= Len(file.data)
    <3>1. file.hdr # NoHeader /\ file.hdr.len = This(p).hdr.len
      BY <2>4, <2>6, <2>7 DEF SoundIn
    <3>2. ~Short(WithSamples(This(p).hdr, SizeOf(file)), SizeOf(file))
      BY <1>1, <1>2, <1>5
    <3> QED BY <1>1, <1>2, <2>4, <2>5, <3>1, <3>2, SizeSound
  <2>8. SoundIn(x, file)
    BY <2>4, <2>5, <2>6, <2>7 DEF SoundIn
  <2>9. next \notin {"header", "size"}
    BY <2>2
  <2> QED BY <1>3, <2>3, <2>8, <2>9, LastStep
<1> QED BY <1>4, <1>5

\* What a step of mkfb leaves of the file.
LEMMA WriterFollows ==
  ASSUME Inv, Lengths, Writer
  PROVE  /\ UNCHANGED <<job, pc, why, errno, opened, loop>>
         /\ file' \in Files \cup {NoFile}
         /\ file # NoFile => file' \in Files /\ Follows(file', file)
         /\ \/ Truncate /\ file'.hdr = NoHeader /\ file'.data = <<>>
            \/ WriteHeader /\ file \in Files /\ file'.hdr = WriterHeader
               /\ file'.data = file.data /\ file'.run = file.run
            \/ WriteValue /\ file \in Files /\ file'.hdr = file.hdr /\ file'.run = file.run
               /\ Len(file'.data) = Len(file.data) + 1
            \/ UNCHANGED file /\ wpc' \in {"closed", "dead"}
<1>1. UNCHANGED <<job, pc, why, errno, opened, loop>> /\ Inv'
  BY WriterInv DEF Writer, Truncate, WriteHeader, WriteValue, CloseFile, WriterDies
<1>2. CASE Truncate
  <2>1. /\ file' = [run |-> LastRun + 1, hdr |-> NoHeader, data |-> <<>>]
        /\ wpc' = "created"
    BY <1>2 DEF Truncate
  <2>2. file' \in Files
    BY <1>1, <2>1 DEF Inv, Typed, Stages
  <2>3. ASSUME file # NoFile PROVE file.run < file'.run
    <3>1. file \in Files
      BY <2>3 DEF Inv, Typed
    <3>2. file.run \in Nat
      BY <3>1 DEF Files
    <3>3. file'.run = file.run + 1
      BY <2>1, <2>3 DEF LastRun
    <3> QED BY <3>2, <3>3
  <2>4. file'.hdr = NoHeader /\ file'.data = <<>>
    BY <2>1
  <2> QED BY <1>1, <1>2, <2>2, <2>3, <2>4 DEF Follows
<1>3. CASE WriteHeader
  <2>1. file' = [file EXCEPT !.hdr = WriterHeader] /\ wpc = "created" /\ wpc' = "writing"
    BY <1>3 DEF WriteHeader
  <2>2. file \in Files /\ file' \in Files
    BY <1>1, <2>1 DEF Inv, Typed, Stages
  <2>3. /\ file'.hdr = WriterHeader /\ file'.run = file.run /\ file'.data = file.data
    BY <2>1, <2>2 DEF Files
  <2>4. OwnLength(file.hdr)
    BY <2>1 DEF Lengths
  <2>5. PICK w : w = WriterHeader
    OBVIOUS
  <2>6. w.len = HeaderLen
    BY <2>5 DEF WriterHeader
  <2>7. w # NoHeader
    <3>1. job.nchans \in Nat \ {0}
      BY ScenariosAssumption DEF Inv, Typed
    <3>2. file.run \in Nat
      BY <2>2 DEF Files
    <3>3. w \in Headers
      BY <2>5, <3>1, <3>2, SigProcFileAssumption DEF WriterHeader, Headers
    <3> QED BY <3>3, NamesDiffer
  <2>8. Len(file.data) <= Len(file'.data)
    BY <2>2, <2>3 DEF Files
  <2>9. Follows(file', file)
    BY <2>3, <2>4, <2>5, <2>6, <2>7, <2>8 DEF Follows, OwnLength
  <2> QED BY <1>1, <1>3, <2>2, <2>3, <2>9
<1>4. CASE WriteValue
  <2>1. PICK v : v = <<file.run, Len(file.data)>>
    BY Zenon
  <2>2. /\ file' = [file EXCEPT !.data = Append(file.data, v)]
        /\ wpc = "writing" /\ wpc' = "writing"
    BY <1>4, <2>1 DEF WriteValue
  <2>3. file \in Files /\ file' \in Files
    BY <1>1, <2>2 DEF Inv, Typed, Stages
  <2>4. /\ file'.hdr = file.hdr /\ file'.run = file.run
        /\ file'.data = Append(file.data, v)
    BY <2>2, <2>3 DEF Files
  <2>5. Len(file'.data) = Len(file.data) + 1 /\ Len(file.data) <= Len(file'.data)
    <3>1. file.data \in Seq(Values) /\ Len(file.data) \in Nat
      BY <2>3 DEF Files
    <3>2. Len(Append(file.data, v)) = Len(file.data) + 1
      BY <3>1
    <3> QED BY <2>4, <3>1, <3>2
  <2> QED BY <1>1, <1>4, <2>3, <2>4, <2>5 DEF Follows
<1>5. CASE CloseFile \/ WriterDies
  <2>1. UNCHANGED file /\ wpc' \in {"closed", "dead"}
    BY <1>5 DEF CloseFile, WriterDies
  <2>2. file \in Files => Follows(file, file)
    BY DEF Follows, Files
  <2> QED BY <1>1, <2>1, <2>2 DEF Inv, Typed
<1> QED BY <1>2, <1>3, <1>4, <1>5 DEF Writer

\* mkfb appends to a file, or begins a later run.
LEMMA WriterLengths == ASSUME SizesFit, Inv, Lengths, Writer PROVE Lengths'
<1>1. PICK w : w = WriterHeader
  OBVIOUS
<1>2. w.len = HeaderLen /\ Fits(w)
  <2>1. w.len = HeaderLen /\ w.nifs = 1 /\ w.nchans = job.nchans /\ w.nsamples = 0
    BY <1>1 DEF WriterHeader
  <2>2. job.nchans \in Nat /\ HeaderLen + job.nchans * IntWrap < SizeWrap
    BY ScenariosAssumption DEF Inv, Typed, SizesFit
  <2>3. PerSample(w) = job.nchans /\ 0 < IntWrap
    BY <2>1, <2>2, SigProcFileAssumption DEF PerSample
  <2> QED BY <2>1, <2>2, <2>3 DEF Fits
<1>3. UNCHANGED <<pc, opened>> /\ (file # NoFile => file' \in Files /\ Follows(file', file))
  BY WriterFollows
<1>4. CASE Truncate
  <2>1. file' \in Files \cup {NoFile} /\ file' # NoFile /\ file'.hdr = NoHeader
    BY <1>4, WriterFollows, WriterInv DEF Truncate, Inv, Stages
  <2> QED BY <1>3, <2>1, FileStep DEF OwnLength
<1>5. CASE WriteHeader
  <2>1. file \in Files /\ file'.hdr = w /\ wpc' = "writing"
    BY <1>1, <1>5, WriterFollows DEF WriteHeader, Truncate
  <2> QED BY <1>2, <1>3, <2>1, NamesDiffer, FileStep
<1>6. CASE WriteValue
  <2>1. file \in Files /\ file'.hdr = file.hdr /\ wpc' = "writing"
    BY <1>6, WriterFollows DEF WriteValue, Truncate, WriteHeader
  <2> QED BY <1>3, <2>1, NamesDiffer, FileStep DEF Lengths
<1>7. CASE CloseFile \/ WriterDies
  <2>1. UNCHANGED file /\ wpc' \in {"closed", "dead"}
    BY <1>7 DEF CloseFile, WriterDies
  <2> QED BY <1>3, <2>1, QuietStep
<1> QED BY <1>4, <1>5, <1>6, <1>7 DEF Writer

LEMMA RewriteLengths == ASSUME Inv, Lengths, RewriteHeader PROVE Lengths'
<1>1. "editor" \in Procs
  BY DEF Procs
<1>2. CASE InFile.ro
  BY <1>1, <1>2, FailLengths DEF RewriteHeader
<1>3. CASE ~InFile.ro
  <2>1. PICK g : Rewrite(g)
    BY <1>3, Rewritten
  <2>2. Fits(Asked.hdr)
    BY <1>1, AskedHeader DEF Lengths, SoundIn
  <2>3. Fits(g) /\ g # NoHeader
    BY <2>1, <2>2, NamesDiffer DEF Fits, Rewrite
  <2>4. /\ UNCHANGED <<opened, wpc>> /\ pc' = [pc EXCEPT !["editor"] = "done"]
    BY <1>3 DEF RewriteHeader
  <2>5. \A p \in Procs : pc'[p] \in {"header", "size"} => pc[p] \in {"header", "size"}
    BY <2>4 DEF Inv, Typed
  <2>6. OwnLength(file'.hdr) /\ file'.hdr # NoHeader /\ Fits(file'.hdr)
    BY <2>1, <2>3 DEF Rewrite, OwnLength
  <2>7. Follows(file', file)
    <3>1. Len(file.data) \in Nat
      BY <2>1 DEF Rewrite, Files
    <3> QED BY <2>1, <2>6, <3>1 DEF Rewrite, Follows, OwnLength
  <2> QED BY <2>1, <2>4, <2>5, <2>6, <2>7, FileStep DEF Rewrite
<1> QED BY <1>2, <1>3

\* The reader and the editor, where they do not open or write the file.
LEMMA RestLengths ==
  ASSUME Inv, Lengths,
         \/ ReadSample \/ NextBatch \/ ReadAll \/ HaveRead \/ Compare
         \/ \E p \in Procs : LibraryCall(p)
  PROVE  Lengths'
<1>1. /\ UNCHANGED <<file, wpc, opened>>
      /\ \A q \in Procs : pc'[q] \in {pc[q], "failed", "done", "write"}
  <2>1. \A q \in Procs : UNCHANGED pc => pc'[q] = pc[q]
    OBVIOUS
  <2>2. ASSUME NEW p \in Procs, NEW next \in {"failed", "done", "write"},
               pc' = [pc EXCEPT ![p] = next]
        PROVE  \A q \in Procs : pc'[q] \in {pc[q], "failed", "done", "write"}
    BY <2>2 DEF Inv, Typed
  <2>3. "reader" \in Procs /\ "editor" \in Procs
    BY DEF Procs
  <2>4. CASE ReadSample
    BY <2>1, <2>2, <2>3, <2>4 DEF ReadSample, Fail
  <2>5. CASE NextBatch
    BY <2>1, <2>2, <2>3, <2>5 DEF NextBatch, Fail
  <2>6. CASE ReadAll
    BY <2>1, <2>2, <2>3, <2>6 DEF ReadAll, Fail
  <2>7. CASE HaveRead
    BY <2>1, <2>2, <2>3, <2>7 DEF HaveRead
  <2>8. CASE Compare
    BY <2>1, <2>2, <2>3, <2>8 DEF Compare, Fail
  <2>9. CASE \E p \in Procs : LibraryCall(p)
    BY <2>1, <2>9 DEF LibraryCall
  <2> QED BY <2>4, <2>5, <2>6, <2>7, <2>8, <2>9
<1> QED BY <1>1, QuietStep

LEMMA NextLengths == ASSUME SizesFit, Inv, Lengths, [Next]_vars PROVE Lengths'
<1>1. CASE UNCHANGED vars
  BY <1>1, QuietStep DEF vars
<1>2. CASE \E p \in Procs : Open(p)
  BY <1>2, OpenFileLengths, ReadHeaderLengths, CheckSizeLengths DEF Open
<1> QED BY <1>1, <1>2, WriterLengths, RewriteLengths, RestLengths
  DEF Next, Reader, Editor, Procs

LEMMA InitLengths == ASSUME SizesFit, Init PROVE Lengths
<1>1. job \in Scenarios /\ file = job.file /\ wpc = "new"
  BY DEF Init
<1>2. \A p \in Procs : Len(opened[p]) = 0 /\ pc[p] \in {"absent", "open"}
  BY DEF Init
<1>3. \A p \in Procs : \A j \in 1..Len(opened[p]) : FALSE
  BY <1>2
<1> QED BY <1>1, <1>2, <1>3 DEF Lengths, SizesFit

-----------------------------------------------------------------------------
(* What the reader has read.                                               *)

\* The samples of a header, and those of them that the loops have come past
\* when they are at IF f, batch p and sample n.
Coords(g) == <<g.time, g.nif, g.chan>>
All(h) == (0..(h.nsamples - 1)) \X (0..(h.nifs - 1)) \X (0..(h.nchans - 1))
Before(h, size, f, p, n) ==
  {z \in All(h) : \/ z[2] < f
                  \/ /\ z[2] = f
                     /\ \/ z[3] \div size < p
                        \/ z[3] \div size = p /\ z[1] < n}

LEMMA Quotient ==
  ASSUME NEW h \in Headers, NEW size \in Nat \ {0}, NEW c \in 0..(h.nchans - 1)
  PROVE  c \div size \in 0..(NumPieces(h.nchans, size) - 1)
<1>1. h.nchans \in Nat \ {0} /\ c \in Nat
  BY DEF Headers
<1>2. PICK q \in 0..(NumPieces(h.nchans, size) - 1) : c \in Piece(h.nchans, q, size)
  BY <1>1, PiecesPartition
<1>3. NumPieces(h.nchans, size) \in Nat \ {0}
  BY <1>1, CeilCovers DEF NumPieces
<1>4. q \in Nat
  BY <1>3
<1> QED BY <1>1, <1>2, <1>4, PieceOf

LEMMA BeforeStart ==
  ASSUME NEW h \in Headers, NEW size \in Nat \ {0}
  PROVE  Before(h, size, 0, 0, 0) = {}
<1> SUFFICES ASSUME NEW z \in Before(h, size, 0, 0, 0) PROVE FALSE
  OBVIOUS
<1>1. /\ z[1] \in 0..(h.nsamples - 1) /\ z[2] \in 0..(h.nifs - 1)
      /\ z[3] \in 0..(h.nchans - 1)
  BY DEF Before, All
<1>2. z[3] \div size >= 0
  BY <1>1, Quotient
<1> QED BY <1>1, <1>2 DEF Before

LEMMA BeforeSample ==
  ASSUME NEW h \in Headers, NEW size \in Nat \ {0}, NEW f \in 0..(h.nifs - 1),
         NEW p \in 0..(NumPieces(h.nchans, size) - 1), NEW n \in 0..(h.nsamples - 1)
  PROVE  Before(h, size, f, p, n + 1)
           = Before(h, size, f, p, n) \cup {<<n, f, c>> : c \in Piece(h.nchans, p, size)}
<1> DEFINE Now == {<<n, f, c>> : c \in Piece(h.nchans, p, size)}
<1>1. h.nchans \in Nat \ {0} /\ p \in Nat
  BY CeilCovers DEF Headers, NumPieces
<1>2. ASSUME NEW z \in All(h)
      PROVE  z \in Before(h, size, f, p, n + 1) <=> z \in Before(h, size, f, p, n) \/ z \in Now
  <2>1. /\ z[1] \in 0..(h.nsamples - 1) /\ z[2] \in 0..(h.nifs - 1)
        /\ z[3] \in 0..(h.nchans - 1) /\ z = <<z[1], z[2], z[3]>>
    BY DEF All
  <2>2. PICK q \in Int : q = z[3] \div size
    BY <2>1, Quotient
  <2>3. z[3] \in Piece(h.nchans, p, size) <=> p = q
    BY <1>1, <2>1, <2>2, PieceOf
  <2>4. z \in Now <=> z[1] = n /\ z[2] = f /\ p = q
    BY <2>1, <2>3
  <2>5. z[1] < n + 1 <=> z[1] < n \/ z[1] = n
    BY <2>1
  <2>6. z \in Before(h, size, f, p, n + 1)
          <=> z[2] < f \/ (z[2] = f /\ (q < p \/ (q = p /\ z[1] < n + 1)))
    BY <2>2 DEF Before
  <2>7. z \in Before(h, size, f, p, n)
          <=> z[2] < f \/ (z[2] = f /\ (q < p \/ (q = p /\ z[1] < n)))
    BY <2>2 DEF Before
  <2> HIDE DEF Now
  <2> QED BY <2>4, <2>5, <2>6, <2>7
<1>3. Now \subseteq All(h)
  <2>1. h.nifs \in Nat /\ size \in Nat \ {0}
    BY DEF Headers
  <2>2. ASSUME NEW c \in Piece(h.nchans, p, size) PROVE c \in 0..(h.nchans - 1)
    BY <1>1, PiecesPartition
  <2> QED BY <2>1, <2>2 DEF All
<1>4. /\ Before(h, size, f, p, n + 1) \subseteq All(h)
      /\ Before(h, size, f, p, n) \subseteq All(h)
  BY DEF Before
<1> HIDE DEF Now
<1>5. Before(h, size, f, p, n + 1) = Before(h, size, f, p, n) \cup Now
  BY <1>2, <1>3, <1>4
<1> QED BY <1>5 DEF Now

\* After the last sample the next batch begins, or the next IF.
LEMMA BeforeNext ==
  ASSUME NEW h \in Headers, NEW size \in Nat \ {0}, NEW f \in 0..(h.nifs - 1),
         NEW p \in 0..(NumPieces(h.nchans, size) - 1)
  PROVE  /\ Before(h, size, f, p, h.nsamples) = Before(h, size, f, p + 1, 0)
         /\ p + 1 >= NumPieces(h.nchans, size) =>
              Before(h, size, f, p, h.nsamples) = Before(h, size, f + 1, 0, 0)
<1>1. PICK m \in Nat : m = NumPieces(h.nchans, size)
  BY CeilCovers DEF Headers, NumPieces
<1>2. ASSUME NEW z \in All(h)
      PROVE  /\ z \in Before(h, size, f, p, h.nsamples) <=> z \in Before(h, size, f, p + 1, 0)
             /\ p + 1 >= m =>
                  (z \in Before(h, size, f, p, h.nsamples)
                     <=> z \in Before(h, size, f + 1, 0, 0))
  <2>1. /\ z[1] \in 0..(h.nsamples - 1) /\ z[2] \in 0..(h.nifs - 1)
        /\ z[3] \in 0..(h.nchans - 1) /\ h.nsamples \in Int
    BY DEF All, Headers
  <2>2. PICK q \in 0..(m - 1) : q = z[3] \div size
    BY <1>1, <2>1, Quotient
  <2>3. z \in Before(h, size, f, p, h.nsamples)
          <=> z[2] < f \/ (z[2] = f /\ (q < p \/ (q = p /\ z[1] < h.nsamples)))
    BY <2>2 DEF Before
  <2>4. z \in Before(h, size, f, p + 1, 0)
          <=> z[2] < f \/ (z[2] = f /\ (q < p + 1 \/ (q = p + 1 /\ z[1] < 0)))
    BY <2>2 DEF Before
  <2>5. z \in Before(h, size, f + 1, 0, 0)
          <=> z[2] < f + 1 \/ (z[2] = f + 1 /\ (q < 0 \/ (q = 0 /\ z[1] < 0)))
    BY <2>2 DEF Before
  <2>6. p \in Nat /\ f \in Nat
    BY <1>1
  <2>7. z \in Before(h, size, f, p, h.nsamples) <=> z \in Before(h, size, f, p + 1, 0)
    <3>1. z[1] < h.nsamples /\ ~(z[1] < 0)
      BY <2>1
    <3>2. q < p + 1 <=> q < p \/ q = p
      BY <2>2, <2>6
    <3> QED BY <2>3, <2>4, <3>1, <3>2
  <2>8. ASSUME p + 1 >= m
        PROVE  z \in Before(h, size, f, p, h.nsamples) <=> z \in Before(h, size, f + 1, 0, 0)
    <3>1. z[1] < h.nsamples /\ ~(z[1] < 0)
      BY <2>1
    <3>2. (q < p \/ q = p) /\ ~(q < 0)
      BY <2>2, <2>6, <2>8, <1>1
    <3>3. z[2] < f + 1 <=> z[2] < f \/ z[2] = f
      BY <2>1, <2>6
    <3> QED BY <2>3, <2>5, <3>1, <3>2, <3>3
  <2> QED BY <2>7, <2>8
<1> QED BY <1>1, <1>2 DEF Before

LEMMA BeforeAll ==
  ASSUME NEW h \in Headers, NEW size \in Nat \ {0}
  PROVE  Before(h, size, h.nifs, 0, 0) = All(h)
<1>1. ASSUME NEW z \in All(h) PROVE z[2] < h.nifs
  BY DEF All, Headers
<1> QED BY <1>1 DEF Before

LEMMA OffsetNat ==
  ASSUME NEW h \in Headers, NEW n \in Nat, NEW f \in Nat, NEW c \in Nat
  PROVE  Offset(h, n, f, c) \in Nat
<1>1. h.nifs \in Nat /\ h.nchans \in Nat
  BY DEF Headers
<1>2. n * h.nifs + f \in Nat
  BY <1>1, MulPositive
<1>3. (n * h.nifs + f) * h.nchans \in Nat
  BY <1>1, <1>2, MulPositive
<1> QED BY <1>3 DEF Offset

\* The place of a sample tells which one it is.
LEMMA SampleAtOffset ==
  ASSUME NEW h \in Headers, NEW n \in Nat, NEW f \in 0..(h.nifs - 1),
         NEW c \in 0..(h.nchans - 1)
  PROVE  SampleAt(h, Offset(h, n, f, c)) = <<n, f, c>>
<1>1. PICK I \in Nat \ {0}, C \in Nat \ {0} : I = h.nifs /\ C = h.nchans
  BY DEF Headers
<1>2. PICK u \in Nat : u = n * I
  BY <1>1, MulPositive
<1>3. PICK v \in Nat : v = (u + f) * C
  BY <1>1, <1>2, MulPositive
<1>4. Offset(h, n, f, c) = v + c /\ f \in Nat /\ c \in Nat /\ c \in 0..(C - 1)
  BY <1>1, <1>2, <1>3 DEF Offset
<1>5. (v + c) \div C = u + f /\ (v + c) % C = c
  <2>1. PICK r \in Nat : r = u + f
    BY <1>2, <1>4
  <2>2. v = C * r
    BY <1>1, <1>3, <2>1, MulPositive
  <2>3. (C * r + c) \div C = r /\ (C * r + c) % C = c
    BY <1>1, <1>4, <2>1, DivMod
  <2> QED BY <2>1, <2>2, <2>3
<1>6. (u + f) % I = f
  <2>1. u = I * n /\ f \in 0..(I - 1)
    BY <1>1, <1>2, MulPositive
  <2> QED BY <1>1, <2>1, DivMod
<1>7. (v + c) \div (I * C) = n
  <2>1. PICK w \in Nat : w = f * C
    BY <1>1, <1>4, MulPositive
  <2>2. PICK per \in Nat \ {0} : per = I * C
    <3>1. I * C = PerSample(h)
      BY <1>1 DEF PerSample
    <3> QED BY <3>1, PerSampleNat
  <2>3. v = per * n + w
    <3>1. v = u * C + f * C
      BY <1>1, <1>2, <1>3, <1>4, Distribute
    <3>2. n * (I * C) = (n * I) * C
      BY <1>1, Distribute
    <3>3. n * per = per * n
      BY <2>2, MulPositive
    <3> QED BY <1>2, <2>1, <2>2, <3>1, <3>2, <3>3
  <2>4. w + c \in 0..(per - 1)
    <3>1. PICK e \in Nat : e = f + 1 /\ e <= I
      BY <1>1, <1>4
    <3>2. e * C <= per
      BY <1>1, <2>2, <3>1, MulMonotone
    <3>3. e * C = w + C
      <4>1. PICK y \in Nat : y = 1
        OBVIOUS
      <4>2. (f + y) * C = f * C + y * C
        BY <1>1, <1>4, Distribute
      <4>3. y * C = C
        BY <1>1, <4>1
      <4> QED BY <2>1, <3>1, <4>1, <4>2, <4>3
    <3>4. w + C <= per /\ per \in Nat
      BY <2>2, <3>2, <3>3
    <3> QED BY <1>1, <1>4, <2>1, <3>4
  <2>5. PICK z \in 0..(per - 1) : z = w + c
    BY <2>4
  <2>6. (per * n + z) \div per = n
    BY <2>2, <2>5, DivMod
  <2>7. per * n \in Nat
    BY <2>2, MulPositive
  <2> QED BY <1>4, <2>1, <2>2, <2>3, <2>5, <2>6, <2>7
<1> QED BY <1>1, <1>4, <1>5, <1>6, <1>7 DEF SampleAt, PerSample

\* And the places of the samples of n are the first of the data.
LEMMA OffsetBelow ==
  ASSUME NEW h \in Headers, NEW n \in Nat, NEW m \in Nat, n < m,
         NEW f \in 0..(h.nifs - 1), NEW c \in 0..(h.nchans - 1)
  PROVE  Offset(h, n, f, c) < PerSample(h) * m
<1>1. PICK I \in Nat \ {0}, C \in Nat \ {0} : I = h.nifs /\ C = h.nchans
  BY DEF Headers
<1>2. PICK u \in Nat : u = n * I
  BY <1>1, MulPositive
<1>3. PICK v \in Nat : v = u + f
  BY <1>1, <1>2
<1>4. PICK w \in Nat : w = v + 1
  BY <1>3
<1>5. v * C + C = w * C /\ v * C \in Nat
  <2>1. PICK y \in Nat : y = 1
    OBVIOUS
  <2>2. (v + y) * C = v * C + y * C
    BY <1>1, <1>3, Distribute
  <2>3. y * C = C
    BY <1>1, <2>1
  <2> QED BY <1>1, <1>3, <1>4, <2>1, <2>2, <2>3, MulPositive
<1>6. PICK k \in Nat : k = m * I
  BY <1>1, MulPositive
<1>7. w <= k
  <2>1. PICK e \in Nat : e = n + 1 /\ e <= m
    OBVIOUS
  <2>2. e * I <= k
    BY <1>1, <1>6, <2>1, MulMonotone
  <2>3. e * I = u + I
    <3>1. PICK y \in Nat : y = 1
      OBVIOUS
    <3>2. (n + y) * I = n * I + y * I
      BY <1>1, Distribute
    <3>3. y * I = I
      BY <1>1, <3>1
    <3> QED BY <1>2, <2>1, <3>1, <3>2, <3>3
  <2>4. u + I <= k
    BY <2>2, <2>3
  <2> QED BY <1>1, <1>2, <1>3, <1>4, <1>6, <2>4
<1>8. w * C <= k * C
  BY <1>1, <1>4, <1>6, <1>7, MulMonotone
<1>9. k * C = PerSample(h) * m
  <2>1. PICK per \in Nat : per = I * C
    BY <1>1, MulPositive
  <2>2. (m * I) * C = m * per
    BY <1>1, <2>1, Distribute
  <2>3. m * per = per * m
    BY <2>1, MulPositive
  <2> QED BY <1>1, <1>6, <2>1, <2>2, <2>3 DEF PerSample
<1>10. PICK x \in Nat, y \in Int, z \in Int : x = v * C /\ y = w * C /\ z = k * C
  <2>1. v * C \in Nat /\ w * C \in Nat /\ k * C \in Nat
    BY <1>1, <1>3, <1>4, <1>6, MulPositive
  <2> QED BY <2>1
<1>11. x + c < z
  BY <1>1, <1>5, <1>8, <1>10
<1>12. Offset(h, n, f, c) = x + c
  BY <1>1, <1>2, <1>3, <1>10 DEF Offset
<1> QED BY <1>9, <1>10, <1>11, <1>12

\* A sample that SigProc x has read comes from its own place in the file, as
\* one of the runs since x was opened has written it.
Genuine(g, x, run) ==
  /\ g.time \in Nat /\ g.nif \in 0..(x.hdr.nifs - 1) /\ g.chan \in 0..(x.hdr.nchans - 1)
  /\ \E r \in x.run..run : g.val = <<r, Offset(x.hdr, g.time, g.nif, g.chan)>>

\* The loops over IFs, batches and samples; with a negative number of samples
\* the first batch has no end.
Walked(h, size, f, p, n, read) ==
  /\ f <= h.nifs
  /\ f < h.nifs => p < NumPieces(h.nchans, size)
  /\ f = h.nifs => p = 0 /\ n = 0
  /\ IF h.nsamples < 0 THEN f = 0
     ELSE n <= h.nsamples /\ {Coords(g) : g \in read} = Before(h, size, f, p, n)

\* One call reads everything.
Whole(h, f, read) ==
  \/ f = 0 /\ read = {}
  \/ f = h.nifs /\ {Coords(g) : g \in read} = All(h)

SoFar ==
  /\ pc["reader"] \in {"absent", "open", "header", "size"} => got = {} /\ i = 0 /\ b = 0 /\ t = 0
  /\ pc["reader"] \in {"use", "done"} => \A g \in got : Genuine(g, This("reader"), file.run)
  /\ pc["reader"] = "use" =>
       IF job.how = "channels" THEN Walked(Header, job.batch, i, b, t, got)
       ELSE Whole(Header, i, got)
  /\ pc["reader"] = "done" => {Coords(g) : g \in got} = All(Header)

LEMMA ReaderHeader ==
  ASSUME Inv, Lengths, pc["reader"] \in {"use", "done"}
  PROVE  /\ Header \in Headers /\ Fits(Header) /\ This("reader").run \in Nat
         /\ file \in Files /\ file.run \in Nat /\ This("reader").run <= file.run
         /\ job.batch \in Nat \ {0}
<1>1. "reader" \in Procs /\ Needed("reader") = 1
  BY DEF Procs, Needed
<1>2. Len(opened["reader"]) = 1 /\ file # NoFile
  BY <1>1, OpenedOf DEF StageOf
<1>3. 1 \in 1..Len(opened["reader"]) /\ This("reader") = opened["reader"][1]
  BY <1>2 DEF This
<1>4. This("reader") \in SigProcs /\ Header # NoHeader
  BY <1>1, <1>3, OpenedOf DEF StageOf, Header
<1>5. SoundIn(This("reader"), file)
  BY <1>1, <1>3 DEF Lengths
<1>6. file \in Files
  BY <1>2 DEF Inv, Typed
<1>7. file.run \in Nat
  BY <1>6 DEF Files
<1>8. job.batch \in Nat \ {0}
  BY ScenariosAssumption DEF Inv, Typed
<1> QED BY <1>4, <1>5, <1>6, <1>7, <1>8 DEF SigProcs, Header, SoundIn

LEMMA Used ==
  Inv /\ Lengths /\ pc["reader"] \in {"use", "done"}
    => Header \in Headers /\ job.batch \in Nat \ {0}
BY ReaderHeader

LEMMA UsedAfter ==
  (Inv /\ Lengths /\ pc["reader"] \in {"use", "done"}
    => Header \in Headers /\ job.batch \in Nat \ {0})'
BY Used, PTL

\* A step that leaves the reader and what it has read alone.
LEMMA OthersSoFar ==
  ASSUME Inv, Lengths, SoFar, UNCHANGED <<job, loop, opened["reader"]>>,
         pc'["reader"] \in {pc["reader"], "failed"},
         pc["reader"] \in {"use", "done"} => file'.run \in Nat /\ file.run <= file'.run
  PROVE  SoFar'
<1>1. UNCHANGED <<i, b, t, got>> /\ This("reader")' = This("reader") /\ Header' = Header
  BY DEF loop, This, Header
<1>2. ASSUME pc["reader"] \in {"use", "done"}, NEW g \in got
      PROVE  Genuine(g, This("reader"), file'.run)
  <2>1. Genuine(g, This("reader"), file.run)
    BY <1>2 DEF SoFar
  <2>2. This("reader").run..file.run \subseteq This("reader").run..file'.run
    BY <1>2, ReaderHeader
  <2> QED BY <2>1, <2>2 DEF Genuine
<1> QED BY <1>1, <1>2 DEF SoFar

\* Nobody takes the file back to an earlier run.
LEMMA RunsGrow ==
  ASSUME Inv, file # NoFile, Writer \/ RewriteHeader
  PROVE  file'.run \in Nat /\ file.run <= file'.run
<1>1. file \in Files /\ file.run \in Nat
  <2>1. file \in Files
    BY DEF Inv, Typed
  <2> QED BY <2>1 DEF Files
<1>2. CASE Truncate
  BY <1>1, <1>2 DEF Truncate, LastRun
<1>3. CASE WriteHeader
  <2>1. PICK h : h = WriterHeader
    OBVIOUS
  <2>2. file' = [file EXCEPT !.hdr = h]
    BY <1>3, <2>1 DEF WriteHeader
  <2> QED BY <1>1, <2>2 DEF Files
<1>4. CASE WriteValue
  <2>1. PICK d : file' = [file EXCEPT !.data = d]
    BY <1>4 DEF WriteValue
  <2> QED BY <1>1, <2>1 DEF Files
<1>5. CASE CloseFile \/ WriterDies
  BY <1>1, <1>5 DEF CloseFile, WriterDies
<1>6. CASE RewriteHeader
  <2>1. CASE InFile.ro
    BY <1>1, <1>6, <2>1 DEF RewriteHeader
  <2>2. CASE ~InFile.ro
    BY <1>1, <1>6, <2>2, Rewritten DEF Rewrite
  <2> QED BY <2>1, <2>2
<1> QED BY <1>2, <1>3, <1>4, <1>5, <1>6 DEF Writer

LEMMA FailSoFar ==
  ASSUME Inv, Lengths, SoFar, NEW reason, Fail("reader", reason)
  PROVE  SoFar'
<1>1. pc'["reader"] = "failed"
  BY DEF Fail, Inv, Typed, Procs
<1> QED BY <1>1 DEF SoFar

\* Others than the reader.
LEMMA RestSoFar ==
  ASSUME Inv, Lengths, SoFar,
         Writer \/ Editor \/ \E p \in Procs : LibraryCall(p)
  PROVE  SoFar'
<1>1. "reader" \in Procs /\ "editor" \in Procs
  BY DEF Procs
<1>2. pc["reader"] \in {"use", "done"} => file # NoFile /\ file.run \in Nat
  BY ReaderHeader, NamesDiffer
<1>3. CASE Writer
  <2>1. UNCHANGED <<job, pc, opened, loop>>
    BY <1>3 DEF Writer, Truncate, WriteHeader, WriteValue, CloseFile, WriterDies
  <2> QED BY <1>2, <1>3, <2>1, RunsGrow, OthersSoFar
<1>4. CASE Editor
  <2>1. UNCHANGED <<job, loop>>
    BY <1>4 DEF Editor, Open, OpenFile, ReadHeader, CheckSize, Compare, RewriteHeader, Fail
  <2>2. ASSUME NEW next, pc' = [pc EXCEPT !["editor"] = next]
        PROVE  pc'["reader"] = pc["reader"]
    BY <2>2 DEF Inv, Typed, Procs
  <2>3. ASSUME NEW next, opened' = [opened EXCEPT !["editor"] = next]
        PROVE  opened'["reader"] = opened["reader"]
    BY <2>3 DEF Inv, Typed, Procs
  <2>4. CASE Open("editor")
    <3>1. CASE \E reason : Fail("editor", reason)
      <4>1. UNCHANGED <<file, opened>> /\ pc'["reader"] = pc["reader"]
        BY <2>2, <2>4, <3>1 DEF Open, OpenFile, ReadHeader, CheckSize, Fail
      <4> QED BY <1>2, <2>1, <4>1, OthersSoFar
    <3>2. CASE \E n : pc' = [pc EXCEPT !["editor"] = n]
      <4>1. pc'["reader"] = pc["reader"]
        BY <2>2, <3>2
      <4>2. UNCHANGED file
        BY <2>4 DEF Open, OpenFile, ReadHeader, CheckSize
      <4>3. opened'["reader"] = opened["reader"]
        BY <2>3, <2>4 DEF Open, OpenFile, ReadHeader, CheckSize, Fail, Inv, Typed, Procs
      <4> QED BY <1>2, <2>1, <4>1, <4>2, <4>3, OthersSoFar
    <3> QED BY <2>4, <3>1, <3>2 DEF Open, OpenFile, ReadHeader, CheckSize
  <2>5. CASE Compare
    <3>1. UNCHANGED <<file, opened>> /\ pc'["reader"] = pc["reader"]
      BY <2>2, <2>5 DEF Compare, Fail
    <3> QED BY <1>2, <2>1, <3>1, OthersSoFar
  <2>6. CASE RewriteHeader
    <3>1. UNCHANGED opened /\ pc'["reader"] = pc["reader"]
      BY <2>2, <2>6 DEF RewriteHeader, Fail
    <3> QED BY <1>2, <2>1, <2>6, <3>1, RunsGrow, OthersSoFar
  <2> QED BY <1>4, <2>4, <2>5, <2>6 DEF Editor
<1>5. CASE \E p \in Procs : LibraryCall(p)
  <2>1. UNCHANGED <<job, file, pc, opened, loop>>
    BY <1>5 DEF LibraryCall
  <2> QED BY <1>2, <2>1, OthersSoFar
<1> QED BY <1>3, <1>4, <1>5

\* The reader, as long as it opens the file.
LEMMA OpeningSoFar ==
  ASSUME Inv, Inv', Lengths', SoFar, Open("reader") PROVE SoFar'
<1>1. /\ UNCHANGED <<job, loop>> /\ pc["reader"] \in {"open", "header", "size"}
      /\ pc'["reader"] \in {"open", "header", "size", "use", "failed"}
  <2>1. \A next : pc' = [pc EXCEPT !["reader"] = next] => pc'["reader"] = next
    BY DEF Inv, Typed, Procs
  <2>2. CASE OpenFile("reader")
    BY <2>1, <2>2 DEF OpenFile, Fail
  <2>3. CASE ReadHeader("reader")
    BY <2>1, <2>3 DEF ReadHeader, Fail
  <2>4. CASE CheckSize("reader")
    BY <2>1, <2>4 DEF CheckSize, Fail
  <2> QED BY <2>2, <2>3, <2>4 DEF Open
<1>2. i' = 0 /\ b' = 0 /\ t' = 0 /\ got' = {}
  BY <1>1 DEF SoFar, loop
<1>3. CASE pc'["reader"] # "use"
  BY <1>1, <1>2, <1>3 DEF SoFar
<1>4. CASE pc'["reader"] = "use"
  <2>1. Header' \in Headers /\ job'.batch \in Nat \ {0}
    BY <1>4, UsedAfter
  <2>2. PICK h \in Headers, size \in Nat \ {0} : h = Header' /\ size = job'.batch
    BY <2>1
  <2>3. h.nifs \in Nat \ {0} /\ h.nchans \in Nat \ {0} /\ h.nsamples \in Int
    BY DEF Headers
  <2>4. 0 < NumPieces(h.nchans, size)
    <3>1. CeilDiv(h.nchans, size) \in Nat \ {0}
      BY <2>2, <2>3, CeilCovers
    <3> QED BY <3>1 DEF NumPieces
  <2>5. Before(h, size, 0, 0, 0) = {}
    BY BeforeStart
  <2>6. Walked(h, size, 0, 0, 0, {}) /\ Whole(h, 0, {})
    BY <2>3, <2>4, <2>5 DEF Walked, Whole
  <2> QED BY <1>2, <1>4, <2>2, <2>6 DEF SoFar
<1> QED BY <1>3, <1>4

\* Where the reader is in its loops.
LEMMA Walking ==
  ASSUME Inv, Lengths, SoFar, Reading, job.how = "channels", i < Header.nifs
  PROVE  /\ Header \in Headers /\ job.batch \in Nat \ {0}
         /\ i \in 0..(Header.nifs - 1) /\ t \in Nat
         /\ b \in 0..(NumPieces(Header.nchans, job.batch) - 1)
         /\ Walked(Header, job.batch, i, b, t, got)
<1>1. Header \in Headers /\ job.batch \in Nat \ {0}
  BY ReaderHeader DEF Reading
<1>2. PICK h \in Headers, size \in Nat \ {0} : h = Header /\ size = job.batch
  BY <1>1
<1>3. h.nifs \in Nat \ {0} /\ h.nchans \in Nat \ {0}
  BY <1>2 DEF Headers
<1>4. Walked(h, size, i, b, t, got)
  BY <1>2 DEF SoFar, Reading
<1>5. CeilDiv(h.nchans, size) \in Nat \ {0}
  BY <1>2, <1>3, CeilCovers
<1>6. i \in Nat /\ b \in Nat /\ t \in Nat
  BY DEF Inv, Typed
<1>7. b < NumPieces(h.nchans, size) /\ NumPieces(h.nchans, size) \in Nat
  BY <1>2, <1>4, <1>5 DEF Walked, NumPieces
<1> QED BY <1>2, <1>3, <1>4, <1>6, <1>7

\* What stands at the place of a sample is the value that was written there.
LEMMA TakenGenuine ==
  ASSUME Inv, Lengths, Reading, NEW n \in Nat, NEW f \in 0..(Header.nifs - 1),
         NEW c \in 0..(Header.nchans - 1), Offset(Header, n, f, c) < Len(file.data)
  PROVE  Genuine(Taken(n, f, c), This("reader"), file.run)
<1>1. /\ Header \in Headers /\ This("reader").run \in Nat /\ file \in Files
      /\ file.run \in Nat /\ This("reader").run <= file.run /\ This("reader").hdr = Header
  BY ReaderHeader DEF Reading, Header
<1>2. f \in Nat /\ c \in Nat
  BY <1>1 DEF Headers
<1>3. PICK o \in Nat : o = Offset(Header, n, f, c)
  BY <1>1, <1>2, OffsetNat
<1>4. o + 1 \in DOMAIN file.data /\ (o + 1) - 1 = o
  <2>1. file.data \in Seq(Values) /\ Len(file.data) \in Nat
    BY <1>1 DEF Files
  <2> QED BY <1>3, <2>1
<1>5. file.data[o + 1] = <<file.run, o>>
  BY <1>1, <1>4, NamesDiffer DEF Inv, DataIntact
<1>6. PICK g : g = Taken(n, f, c)
  OBVIOUS
<1>7. g.time = n /\ g.nif = f /\ g.chan = c /\ g.val = <<file.run, o>>
  BY <1>3, <1>5, <1>6 DEF Taken
<1>8. file.run \in This("reader").run..file.run
  BY <1>1
<1>9. Genuine(g, This("reader"), file.run)
  BY <1>1, <1>3, <1>7, <1>8 DEF Genuine
<1> QED BY <1>6, <1>9

LEMMA ReadSampleSoFar ==
  ASSUME Inv, Lengths, SoFar, ReadSample PROVE SoFar'
<1>1. CASE Fail("reader", "read")
  BY <1>1, FailSoFar
<1>2. CASE ~Fail("reader", "read")
  <2>1. PICK h \in Headers, size \in Nat \ {0} : h = Header /\ size = job.batch
    BY Walking DEF ReadSample
  <2>2. /\ i \in 0..(h.nifs - 1) /\ b \in 0..(NumPieces(h.nchans, size) - 1) /\ t \in Nat
        /\ Walked(h, size, i, b, t, got)
    BY <2>1, Walking DEF ReadSample
  <2>3. h.nifs \in Nat \ {0} /\ h.nchans \in Nat \ {0} /\ h.nsamples \in Int
    BY <2>1 DEF Headers
  <2> DEFINE More == {Taken(t, i, c) : c \in Piece(h.nchans, b, size)}
  <2>4. /\ got' = got \cup More /\ t' = t + 1
        /\ UNCHANGED <<pc, opened, job, file, i, b>> /\ job.how = "channels"
        /\ Present(Offset(h, t, i, First(b, size)), Length(h.nchans, b, size))
    BY <1>2, <2>1 DEF ReadSample, Forward, InBatch
  <2>5. pc["reader"] = "use" /\ (t < h.nsamples \/ h.nsamples < 0)
    BY <2>1 DEF ReadSample, Reading, MoreTimes
  <2>6. ASSUME NEW c \in Piece(h.nchans, b, size)
        PROVE  /\ c \in 0..(h.nchans - 1)
               /\ Offset(h, t, i, c) < Len(file.data)
    <3>1. c \in 0..(h.nchans - 1)
      BY <2>1, <2>2, <2>3, PiecesPartition
    <3>2. PICK x \in Nat : x = First(b, size)
      <4>1. b \in Nat /\ size \in Nat
        BY <2>1, <2>2
      <4> QED BY <4>1, MulPositive DEF First
    <3>3. PICK u \in Nat : u = (t * h.nifs + i) * h.nchans
      <4>1. PICK v \in Nat : v = t * h.nifs
        BY <2>2, <2>3, MulPositive
      <4>2. v + i \in Nat
        BY <2>2, <4>1
      <4> QED BY <2>3, <4>1, <4>2, MulPositive
    <3>4. Length(h.nchans, b, size) \in Int
      BY <2>1, <2>3, <3>2 DEF Length, LesserOf
    <3>5. c <= x + Length(h.nchans, b, size) - 1 /\ c \in Int
      BY <3>2, <3>4 DEF Piece
    <3>6. u + x + Length(h.nchans, b, size) <= Len(file.data) /\ file \in Files
      BY <2>1, <2>4, <2>5, <3>2, <3>3, ReaderHeader DEF Present, Offset
    <3>7. Len(file.data) \in Nat
      BY <3>6 DEF Files
    <3>8. Offset(h, t, i, c) = u + c
      BY <3>3 DEF Offset
    <3>9. PICK l \in Int, k \in Nat : l = Length(h.nchans, b, size) /\ k = Len(file.data)
      BY <3>4, <3>7
    <3>10. c <= x + l - 1 /\ u + x + l <= k
      BY <3>5, <3>6, <3>9
    <3>11. u \in Nat /\ x \in Nat /\ c \in Int /\ l \in Int /\ k \in Nat
      BY <3>2, <3>3, <3>5, <3>9
    <3>12. u + c < k
      BY <3>10, <3>11
    <3> QED BY <3>1, <3>8, <3>9, <3>12
  <2>7. ASSUME NEW g \in got' PROVE Genuine(g, This("reader"), file.run)
    <3>1. CASE g \in got
      BY <2>5, <3>1 DEF SoFar
    <3>2. CASE g \notin got
      <4>1. PICK c \in Piece(h.nchans, b, size) : g = Taken(t, i, c)
        BY <2>4, <3>2
      <4> QED BY <2>1, <2>2, <2>5, <2>6, <4>1, TakenGenuine DEF Reading
    <3> QED BY <3>1, <3>2
  <2>8. ASSUME ~(h.nsamples < 0)
        PROVE  {Coords(g) : g \in got'} = Before(h, size, i, b, t + 1)
    <3>1. t \in 0..(h.nsamples - 1)
      BY <2>2, <2>3, <2>5, <2>8
    <3>2. {Coords(g) : g \in got} = Before(h, size, i, b, t)
      BY <2>2, <2>8 DEF Walked
    <3>3. {Coords(g) : g \in More} = {<<t, i, c>> : c \in Piece(h.nchans, b, size)}
      <4>1. \A c : Coords(Taken(t, i, c)) = <<t, i, c>>
        BY DEF Coords, Taken
      <4> QED BY <4>1
    <3>4. {Coords(g) : g \in got'} = {Coords(g) : g \in got} \cup {Coords(g) : g \in More}
      BY <2>4
    <3>5. Before(h, size, i, b, t + 1)
            = Before(h, size, i, b, t) \cup {<<t, i, c>> : c \in Piece(h.nchans, b, size)}
      BY <2>1, <2>2, <3>1, BeforeSample
    <3> HIDE DEF More
    <3> QED BY <3>2, <3>3, <3>4, <3>5
  <2>9. Walked(h, size, i, b, t + 1, got')
    <3>1. ~(h.nsamples < 0) => t + 1 <= h.nsamples
      BY <2>2, <2>3, <2>5
    <3>2. i < h.nifs /\ ~(i = h.nifs)
      BY <2>2, <2>3
    <3> QED BY <2>2, <2>8, <3>1, <3>2 DEF Walked
  <2>10. Header' = h /\ This("reader")' = This("reader") /\ job'.batch = size
    BY <2>1, <2>4 DEF Header, This
  <2> QED BY <2>4, <2>5, <2>7, <2>9, <2>10 DEF SoFar
<1> QED BY <1>1, <1>2

LEMMA NextBatchSoFar ==
  ASSUME Inv, Lengths, SoFar, NextBatch PROVE SoFar'
<1>1. CASE errno["reader"]
  BY <1>1, FailSoFar DEF NextBatch
<1>2. CASE ~errno["reader"]
  <2>1. PICK h \in Headers, size \in Nat \ {0} : h = Header /\ size = job.batch
    BY Walking DEF NextBatch
  <2>2. /\ i \in 0..(h.nifs - 1) /\ b \in 0..(NumPieces(h.nchans, size) - 1) /\ t \in Nat
        /\ Walked(h, size, i, b, t, got)
    BY <2>1, Walking DEF NextBatch
  <2>3. /\ h.nifs \in Nat \ {0} /\ h.nchans \in Nat \ {0} /\ h.nsamples \in Int
        /\ i \in Nat /\ b \in Nat
    BY <2>1, <2>2 DEF Headers
  <2>4. /\ t' = 0 /\ UNCHANGED <<pc, opened, job, file, got>> /\ job.how = "channels"
        /\ IF b + 1 < NumPieces(h.nchans, size) THEN b' = b + 1 /\ i' = i
           ELSE b' = 0 /\ i' = i + 1
    BY <1>2, <2>1 DEF NextBatch
  <2>5. pc["reader"] = "use" /\ ~(t < h.nsamples) /\ ~(h.nsamples < 0)
    BY <2>1 DEF NextBatch, Reading, MoreTimes
  <2>6. PICK m \in Nat \ {0} : m = NumPieces(h.nchans, size)
    BY <2>1, <2>3, CeilCovers DEF NumPieces
  <2>7. {Coords(g) : g \in got} = Before(h, size, i, b, h.nsamples)
    <3>1. t = h.nsamples
      BY <2>2, <2>3, <2>5 DEF Walked
    <3> QED BY <2>2, <2>5, <3>1 DEF Walked
  <2>8. Walked(h, size, i', b', 0, got)
    <3>1. CASE b + 1 < m
      <4>1. Before(h, size, i, b, h.nsamples) = Before(h, size, i, b + 1, 0)
        BY <2>1, <2>2, BeforeNext
      <4>2. i < h.nifs /\ ~(i = h.nifs) /\ 0 <= h.nsamples
        BY <2>2, <2>3, <2>5
      <4>3. i' = i /\ b' = b + 1
        BY <2>4, <2>6, <3>1
      <4> QED BY <2>3, <2>5, <2>6, <2>7, <3>1, <4>1, <4>2, <4>3 DEF Walked
    <3>2. CASE ~(b + 1 < m)
      <4>1. Before(h, size, i, b, h.nsamples) = Before(h, size, i + 1, 0, 0)
        <5>1. b + 1 >= NumPieces(h.nchans, size)
          BY <2>3, <2>6, <3>2
        <5> QED BY <2>1, <2>2, <5>1, BeforeNext
      <4>2. i + 1 <= h.nifs /\ 0 < m /\ 0 <= h.nsamples
        BY <2>2, <2>3, <2>5, <2>6
      <4>3. i' = i + 1 /\ b' = 0
        BY <2>4, <2>6, <3>2
      <4> QED BY <2>3, <2>5, <2>6, <2>7, <3>2, <4>1, <4>2, <4>3 DEF Walked
    <3> QED BY <3>1, <3>2
  <2>9. Header' = h /\ This("reader")' = This("reader") /\ job'.batch = size
    BY <2>1, <2>4 DEF Header, This
  <2>10. \A g \in got : Genuine(g, This("reader"), file.run)
    BY <2>5 DEF SoFar
  <2> QED BY <2>4, <2>5, <2>8, <2>9, <2>10 DEF SoFar
<1> QED BY <1>1, <1>2

\* What the header says is there, if its size is.
LEMMA SizeOfAll ==
  ASSUME NEW h \in Headers, Fits(h), h.nsamples > 0
  PROVE  Elements(h) = PerSample(h) * h.nsamples /\ DataSize(h) = Elements(h)
<1>1. SizeWrap \in Nat \ {0} /\ IntWrap \in Nat \ {0} /\ h.len \in Nat
      /\ PerSample(h) \in Nat \ {0}
  BY SigProcFileAssumption, PerSampleNat DEF Headers
<1>2. PICK n \in Nat : n = h.nsamples /\ n <= IntWrap
  BY <1>1 DEF Fits, Headers
<1>3. PICK u \in Nat, v \in Nat : u = PerSample(h) * n /\ v = PerSample(h) * IntWrap /\ u <= v
  BY <1>1, <1>2, MulMonotone, MulPositive
<1>4. u < SizeWrap
  <2>1. h.len + v < SizeWrap
    BY <1>3 DEF Fits
  <2>2. u \in Nat /\ v \in Nat /\ u <= v
    BY <1>3
  <2> QED BY <1>1, <2>1, <2>2
<1>5. u % SizeWrap = u
  BY <1>1, <1>3, <1>4, ModAtMost
<1>6. ~(h.nsamples = -1)
  OBVIOUS
<1> QED BY <1>2, <1>3, <1>5, <1>6 DEF DataSize, Elements

LEMMA ReadAllSoFar ==
  ASSUME Inv, Lengths, SoFar, ReadAll PROVE SoFar'
<1>1. CASE Fail("reader", "read")
  BY <1>1, FailSoFar
<1>2. CASE ~Fail("reader", "read")
  <2>1. PICK h \in Headers : h = Header /\ Fits(h)
    BY ReaderHeader DEF ReadAll, Reading
  <2>2. h.nifs \in Nat \ {0} /\ h.nchans \in Nat \ {0} /\ h.nsamples \in Int
    BY <2>1 DEF Headers
  <2>3. /\ Present(0, Elements(h)) /\ i' = h.nifs
        /\ got' = {Taken(n, f, c) : n \in 0..(h.nsamples - 1),
                     f \in 0..(h.nifs - 1), c \in 0..(h.nchans - 1)}
        /\ UNCHANGED <<pc, opened, job, file>> /\ job.how # "channels"
    BY <1>2, <2>1 DEF ReadAll
  <2>4. pc["reader"] = "use"
    BY DEF ReadAll, Reading
  <2>5. ASSUME NEW g \in got' PROVE Genuine(g, This("reader"), file.run)
    <3>1. PICK n \in 0..(h.nsamples - 1), f \in 0..(h.nifs - 1), c \in 0..(h.nchans - 1) :
            g = Taken(n, f, c)
      BY <2>3
    <3>2. n \in Nat /\ h.nsamples \in Nat /\ n < h.nsamples /\ h.nsamples > 0
      BY <2>2
    <3>3. Offset(h, n, f, c) < PerSample(h) * h.nsamples
      BY <2>1, <3>2, OffsetBelow
    <3>4. PICK u : u = PerSample(h) * h.nsamples
      OBVIOUS
    <3>5. Elements(h) = u
      BY <2>1, <3>2, <3>4, SizeOfAll
    <3>6. u \in Nat
      <4>1. PerSample(h) \in Nat
        BY <2>1, PerSampleNat
      <4> QED BY <3>2, <3>4, <4>1, MulPositive
    <3>7. u <= Len(file.data) /\ Len(file.data) \in Nat
      <4>1. file \in Files
        BY <2>4, ReaderHeader
      <4> QED BY <2>3, <3>5, <3>6, <4>1 DEF Present, Files
    <3>8. f \in Nat /\ c \in Nat
      BY <2>2
    <3>9. Offset(h, n, f, c) \in Nat /\ Offset(h, n, f, c) < u
      BY <2>1, <3>2, <3>3, <3>4, <3>8, OffsetNat
    <3>10. Offset(h, n, f, c) < Len(file.data)
      BY <3>6, <3>7, <3>9
    <3> QED BY <2>1, <2>4, <3>1, <3>2, <3>10, TakenGenuine DEF Reading
  <2>6. {Coords(g) : g \in got'} = All(h)
    <3>1. \A n, f, c : Coords(Taken(n, f, c)) = <<n, f, c>>
      BY DEF Coords, Taken
    <3>2. ASSUME NEW g \in got' PROVE Coords(g) \in All(h)
      BY <2>3, <3>1 DEF All
    <3>3. ASSUME NEW z \in All(h) PROVE \E g \in got' : z = Coords(g)
      <4>1. PICK n \in 0..(h.nsamples - 1), f \in 0..(h.nifs - 1),
                 c \in 0..(h.nchans - 1) : z = <<n, f, c>>
        BY DEF All
      <4>2. Taken(n, f, c) \in got'
        BY <2>3
      <4> QED BY <3>1, <4>1, <4>2
    <3> QED BY <3>2, <3>3
  <2>7. Header' = h /\ This("reader")' = This("reader")
    BY <2>1, <2>3 DEF Header, This
  <2> QED BY <2>3, <2>4, <2>5, <2>6, <2>7 DEF SoFar, Whole
<1> QED BY <1>1, <1>2

LEMMA HaveReadSoFar ==
  ASSUME Inv, Lengths, SoFar, HaveRead PROVE SoFar'
<1>1. PICK h \in Headers, size \in Nat \ {0} : h = Header /\ size = job.batch
  BY ReaderHeader DEF HaveRead, Reading
<1>2. h.nifs \in Nat \ {0}
  BY <1>1 DEF Headers
<1>3. /\ pc["reader"] = "use" /\ i = h.nifs /\ pc'["reader"] = "done"
      /\ UNCHANGED <<job, file, opened, loop>>
  BY <1>1 DEF HaveRead, Reading, Inv, Typed, Procs
<1>4. {Coords(g) : g \in got} = All(h)
  <2>1. CASE job.how = "channels"
    <3>1. Walked(h, size, h.nifs, b, t, got)
      BY <1>1, <1>3, <2>1 DEF SoFar
    <3>2. b = 0 /\ t = 0 /\ ~(h.nsamples < 0)
      BY <1>2, <3>1 DEF Walked
    <3>3. {Coords(g) : g \in got} = Before(h, size, h.nifs, 0, 0)
      BY <3>1, <3>2 DEF Walked
    <3> QED BY <1>1, <3>3, BeforeAll
  <2>2. CASE job.how # "channels"
    BY <1>1, <1>2, <1>3, <2>2 DEF SoFar, Whole
  <2> QED BY <2>1, <2>2
<1>5. Header' = h /\ This("reader")' = This("reader") /\ got' = got
  BY <1>1, <1>3 DEF Header, This, loop
<1> QED BY <1>3, <1>4, <1>5 DEF SoFar

LEMMA NextSoFar ==
  ASSUME Inv, Lengths, Inv', Lengths', SoFar, [Next]_vars PROVE SoFar'
<1>1. CASE UNCHANGED vars
  BY <1>1 DEF vars, loop, SoFar, Header, This
<1>2. CASE Reader
  BY <1>2, OpeningSoFar, ReadSampleSoFar, NextBatchSoFar, ReadAllSoFar, HaveReadSoFar
  DEF Reader
<1> QED BY <1>1, <1>2, RestSoFar DEF Next

LEMMA InitSoFar == ASSUME Init PROVE SoFar
<1>1. pc["reader"] \in {"absent", "open"}
  BY DEF Init, Procs
<1> QED BY <1>1 DEF Init, SoFar

-----------------------------------------------------------------------------
(* Headers that one process writes and another reads.                      *)

\* How many values a sample of the file has, in whatever header.
Shape == IF job.mkfb THEN job.nchans ELSE PerSample(Understood(job.file.hdr))
Shaped(h) ==
  /\ PerSample(h) = Shape /\ (h.type = 2 => h.nchans = 1)
  /\ job.mkfb => h.type = 1 /\ h.bits = 32 /\ h.nifs = 1 /\ h.len = HeaderLen

\* A number of samples in a header of the file's own run is there.
Enough(h, fl) ==
  h.of = fl.run /\ h.nsamples > 0 => PerSample(h) * h.nsamples <= Len(fl.data)

FileKept(fl) ==
  /\ fl.hdr # NoHeader =>
       /\ Shaped(Understood(fl.hdr))
       /\ job.mkfb => Enough(Understood(fl.hdr), fl)
  /\ job.mkfb => Len(fl.data) <= MaxSpectra * job.nchans

\* What SigProc x, of which the samples may be counted, says of the file fl.
Settled(p, j) == j < Len(opened[p]) \/ pc[p] \in {"open", "use", "write", "done"}
KeptIn(x, settled, fl) ==
  /\ x.hdr = NoHeader => x.run = 0
  /\ x.hdr # NoHeader => Shaped(x.hdr)
  /\ settled => -IntWrap <= 2 * x.hdr.nsamples
  /\ job.mkfb /\ x.hdr # NoHeader /\ x.run = fl.run =>
       /\ Enough(x.hdr, fl)
       /\ settled => x.size > 0 /\ x.hdr.nsamples >= 0

Kept ==
  /\ wpc # "new" => job.mkfb
  /\ file # NoFile => FileKept(file)
  /\ \A p \in Procs : \A j \in 1..Len(opened[p]) : KeptIn(opened[p][j], Settled(p, j), file)

\* Only the editor puts a header over a file that mkfb has just created; so
\* what it has found in the file before is there until mkfb is started again.
Seen ==
  /\ wpc = "created" /\ pc["editor"] # "done" => file.hdr = NoHeader
  /\ Len(opened["editor"]) = 2 /\ InFile.hdr # NoHeader /\ InFile.run = file.run =>
       /\ pc["editor"] = "size" => InFile.hdr = Understood(file.hdr)
       /\ pc["editor"] \in {"use", "write"} =>
            InFile.hdr = WithSamples(Understood(file.hdr), InFile.size)
  /\ pc["editor"] = "write" => DataSize(InFile.hdr) = DataSize(Asked.hdr)

\* What the reader fails of: the file is of a later run, or its header was of
\* an earlier one.
Excused ==
  /\ ~job.noisy => \A p \in Procs : ~errno[p]
  /\ pc["reader"] = "header" => This("reader").run = 0
  /\ job.mkfb /\ job.how = "channels" /\ ~job.noisy /\ pc["reader"] = "failed" =>
       \/ Len(opened["reader"]) = 0
       \/ This("reader").run < file.run
       \/ This("reader").hdr.of # This("reader").run

LEMMA UnderstoodFields ==
  ASSUME NEW h \in Headers
  PROVE  LET g == Understood(h) IN
         /\ g \in Headers /\ g.type = h.type /\ g.bits = h.bits /\ g.nifs = h.nifs
         /\ g.nchans = (IF h.type = 2 THEN 1 ELSE h.nchans)
         /\ g.nsamples = (IF h.nsamples = 0 THEN -1 ELSE h.nsamples)
         /\ g.len = h.len /\ g.of = h.of
<1> DEFINE g == [h EXCEPT !.nchans = IF h.type = 2 THEN 1 ELSE @]
<1>1. /\ g \in Headers /\ g.type = h.type /\ g.bits = h.bits /\ g.nifs = h.nifs
      /\ g.nchans = (IF h.type = 2 THEN 1 ELSE h.nchans)
      /\ g.nsamples = h.nsamples /\ g.len = h.len /\ g.of = h.of
  BY DEF Headers
<1>2. Understood(h) = [g EXCEPT !.nsamples = IF @ = 0 THEN -1 ELSE @]
  BY <1>1 DEF Understood
<1> HIDE DEF g
<1>3. PICK n \in Int : n = (IF g.nsamples = 0 THEN -1 ELSE g.nsamples)
  BY <1>1 DEF Headers
<1>4. Understood(h) = [g EXCEPT !.nsamples = n]
  BY <1>2, <1>3
<1>5. PICK u : u = Understood(h)
  OBVIOUS
<1>6. /\ u \in Headers /\ u.type = g.type /\ u.bits = g.bits /\ u.nifs = g.nifs
      /\ u.nchans = g.nchans /\ u.nsamples = n /\ u.len = g.len /\ u.of = g.of
  BY <1>1, <1>3, <1>4, <1>5 DEF Headers
<1> QED BY <1>1, <1>3, <1>5, <1>6

LEMMA WithSamplesFields ==
  ASSUME NEW h \in Headers, NEW size \in Int
  PROVE  LET g == WithSamples(h, size) IN
         /\ g \in Headers /\ g.type = h.type /\ g.bits = h.bits /\ g.nifs = h.nifs
         /\ g.nchans = h.nchans /\ g.len = h.len /\ g.of = h.of
         /\ -IntWrap <= 2 * g.nsamples
         /\ h.nsamples > 0 => g = h
<1>1. CASE h.nsamples > 0
  <2>1. WithSamples(h, size) = h
    BY <1>1 DEF WithSamples
  <2>2. -IntWrap <= 2 * h.nsamples
    BY <1>1, SigProcFileAssumption DEF Headers
  <2> QED BY <2>1, <2>2
<1>2. CASE ~(h.nsamples > 0)
  <2>1. PICK y : y = ((size - h.len) % SizeWrap) \div PerSample(h)
    OBVIOUS
  <2>2. y \in Nat
    <3>1. size - h.len \in Int
      BY DEF Headers
    <3>2. (size - h.len) % SizeWrap \in Nat
      BY <3>1, SigProcFileAssumption
    <3> QED BY <2>1, <3>2, PerSampleNat, DivParts
  <2>3. PICK n \in Int : n = AsInt(y) /\ -IntWrap <= 2 * n
    BY <2>2, AsIntBounds
  <2>4. PICK u : u = WithSamples(h, size)
    OBVIOUS
  <2>5. u = [h EXCEPT !.nsamples = n]
    BY <1>2, <2>1, <2>3, <2>4 DEF WithSamples
  <2>6. /\ u \in Headers /\ u.type = h.type /\ u.bits = h.bits /\ u.nifs = h.nifs
        /\ u.nchans = h.nchans /\ u.len = h.len /\ u.of = h.of /\ u.nsamples = n
    BY <2>5 DEF Headers
  <2> QED BY <1>2, <2>3, <2>4, <2>6
<1> QED BY <1>1, <1>2

\* A file that has the samples of its header is not too short.
LEMMA NotShort ==
  ASSUME NEW h \in Headers, Fits(h), h.nsamples >= 0, NEW count \in Nat,
         PerSample(h) * h.nsamples <= count
  PROVE  ~Short(h, h.len + count)
<1>1. SizeWrap \in Nat \ {0} /\ IntWrap \in Nat \ {0} /\ h.len \in Nat
      /\ PerSample(h) \in Nat \ {0}
  BY SigProcFileAssumption, PerSampleNat DEF Headers
<1>2. PICK n \in Nat : n = h.nsamples /\ n <= IntWrap
  BY <1>1 DEF Fits, Headers
<1>3. PICK u \in Nat, v \in Nat : u = PerSample(h) * n /\ v = PerSample(h) * IntWrap /\ u <= v
  BY <1>1, <1>2, MulMonotone, MulPositive
<1>4. u <= count
  BY <1>2, <1>3
<1>5. h.len + v < SizeWrap
  BY <1>3 DEF Fits
<1>6. u \in Nat /\ v \in Nat /\ u <= v
  BY <1>3
<1>7. PICK w \in Nat : w = u + h.len /\ w < SizeWrap
  BY <1>1, <1>5, <1>6
<1>8. u < SizeWrap
  BY <1>1, <1>6, <1>7
<1>9. u % SizeWrap = u /\ w % SizeWrap = w
  BY <1>1, <1>6, <1>7, <1>8, ModAtMost
<1>10. ~(h.nsamples = -1)
  OBVIOUS
<1>11. DataSize(h) = u
  BY <1>2, <1>3, <1>9, <1>10 DEF DataSize, Elements
<1>12. ~(h.len + count < w)
  BY <1>1, <1>4, <1>6, <1>7
<1> QED BY <1>7, <1>9, <1>11, <1>12 DEF Short

\* The samples of a file of mkfb's own can be counted.
LEMMA Counted ==
  ASSUME NEW h \in Headers, Fits(h), NEW fl \in Files, fl.hdr # NoHeader,
         fl.hdr.len = h.len, 2 * MaxSpectra < IntWrap,
         Len(fl.data) <= MaxSpectra * PerSample(h), ~(h.nsamples > 0)
  PROVE  LET g == WithSamples(h, SizeOf(fl)) IN
         g.nsamples \in Nat /\ PerSample(g) * g.nsamples <= Len(fl.data)
<1>1. /\ SizeWrap \in Nat \ {0} /\ IntWrap \in Nat \ {0} /\ h.len \in Nat
      /\ MaxSpectra \in Nat
  BY SigProcFileAssumption DEF Headers
<1>2. PICK per \in Nat \ {0} : per = PerSample(h)
  BY PerSampleNat
<1>3. PICK k \in Nat : k = Len(fl.data)
  BY DEF Files
<1>4. SizeOf(fl) - h.len = k
  BY <1>1, <1>3 DEF SizeOf
<1>5. PICK v \in Nat : v = per * IntWrap
  BY <1>1, <1>2, MulPositive
<1>6. PICK u \in Nat : u = per * MaxSpectra /\ u <= v /\ k <= u
  <2>1. MaxSpectra <= IntWrap
    BY <1>1
  <2> QED BY <1>1, <1>2, <1>3, <1>5, <2>1, MulMonotone, MulPositive
<1>7. h.len + v < SizeWrap
  BY <1>2, <1>5 DEF Fits
<1>8. k < SizeWrap /\ k <= u
  <2>1. k \in Nat /\ u \in Nat /\ v \in Nat /\ u <= v /\ k <= u
    BY <1>3, <1>5, <1>6
  <2> QED BY <1>1, <1>7, <2>1
<1>9. k % SizeWrap = k
  BY <1>1, <1>3, <1>8, ModAtMost
<1>10. PICK q \in Nat : q = k \div per /\ per * q <= k
  BY <1>2, <1>3, DivBounds
<1>11. q <= MaxSpectra
  BY <1>1, <1>2, <1>3, <1>6, <1>10, DivAtMost
<1>12. AsInt(q) = q
  <2>1. 2 * q < IntWrap
    BY <1>1, <1>10, <1>11
  <2> QED BY <1>10, <2>1, AsIntBounds
<1>13. WithSamples(h, SizeOf(fl)) = [h EXCEPT !.nsamples = q]
  BY <1>2, <1>4, <1>9, <1>10, <1>12 DEF WithSamples
<1>14. PICK g : g = WithSamples(h, SizeOf(fl))
  OBVIOUS
<1>15. g.nsamples = q /\ PerSample(g) = per
  BY <1>2, <1>13, <1>14 DEF PerSample, Headers
<1> QED BY <1>3, <1>10, <1>14, <1>15

\* What is said of a file stays true of what follows it.
LEMMA EnoughLater ==
  ASSUME NEW h \in Headers, NEW fl \in Files, NEW gl \in Files,
         Enough(h, fl), fl.run = gl.run, Len(fl.data) <= Len(gl.data)
  PROVE  Enough(h, gl)
<1>1. Len(fl.data) \in Nat /\ Len(gl.data) \in Nat /\ h.nsamples \in Int
  BY DEF Files, Headers
<1> SUFFICES ASSUME h.of = gl.run, h.nsamples > 0
             PROVE  PerSample(h) * h.nsamples <= Len(gl.data)
  BY DEF Enough
<1>2. PICK v : v = PerSample(h) * h.nsamples
  OBVIOUS
<1>3. v \in Nat
  <2>1. PerSample(h) \in Nat /\ h.nsamples \in Nat
    BY <1>1, PerSampleNat
  <2> QED BY <1>2, <2>1, MulPositive
<1>4. v <= Len(fl.data)
  BY <1>2 DEF Enough
<1> QED BY <1>1, <1>2, <1>3, <1>4

LEMMA KeptLater ==
  ASSUME NEW x \in SigProcs, NEW fl \in Files, NEW gl \in Files, NEW s, NEW r, r => s,
         KeptIn(x, s, fl), x.run <= fl.run, Follows(gl, fl)
  PROVE  KeptIn(x, r, gl)
<1>1. x.run \in Nat /\ fl.run \in Nat /\ gl.run \in Nat
  BY DEF SigProcs, Files
<1>2. ASSUME job.mkfb, x.hdr # NoHeader, x.run = gl.run
      PROVE  /\ Enough(x.hdr, gl)
             /\ r => x.size > 0 /\ x.hdr.nsamples >= 0
  <2>1. fl.run = gl.run /\ Len(fl.data) <= Len(gl.data)
    BY <1>1, <1>2 DEF Follows
  <2>2. Enough(x.hdr, fl) /\ (s => x.size > 0 /\ x.hdr.nsamples >= 0)
    BY <1>2, <2>1 DEF KeptIn
  <2>3. x.hdr \in Headers
    BY <1>2 DEF SigProcs
  <2> QED BY <2>1, <2>2, <2>3, EnoughLater
<1>3. /\ x.hdr = NoHeader => x.run = 0
      /\ x.hdr # NoHeader => Shaped(x.hdr)
      /\ r => -IntWrap <= 2 * x.hdr.nsamples
  BY DEF KeptIn
<1> QED BY <1>2, <1>3 DEF KeptIn

\* The scenario is the same after every step.
LEMMA SameJob ==
  ASSUME UNCHANGED job
  PROVE  /\ \A fl : FileKept(fl)' <=> FileKept(fl)
         /\ \A x, s, fl : KeptIn(x, s, fl)' <=> KeptIn(x, s, fl)
BY DEF FileKept, KeptIn, Shaped, Shape, Enough

LEMMA RunBound ==
  ASSUME Inv, Lengths, NEW p \in Procs, NEW j \in 1..Len(opened[p])
  PROVE  /\ opened[p][j] \in SigProcs /\ SoundIn(opened[p][j], file)
         /\ file \in Files /\ opened[p][j].run <= file.run
         /\ opened[p][j].run \in Nat /\ file.run \in Nat
<1>1. SoundIn(opened[p][j], file) /\ file # NoFile
  BY DEF Lengths
<1>2. opened[p][j] \in SigProcs /\ file \in Files
  <2>1. opened[p] \in Seq(SigProcs)
    BY OpenedOf
  <2>2. opened[p][j] \in SigProcs
    BY <2>1
  <2> QED BY <1>1, <2>2 DEF Inv, Typed
<1>3. opened[p][j].run \in Nat
  BY <1>2 DEF SigProcs
<1>4. file.run \in Nat
  BY <1>2 DEF Files
<1> QED BY <1>1, <1>2, <1>3, <1>4 DEF SoundIn

Going(where) == where \in {"open", "use", "write", "done"}

\* A step of which only the file matters.
LEMMA FileStepKept ==
  ASSUME Inv, Lengths, Kept, UNCHANGED <<job, opened>>, UNCHANGED wpc \/ job.mkfb,
         \A p \in Procs : Going(pc'[p]) => Going(pc[p]),
         file' \in Files \cup {NoFile}, file' # NoFile => FileKept(file'),
         file # NoFile => file' \in Files /\ Follows(file', file)
  PROVE  Kept'
<1>1. ASSUME NEW p \in Procs, NEW j \in 1..Len(opened[p])
      PROVE  KeptIn(opened[p][j], Settled(p, j)', file')
  <2>1. /\ opened[p][j] \in SigProcs /\ file \in Files /\ opened[p][j].run <= file.run
        /\ KeptIn(opened[p][j], Settled(p, j), file)
    BY RunBound DEF Kept
  <2>2. file' \in Files /\ Follows(file', file)
    BY <2>1, NamesDiffer
  <2>3. Settled(p, j)' => Settled(p, j)
    BY DEF Settled, Going
  <2> QED BY <2>1, <2>2, <2>3, KeptLater
<1> QED BY <1>1, SameJob DEF Kept

LEMMA QuietStepKept ==
  ASSUME Inv, Lengths, Kept, UNCHANGED <<job, file, wpc, opened>>,
         \A p \in Procs : Going(pc'[p]) => Going(pc[p])
  PROVE  Kept'
<1>1. file \in Files => Follows(file, file)
  BY DEF Follows, Files
<1> QED BY <1>1, FileStepKept DEF Inv, Typed, Kept

LEMMA FailKept ==
  ASSUME Inv, Lengths, Kept, NEW p \in Procs, UNCHANGED <<job, file, wpc>>, NEW reason,
         Fail(p, reason)
  PROVE  Kept'
<1>1. /\ UNCHANGED opened
      /\ \A q \in Procs : pc'[q] \in {pc[q], "failed"}
  BY DEF Fail, Inv, Typed
<1> QED BY <1>1, QuietStepKept DEF Going

LEMMA WriterKept ==
  ASSUME SizesFit, MkfbFiles, Inv, Lengths, Kept, Writer PROVE Kept'
<1>1. /\ UNCHANGED <<job, pc, opened>> /\ file' \in Files \cup {NoFile}
      /\ file # NoFile => file' \in Files /\ Follows(file', file)
  BY WriterFollows
<1>2. job.nchans \in Nat \ {0} /\ MaxSpectra \in Nat
  BY ScenariosAssumption, SigProcFileAssumption DEF Inv, Typed
<1>3. PICK full \in Nat : full = MaxSpectra * job.nchans
  BY <1>2, MulPositive
<1>4. job.mkfb
  BY DEF Writer, Truncate, WriteHeader, WriteValue, CloseFile, WriterDies, Kept
<1>5. ASSUME file' # NoFile PROVE FileKept(file')
  <2>1. CASE Truncate /\ file'.hdr = NoHeader /\ file'.data = <<>>
    <3>1. Len(file'.data) = 0
      BY <2>1
    <3> QED BY <1>3, <2>1, <3>1 DEF FileKept
  <2>2. CASE /\ WriteHeader /\ file \in Files /\ file'.hdr = WriterHeader
             /\ file'.data = file.data /\ file'.run = file.run
    <3>1. job.mkfb => Len(file'.data) <= full
      BY <1>3, <2>2, NamesDiffer DEF Kept, FileKept
    <3>2. PICK w : w = WriterHeader
      OBVIOUS
    <3>3. /\ w.type = 1 /\ w.bits = 32 /\ w.nifs = 1 /\ w.nchans = job.nchans
          /\ w.nsamples = 0 /\ w.len = HeaderLen /\ w.of = file.run
      BY <3>2 DEF WriterHeader
    <3>4. w \in Headers
      <4>1. file.run \in Nat
        BY <2>2 DEF Files
      <4> QED BY <1>2, <3>2, <4>1, SigProcFileAssumption DEF WriterHeader, Headers
    <3>5. PICK u : u = Understood(w)
      OBVIOUS
    <3>6. /\ u.type = 1 /\ u.bits = 32 /\ u.nifs = 1 /\ u.nchans = job.nchans
          /\ u.nsamples = -1 /\ u.len = HeaderLen
      BY <3>3, <3>4, <3>5, UnderstoodFields
    <3>7. PerSample(u) = job.nchans
      BY <1>2, <3>6 DEF PerSample
    <3>8. job.mkfb
      BY <1>4
    <3> QED BY <1>3, <2>2, <3>1, <3>2, <3>5, <3>6, <3>7, <3>8
            DEF FileKept, Shaped, Shape, Enough
  <2>3. CASE /\ WriteValue /\ file \in Files /\ file'.hdr = file.hdr /\ file'.run = file.run
             /\ Len(file'.data) = Len(file.data) + 1
    <3>1. /\ FileKept(file) /\ Len(file.data) \in Nat /\ Len(file'.data) \in Nat
          /\ file' \in Files
      BY <1>1, <2>3, NamesDiffer DEF Kept, Files
    <3>2. Len(file'.data) <= full /\ Len(file.data) <= Len(file'.data)
      BY <1>3, <2>3, <3>1 DEF WriteValue
    <3>3. ASSUME file'.hdr # NoHeader, job.mkfb PROVE Enough(Understood(file'.hdr), file')
      <4>1. file.hdr \in Headers /\ Enough(Understood(file.hdr), file)
        BY <2>3, <3>1, <3>3 DEF FileKept, Files
      <4>2. Understood(file.hdr) \in Headers
        BY <4>1, UnderstoodHeader
      <4> QED BY <2>3, <3>1, <3>2, <4>1, <4>2, EnoughLater
    <3> QED BY <1>3, <2>3, <3>1, <3>2, <3>3 DEF FileKept
  <2>4. CASE UNCHANGED file
    BY <1>5, <2>4 DEF Kept
  <2> QED BY <2>1, <2>2, <2>3, <2>4, WriterFollows
<1> QED BY <1>1, <1>4, <1>5, FileStepKept

LEMMA RewriteKept ==
  ASSUME Inv, Lengths, Kept, RewriteHeader PROVE Kept'
<1>1. "editor" \in Procs /\ Needed("editor") = 2 /\ UNCHANGED <<job, wpc>>
  BY DEF Procs, Needed, RewriteHeader
<1>2. CASE InFile.ro
  BY <1>1, <1>2, FailKept DEF RewriteHeader
<1>3. CASE ~InFile.ro
  <2>1. PICK a : a = Asked
    OBVIOUS
  <2>2. /\ a \in SigProcs /\ a.hdr \in Headers /\ a.hdr # NoHeader
        /\ a = opened["editor"][1] /\ 1 \in 1..Len(opened["editor"])
    BY <2>1, AskedHeader
  <2>3. KeptIn(a, TRUE, file) /\ SoundIn(a, file)
    <3>1. Settled("editor", 1)
      BY DEF Settled, RewriteHeader
    <3> QED BY <1>1, <2>2, <3>1, RunBound DEF Kept
  <2>4. PICK h : h = [a.hdr EXCEPT !.of = a.run]
    OBVIOUS
  <2>5. PICK g : g = [h EXCEPT !.len = HeaderLen]
    OBVIOUS
  <2>6. /\ h \in Headers /\ h.type = a.hdr.type /\ h.bits = a.hdr.bits
        /\ h.nifs = a.hdr.nifs /\ h.nchans = a.hdr.nchans
        /\ h.nsamples = a.hdr.nsamples /\ h.of = a.run
    <3>1. a.run \in Nat
      BY <2>2 DEF SigProcs
    <3> QED BY <2>2, <2>4, <3>1 DEF Headers
  <2>7. /\ g \in Headers /\ g.type = a.hdr.type /\ g.bits = a.hdr.bits
        /\ g.nifs = a.hdr.nifs /\ g.nchans = a.hdr.nchans
        /\ g.nsamples = a.hdr.nsamples /\ g.of = a.run /\ g.len = HeaderLen
    BY <2>5, <2>6, SigProcFileAssumption DEF Headers
  <2>8. /\ file \in Files /\ file' \in Files /\ file'.hdr = g /\ g # NoHeader
        /\ file'.data = file.data /\ file'.run = file.run /\ Follows(file', file)
    <3>1. PICK r : Rewrite(r)
      BY <1>3, Rewritten
    <3>2. ~(file.hdr # NoHeader /\ file.hdr.len < HeaderLen)
      BY <3>1, SigProcFileAssumption DEF Rewrite, OwnLength
    <3>3. file' = [file EXCEPT !.hdr = g, !.data = file.data]
      BY <1>3, <2>1, <2>4, <2>5, <3>2 DEF RewriteHeader, Overwritten
    <3>4. file'.hdr = g
      BY <3>1, <3>3 DEF Rewrite, Files
    <3>5. Len(file.data) <= Len(file'.data)
      BY <3>1 DEF Rewrite, Files
    <3>6. Follows(file', file)
      BY <2>7, <3>1, <3>4, <3>5, NamesDiffer DEF Rewrite, Follows, OwnLength
    <3> QED BY <2>7, <3>1, <3>4, <3>6, NamesDiffer DEF Rewrite
  <2>9. PICK u : u = Understood(g)
    OBVIOUS
  <2>10. /\ u.type = a.hdr.type /\ u.bits = a.hdr.bits /\ u.nifs = a.hdr.nifs
         /\ u.nchans = a.hdr.nchans /\ u.len = HeaderLen /\ u.of = a.run
         /\ u.nsamples > 0 => u.nsamples = a.hdr.nsamples
         /\ PerSample(u) = PerSample(a.hdr) /\ Shaped(a.hdr)
    <3>1. Shaped(a.hdr)
      BY <2>2, <2>3 DEF KeptIn
    <3>2. a.hdr.type = 2 => a.hdr.nchans = 1
      BY <3>1 DEF Shaped
    <3> QED BY <2>7, <2>9, <3>1, <3>2, UnderstoodFields DEF PerSample
  <2>11. Shaped(u)
    BY <2>10 DEF Shaped
  <2>12. ASSUME job.mkfb PROVE Enough(u, file')
    <3>1. ASSUME u.of = file.run, u.nsamples > 0
          PROVE  PerSample(a.hdr) * a.hdr.nsamples <= Len(file.data)
      <4>1. a.run = file.run
        BY <2>10, <3>1
      <4>2. a.size > 0
        BY <2>2, <2>3, <2>12, <4>1 DEF KeptIn
      <4> QED BY <2>2, <2>3, <4>1, <4>2 DEF SoundIn
    <3> QED BY <2>8, <2>10, <3>1 DEF Enough
  <2>13. FileKept(file')
    <3>1. job.mkfb => Len(file.data) <= MaxSpectra * job.nchans
      BY <2>8, NamesDiffer DEF Kept, FileKept
    <3> QED BY <2>8, <2>9, <2>11, <2>12, <3>1 DEF FileKept
  <2>14. /\ UNCHANGED opened
         /\ \A q \in Procs : Going(pc'[q]) => Going(pc[q])
    BY <1>3 DEF RewriteHeader, Inv, Typed, Going
  <2> QED BY <1>1, <2>8, <2>13, <2>14, FileStepKept
<1> QED BY <1>2, <1>3

\* A step after which p's last SigProc is x, and the others are settled.
LEMMA OpenedStepKept ==
  ASSUME Inv, Lengths, Kept, NEW p \in Procs, UNCHANGED <<job, file, wpc>>,
         \A q \in Procs \ {p} : opened'[q] = opened[q] /\ pc'[q] = pc[q],
         NEW n \in Nat, Len(opened'[p]) = n, NEW x, opened'[p][n] = x,
         KeptIn(x, Going(pc'[p]), file),
         \A j \in 1..n : j # n =>
           /\ j \in 1..Len(opened[p]) /\ opened'[p][j] = opened[p][j]
           /\ Settled(p, j)
  PROVE  Kept'
<1>1. ASSUME NEW q \in Procs, NEW j \in 1..Len(opened'[q])
      PROVE  KeptIn(opened'[q][j], Settled(q, j)', file)
  <2>1. CASE q # p
    <3>1. Settled(q, j)' <=> Settled(q, j)
      BY <2>1 DEF Settled
    <3>2. KeptIn(opened[q][j], Settled(q, j), file)
      BY <2>1 DEF Kept
    <3> QED BY <2>1, <3>1, <3>2 DEF KeptIn
  <2>2. CASE q = p /\ j = n
    <3>1. Settled(q, j)' => Going(pc'[p])
      BY <2>2 DEF Settled, Going
    <3> QED BY <2>2, <3>1 DEF KeptIn
  <2>3. CASE q = p /\ j # n
    <3>1. KeptIn(opened[p][j], Settled(p, j), file) /\ Settled(p, j)
      BY <2>3 DEF Kept
    <3> QED BY <2>3, <3>1 DEF KeptIn
  <2> QED BY <2>1, <2>2, <2>3
<1> QED BY <1>1, SameJob DEF Kept

LEMMA OpenFileKept ==
  ASSUME Inv, Lengths, Kept, NEW p \in Procs, OpenFile(p) PROVE Kept'
<1>1. CASE file = NoFile
  BY <1>1, FailKept DEF OpenFile
<1>2. CASE file # NoFile
  <2>1. PICK x : x = [ro |-> ~job.writable, hdr |-> NoHeader, run |-> 0, size |-> 0]
    BY Zenon
  <2>2. x.hdr = NoHeader /\ x.run = 0 /\ x.size = 0
    BY <2>1
  <2>3. /\ opened' = [opened EXCEPT ![p] = Append(opened[p], x)] /\ pc[p] = "open"
        /\ pc' = [pc EXCEPT ![p] = "header"] /\ UNCHANGED <<job, file, wpc>>
    BY <1>2, <2>1 DEF OpenFile
  <2>4. PICK n \in Nat : n = Len(opened[p]) + 1
    BY OpenedOf
  <2>5. /\ opened'[p] = Append(opened[p], x) /\ pc'[p] = "header"
        /\ \A q \in Procs \ {p} : opened'[q] = opened[q] /\ pc'[q] = pc[q]
    BY <2>3 DEF Inv, Typed
  <2>6. /\ Len(opened'[p]) = n /\ opened'[p][n] = x
        /\ \A j \in 1..n : j # n => j \in 1..Len(opened[p]) /\ opened'[p][j] = opened[p][j]
    BY <2>4, <2>5, OpenedOf
  <2>7. KeptIn(x, Going(pc'[p]), file)
    BY <2>2, <2>5 DEF KeptIn, Going
  <2>8. \A j \in 1..n : Settled(p, j)
    BY <2>3 DEF Settled
  <2> QED BY <2>3, <2>5, <2>6, <2>7, <2>8, OpenedStepKept
<1> QED BY <1>1, <1>2

\* A step that changes p's last SigProc to x.
LEMMA LastStepKept ==
  ASSUME Inv, Lengths, Kept, NEW p \in Procs, pc[p] \in {"header", "size"},
         UNCHANGED <<job, file, wpc>>, NEW x, NEW next, KeptIn(x, Going(next), file),
         opened' = [opened EXCEPT ![p][Len(opened[p])] = x],
         pc' = [pc EXCEPT ![p] = next]
  PROVE  Kept'
<1>1. PICK n \in Nat : n = Len(opened[p]) /\ n > 0
  BY OpenedOf DEF StageOf
<1>2. /\ opened'[p] = [opened[p] EXCEPT ![n] = x] /\ pc'[p] = next
      /\ \A q \in Procs \ {p} : opened'[q] = opened[q] /\ pc'[q] = pc[q]
  BY <1>1 DEF Inv, Typed
<1>3. /\ Len(opened'[p]) = n /\ opened'[p][n] = x
      /\ \A j \in 1..n : j # n => j \in 1..Len(opened[p]) /\ opened'[p][j] = opened[p][j]
  BY <1>1, <1>2, OpenedOf
<1>4. \A j \in 1..n : j # n => Settled(p, j)
  BY <1>1 DEF Settled
<1> QED BY <1>2, <1>3, <1>4, OpenedStepKept

LEMMA ReadHeaderKept ==
  ASSUME Inv, Lengths, Kept, NEW p \in Procs, ReadHeader(p) PROVE Kept'
<1>1. CASE ~Readable(file.hdr) \/ errno[p]
  BY <1>1, FailKept DEF ReadHeader
<1>2. CASE Readable(file.hdr) /\ ~errno[p]
  <2>1. PICK x : x = [This(p) EXCEPT !.hdr = Understood(file.hdr), !.run = file.run]
    BY Zenon
  <2>2. pc[p] = "header"
    BY DEF ReadHeader
  <2>3. /\ opened' = [opened EXCEPT ![p][Len(opened[p])] = x]
        /\ pc' = [pc EXCEPT ![p] = "size"] /\ UNCHANGED <<job, file, wpc>>
    BY <1>2, <2>1 DEF ReadHeader, This
  <2>4. x.hdr = Understood(file.hdr) /\ x.run = file.run
    BY <2>1, <2>2, ThisOf DEF SigProcs
  <2>5. file \in Files /\ file.hdr \in Headers /\ file.hdr # NoHeader
    BY <1>2, <2>2, ThisOf DEF Readable, Files
  <2>6. Understood(file.hdr) \in Headers
    BY <2>5, UnderstoodHeader
  <2>7. FileKept(file)
    BY <2>5, NamesDiffer DEF Kept
  <2>8. KeptIn(x, Going("size"), file)
    BY <2>4, <2>5, <2>6, <2>7, NamesDiffer DEF KeptIn, FileKept, Going
  <2> QED BY <2>2, <2>3, <2>8, LastStepKept
<1> QED BY <1>1, <1>2

\* What CheckSize makes of p's last SigProc, if it does not fail.
Checked(p, x) ==
  /\ x.hdr = WithSamples(This(p).hdr, SizeOf(file)) /\ x.hdr \in Headers
  /\ x.run = This(p).run /\ x.size = SizeOf(file)
  /\ ~Short(x.hdr, SizeOf(file))
  /\ opened' = [opened EXCEPT ![p][Len(opened[p])] = x]
  /\ \E next \in {"open", "use"} : pc' = [pc EXCEPT ![p] = next]
  /\ UNCHANGED <<job, file, wpc>>

LEMMA CheckSizeChecks ==
  ASSUME Inv, Lengths, NEW p \in Procs, CheckSize(p),
         ~Short(WithSamples(This(p).hdr, SizeOf(file)), SizeOf(file))
  PROVE  \E x : Checked(p, x)
<1>1. PICK size : size = SizeOf(file)
  BY Zenon
<1>2. PICK h : h = WithSamples(This(p).hdr, size)
  BY Zenon
<1>3. pc[p] = "size"
  BY DEF CheckSize
<1>4. PICK x : x = [This(p) EXCEPT !.hdr = h, !.size = size]
  BY Zenon
<1>5. PICK next \in {"open", "use"} : next = IF Ready(p) THEN "use" ELSE "open"
  BY Zenon
<1>6. /\ opened' = [opened EXCEPT ![p][Len(opened[p])] = x]
      /\ pc' = [pc EXCEPT ![p] = next] /\ UNCHANGED <<job, file, wpc>>
  BY <1>1, <1>2, <1>4, <1>5 DEF CheckSize, This
<1>7. /\ This(p) \in SigProcs /\ This(p).hdr \in Headers /\ file \in Files
  BY <1>3, ThisOf DEF SigProcs
<1>8. h \in Headers
  BY <1>1, <1>2, <1>7, SizeInt, WithSamplesHeader
<1>9. x.hdr = h /\ x.run = This(p).run /\ x.size = size
  BY <1>4, <1>7 DEF SigProcs
<1> QED BY <1>1, <1>2, <1>5, <1>6, <1>8, <1>9 DEF Checked

LEMMA CheckSizeKept ==
  ASSUME MkfbFiles, Inv, Lengths, Kept, NEW p \in Procs, CheckSize(p) PROVE Kept'
<1>1. pc[p] = "size" /\ UNCHANGED <<job, file, wpc>>
  BY DEF CheckSize
<1>2. CASE Short(WithSamples(This(p).hdr, SizeOf(file)), SizeOf(file))
  BY <1>1, <1>2, FailKept DEF CheckSize
<1>3. CASE ~Short(WithSamples(This(p).hdr, SizeOf(file)), SizeOf(file))
  <2>1. PICK x : Checked(p, x)
    BY <1>3, CheckSizeChecks
  <2>2. PICK next \in {"open", "use"} : pc' = [pc EXCEPT ![p] = next]
    BY <2>1 DEF Checked
  <2>3. PICK h \in Headers : h = This(p).hdr
    BY <1>1, ThisOf DEF SigProcs
  <2>4. /\ file \in Files /\ This(p) \in SigProcs /\ h # NoHeader /\ Fits(h)
        /\ SoundIn(This(p), file)
    BY <1>1, <2>3, ThisOf DEF SoundIn
  <2>5. KeptIn(This(p), Settled(p, Len(opened[p])), file) /\ FileKept(file)
    <3>1. Len(opened[p]) \in 1..Len(opened[p])
      BY <1>1, OpenedOf DEF StageOf
    <3> QED BY <2>4, <3>1, NamesDiffer DEF Kept, This
  <2>6. PICK g : g = x.hdr
    OBVIOUS
  <2>7. /\ g \in Headers /\ g.type = h.type /\ g.bits = h.bits /\ g.nifs = h.nifs
        /\ g.nchans = h.nchans /\ g.len = h.len /\ g.of = h.of
        /\ -IntWrap <= 2 * g.nsamples /\ (h.nsamples > 0 => g = h)
        /\ g # NoHeader /\ PerSample(g) = PerSample(h)
    <3>1. SizeOf(file) \in Int
      BY <2>4, SizeInt
    <3> QED BY <2>1, <2>3, <2>6, <3>1, WithSamplesFields, NamesDiffer DEF Checked, PerSample
  <2>8. Shaped(h)
    BY <2>3, <2>4, <2>5 DEF KeptIn
  <2>9. Shaped(g)
    BY <2>7, <2>8 DEF Shaped
  <2>10. ASSUME job.mkfb, x.run = file.run
         PROVE  Enough(g, file) /\ x.size > 0 /\ g.nsamples >= 0
    <3>1. file.hdr # NoHeader /\ file.hdr.len = h.len
      BY <2>1, <2>3, <2>4, <2>10 DEF Checked, SoundIn
    <3>2. PerSample(g) * g.nsamples <= Len(file.data)
      BY <1>3, <2>1, <2>3, <2>4, <2>6, <3>1, SizeSound DEF Checked
    <3>3. x.size > 0
      <4>1. h.len = HeaderLen /\ Len(file.data) \in Nat
        BY <2>4, <2>8, <2>10 DEF Shaped, Files
      <4> QED BY <2>1, <3>1, <4>1, SigProcFileAssumption DEF Checked, SizeOf
    <3>4. CASE h.nsamples > 0
      <4>1. g = h /\ h.nsamples \in Int
        BY <2>7, <3>4 DEF Headers
      <4>2. g.nsamples >= 0
        BY <3>4, <4>1
      <4> QED BY <3>2, <3>3, <4>2 DEF Enough
    <3>5. CASE ~(h.nsamples > 0)
      <4>1. 2 * MaxSpectra < IntWrap
        BY <2>10 DEF MkfbFiles, Inv, Typed
      <4>2. PerSample(h) = job.nchans
        BY <2>8, <2>10 DEF Shaped, Shape
      <4>3. Len(file.data) <= MaxSpectra * PerSample(h)
        BY <2>5, <2>10, <4>2 DEF FileKept
      <4>4. g.nsamples \in Nat
        BY <2>1, <2>3, <2>4, <2>6, <3>1, <3>5, <4>1, <4>3, Counted DEF Checked
      <4> QED BY <3>2, <3>3, <4>4 DEF Enough
    <3> QED BY <3>4, <3>5
  <2>11. KeptIn(x, Going(next), file)
    BY <2>6, <2>7, <2>9, <2>10 DEF KeptIn
  <2> QED BY <1>1, <2>1, <2>2, <2>11, LastStepKept DEF Checked
<1> QED BY <1>2, <1>3

LEMMA RestKept ==
  ASSUME Inv, Lengths, Kept,
         \/ ReadSample \/ NextBatch \/ ReadAll \/ HaveRead \/ Compare
         \/ \E p \in Procs : LibraryCall(p)
  PROVE  Kept'
<1>1. /\ UNCHANGED <<job, file, wpc, opened>>
      /\ \A q \in Procs : pc'[q] \in {pc[q], "failed", "done", "write"}
      /\ \A q \in Procs : pc'[q] \in {pc[q], "failed"} \/ pc[q] \in {"use", "write"}
  <2>1. \A q \in Procs : UNCHANGED pc => pc'[q] = pc[q]
    OBVIOUS
  <2>2. ASSUME NEW p \in Procs, NEW next, pc' = [pc EXCEPT ![p] = next]
        PROVE  \A q \in Procs : pc'[q] = IF q = p THEN next ELSE pc[q]
    BY <2>2 DEF Inv, Typed
  <2>3. "reader" \in Procs /\ "editor" \in Procs
    BY DEF Procs
  <2>4. CASE ReadSample
    BY <2>1, <2>2, <2>3, <2>4 DEF ReadSample, Fail
  <2>5. CASE NextBatch
    BY <2>1, <2>2, <2>3, <2>5 DEF NextBatch, Fail
  <2>6. CASE ReadAll
    BY <2>1, <2>2, <2>3, <2>6 DEF ReadAll, Fail
  <2>7. CASE HaveRead
    BY <2>1, <2>2, <2>3, <2>7 DEF HaveRead, Reading
  <2>8. CASE Compare
    BY <2>1, <2>2, <2>3, <2>8 DEF Compare, Fail
  <2>9. CASE \E p \in Procs : LibraryCall(p)
    BY <2>1, <2>9 DEF LibraryCall
  <2> QED BY <2>4, <2>5, <2>6, <2>7, <2>8, <2>9
<1> QED BY <1>1, QuietStepKept DEF Going

LEMMA NextKept ==
  ASSUME SizesFit, MkfbFiles, Inv, Lengths, Kept, [Next]_vars PROVE Kept'
<1>1. CASE UNCHANGED vars
  BY <1>1, QuietStepKept DEF vars
<1>2. CASE \E p \in Procs : Open(p)
  BY <1>2, OpenFileKept, ReadHeaderKept, CheckSizeKept DEF Open
<1> QED BY <1>1, <1>2, WriterKept, RewriteKept, RestKept DEF Next, Reader, Editor, Procs

LEMMA InitKept == ASSUME MkfbFiles, Init PROVE Kept
<1>1. job \in Scenarios /\ file = job.file /\ wpc = "new"
  BY DEF Init
<1>2. \A p \in Procs : Len(opened[p]) = 0
  BY DEF Init
<1>3. \A p \in Procs : \A j \in 1..Len(opened[p]) : FALSE
  BY <1>2
<1>4. ASSUME file # NoFile PROVE FileKept(file)
  <2>1. file \in Files /\ job.nchans \in Nat \ {0}
    BY <1>1, <1>4, ScenariosAssumption
  <2>2. ASSUME job.mkfb
        PROVE  /\ Len(file.data) <= MaxSpectra * job.nchans
               /\ file.hdr # NoHeader =>
                    /\ file.hdr.type = 1 /\ file.hdr.bits = 32 /\ file.hdr.nifs = 1
                    /\ file.hdr.nchans = job.nchans /\ file.hdr.nsamples = 0
                    /\ file.hdr.len = HeaderLen
    BY <1>1, <1>4, <2>2 DEF MkfbFiles
  <2>3. ASSUME file.hdr # NoHeader
        PROVE  /\ Shaped(Understood(file.hdr))
               /\ job.mkfb => Enough(Understood(file.hdr), file)
    <3>1. PICK h \in Headers : h = file.hdr
      BY <2>1, <2>3 DEF Files
    <3>2. PICK u : u = Understood(h)
      OBVIOUS
    <3>3. /\ u.type = h.type /\ u.bits = h.bits /\ u.nifs = h.nifs
          /\ u.nchans = (IF h.type = 2 THEN 1 ELSE h.nchans)
          /\ u.nsamples = (IF h.nsamples = 0 THEN -1 ELSE h.nsamples) /\ u.len = h.len
      BY <3>2, UnderstoodFields
    <3>4. CASE job.mkfb
      <4>1. PerSample(u) = job.nchans /\ u.nsamples = -1
        BY <2>1, <2>2, <2>3, <3>1, <3>3, <3>4 DEF PerSample
      <4> QED BY <2>2, <2>3, <3>1, <3>2, <3>3, <3>4, <4>1 DEF Shaped, Shape, Enough
    <3>5. CASE ~job.mkfb
      BY <1>1, <3>1, <3>2, <3>3, <3>5 DEF Shaped, Shape
    <3> QED BY <3>4, <3>5
  <2> QED BY <2>2, <2>3 DEF FileKept
<1> QED BY <1>1, <1>3, <1>4 DEF Kept

\* The headers of the same file tell different numbers of samples only of
\* different lengths.
LEMMA SameLength ==
  ASSUME NEW h \in Headers, NEW g \in Headers, Fits(h), Fits(g),
         PerSample(h) = PerSample(g), DataSize(h) = DataSize(g), h.nsamples > 0,
         -IntWrap <= 2 * g.nsamples
  PROVE  g.nsamples = h.nsamples
<1>1. /\ SizeWrap \in Nat \ {0} /\ IntWrap \in Nat \ {0} /\ h.len \in Nat
      /\ g.nsamples \in Int /\ h.nsamples \in Nat
  BY SigProcFileAssumption DEF Headers
<1>2. PICK per \in Nat \ {0} : per = PerSample(h) /\ per = PerSample(g)
  BY PerSampleNat
<1>3. PICK n \in Nat : n = h.nsamples /\ n > 0 /\ 2 * n < IntWrap
  BY <1>1 DEF Fits
<1>4. PICK u \in Nat : u = per * n /\ u = DataSize(h)
  BY <1>1, <1>2, <1>3, SizeOfAll, MulPositive
<1>5. u > 0
  BY <1>2, <1>3, <1>4
<1>6. PICK v \in Nat : v = per * IntWrap /\ v < SizeWrap
  <2>1. per * IntWrap \in Nat /\ h.len + per * IntWrap < SizeWrap
    BY <1>1, <1>2, MulPositive DEF Fits
  <2> QED BY <1>1, <2>1
<1>7. CASE g.nsamples > 0
  <2>1. PICK m \in Nat : m = g.nsamples
    BY <1>1, <1>7
  <2>2. per * m = per * n
    BY <1>2, <1>4, <1>7, <2>1, SizeOfAll
  <2>3. ASSUME NEW k \in Nat, NEW l \in Nat, k < l, per * k = per * l PROVE FALSE
    <3>1. PICK e \in Nat : e = k + 1 /\ e <= l
      BY <2>3
    <3>2. per * e <= per * l
      BY <1>2, <3>1, MulMonotone
    <3>3. PICK y \in Nat : y = 1
      OBVIOUS
    <3>4. per * (k + y) = per * k + per * y
      BY <1>2, <3>3, Distribute
    <3>5. per * y = per
      BY <1>2, <3>3
    <3>6. PICK w \in Nat : w = per * k
      BY <1>2, MulPositive
    <3>7. w + per <= w
      BY <2>3, <3>1, <3>2, <3>3, <3>4, <3>5, <3>6
    <3> QED BY <1>2, <3>6, <3>7
  <2>4. m = n
    BY <1>3, <2>1, <2>2, <2>3
  <2> QED BY <1>3, <2>1, <2>4
<1>8. CASE g.nsamples = 0
  <2>1. PerSample(g) * g.nsamples = 0
    BY <1>2, <1>8
  <2>2. DataSize(g) = 0
    BY <1>1, <1>8, <2>1, ModAtMost DEF DataSize, Elements
  <2> QED BY <1>4, <1>5, <2>2
<1>9. CASE g.nsamples < 0
  <2>1. g.nsamples # -1
    BY <1>4, <1>5 DEF DataSize, Elements
  <2>2. PICK k \in Nat : g.nsamples = -k /\ 2 * k <= IntWrap /\ k > 0
    <3>1. -g.nsamples \in Nat /\ g.nsamples = -(-g.nsamples)
      BY <1>1, <1>9
    <3>2. 2 * (-g.nsamples) <= IntWrap
      BY <1>1
    <3> QED BY <1>1, <1>9, <3>1, <3>2
  <2>3. PICK a \in Nat : a = per * k
    BY <1>2, <2>2, MulPositive
  <2>4. u + a <= v
    <3>1. n + k <= IntWrap /\ n + k \in Nat
      BY <1>1, <1>3, <2>2
    <3>2. per * (n + k) <= per * IntWrap
      BY <1>1, <1>2, <3>1, MulMonotone
    <3>3. per * (n + k) = per * n + per * k
      BY <1>2, <1>3, <2>2, Distribute
    <3> QED BY <1>4, <1>6, <2>3, <3>2, <3>3
  <2>5. per * (-k) = -a
    BY <1>2, <2>2, <2>3
  <2>6. DataSize(g) = (-a) % SizeWrap
    BY <1>2, <2>1, <2>2, <2>5 DEF DataSize, Elements
  <2>7. (-a) % SizeWrap = u
    BY <1>4, <2>6
  <2>8. PICK q \in Int : -a = SizeWrap * q + u
    BY <1>1, <2>3, <2>7
  <2>9. q < 0
    BY <1>1, <1>5, <2>3, <2>8
  <2>10. SizeWrap * q <= -SizeWrap
    BY <1>1, <2>8, <2>9
  <2> QED BY <1>1, <1>4, <1>6, <2>3, <2>4, <2>8, <2>10
<1> QED BY <1>1, <1>7, <1>8, <1>9

LEMMA QuietSeen ==
  ASSUME Seen, UNCHANGED <<file, opened["editor"]>>, wpc' = "created" => wpc = "created",
         pc'["editor"] = "size" => pc["editor"] = "size",
         pc'["editor"] \in {"use", "write"} => pc["editor"] \in {"use", "write"},
         pc'["editor"] = "write" =>
           pc["editor"] = "write" \/ DataSize(InFile.hdr) = DataSize(Asked.hdr),
         pc["editor"] = "done" => pc'["editor"] = "done"
  PROVE  Seen'
<1>1. InFile' = InFile /\ Asked' = Asked
  BY DEF InFile, Asked
<1> QED BY <1>1 DEF Seen

LEMMA InFileOf ==
  ASSUME Inv, Lengths, Len(opened["editor"]) = 2
  PROVE  InFile \in SigProcs /\ SoundIn(InFile, file) /\ file \in Files
         /\ InFile.run \in Nat /\ file.run \in Nat
<1>1. "editor" \in Procs /\ 2 \in 1..Len(opened["editor"])
  BY DEF Procs
<1> QED BY <1>1, RunBound DEF InFile

LEMMA WriterSeen == ASSUME Inv, Lengths, Seen, Writer PROVE Seen'
<1>1. UNCHANGED <<pc, opened>>
  BY WriterFollows
<1>2. CASE Truncate
  <2>1. file'.hdr = NoHeader /\ (file # NoFile => file'.run = file.run + 1)
    BY <1>2 DEF Truncate, LastRun
  <2>2. ASSUME Len(opened["editor"]) = 2 PROVE InFile.run # file'.run
    <3>1. file # NoFile /\ InFile.run <= file.run /\ InFile.run \in Nat /\ file.run \in Nat
      BY <2>2, InFileOf, NamesDiffer DEF SoundIn
    <3> QED BY <2>1, <3>1
  <2>3. InFile' = InFile /\ Asked' = Asked
    BY <1>1 DEF InFile, Asked
  <2> QED BY <1>1, <2>1, <2>2, <2>3 DEF Seen
<1>3. CASE WriteHeader
  <2>1. wpc = "created" /\ wpc' = "writing" /\ file'.run = file.run
    BY <1>3, WriterFollows DEF WriteHeader, Truncate
  <2>2. ASSUME Len(opened["editor"]) = 2, InFile.hdr # NoHeader, InFile.run = file.run,
               pc["editor"] # "done"
        PROVE  FALSE
    BY <2>1, <2>2, InFileOf DEF Seen, SoundIn
  <2>3. InFile' = InFile /\ Asked' = Asked
    BY <1>1 DEF InFile, Asked
  <2> QED BY <1>1, <2>1, <2>2, <2>3 DEF Seen
<1>4. CASE WriteValue
  <2>1. wpc' = "writing" /\ file'.hdr = file.hdr /\ file'.run = file.run
    BY <1>4, WriterFollows DEF WriteValue, Truncate, WriteHeader
  <2>2. InFile' = InFile /\ Asked' = Asked
    BY <1>1 DEF InFile, Asked
  <2> QED BY <1>1, <2>1, <2>2 DEF Seen
<1>5. CASE CloseFile \/ WriterDies
  <2>1. UNCHANGED file /\ wpc' \in {"closed", "dead"}
    BY <1>5 DEF CloseFile, WriterDies
  <2> QED BY <1>1, <2>1, QuietSeen
<1> QED BY <1>2, <1>3, <1>4, <1>5 DEF Writer

\* The editor's own steps; it can only fail before it is done.
LEMMA FailSeen ==
  ASSUME Inv, Seen, NEW reason, Fail("editor", reason), UNCHANGED <<file, wpc>>,
         pc["editor"] # "done"
  PROVE  Seen'
<1>1. pc'["editor"] = "failed" /\ UNCHANGED opened
  BY DEF Fail, Inv, Typed, Procs
<1> QED BY <1>1, QuietSeen

LEMMA EditorSeen == ASSUME Inv, Lengths, Seen, Editor PROVE Seen'
<1>1. "editor" \in Procs
  BY DEF Procs
<1>2. ASSUME NEW next, pc' = [pc EXCEPT !["editor"] = next] PROVE pc'["editor"] = next
  BY <1>1, <1>2 DEF Inv, Typed
<1>3. CASE OpenFile("editor")
  <2>1. UNCHANGED <<file, wpc>> /\ pc["editor"] = "open"
    BY <1>3 DEF OpenFile
  <2>2. CASE file = NoFile
    BY <1>3, <2>1, <2>2, FailSeen DEF OpenFile
  <2>3. CASE file # NoFile
    BY <1>2, <1>3, <2>1, <2>3 DEF OpenFile, Seen
  <2> QED BY <2>2, <2>3
<1>4. CASE ReadHeader("editor")
  <2>1. UNCHANGED <<file, wpc>> /\ pc["editor"] = "header"
    BY <1>4 DEF ReadHeader
  <2>2. CASE ~Readable(file.hdr) \/ errno["editor"]
    BY <1>4, <2>1, <2>2, FailSeen DEF ReadHeader
  <2>3. CASE Readable(file.hdr) /\ ~errno["editor"]
    <3>1. PICK x : x = [This("editor") EXCEPT !.hdr = Understood(file.hdr), !.run = file.run]
      BY Zenon
    <3>2. /\ opened' = [opened EXCEPT !["editor"][Len(opened["editor"])] = x]
          /\ pc'["editor"] = "size"
      BY <1>2, <1>4, <2>3, <3>1 DEF ReadHeader, This
    <3>3. x.hdr = Understood(file.hdr)
      BY <1>1, <2>1, <3>1, ThisOf DEF SigProcs
    <3>4. ASSUME Len(opened'["editor"]) = 2 PROVE InFile' = x
      <4>1. opened'["editor"] = [opened["editor"] EXCEPT ![Len(opened["editor"])] = x]
        BY <1>1, <3>2 DEF Inv, Typed
      <4>2. Len(opened["editor"]) = 2
        BY <1>1, <3>4, <4>1, OpenedOf
      <4>3. opened'["editor"][2] = x
        BY <1>1, <4>1, <4>2, OpenedOf
      <4> QED BY <4>3 DEF InFile
    <3> QED BY <2>1, <3>2, <3>3, <3>4 DEF Seen
  <2> QED BY <2>2, <2>3
<1>5. CASE CheckSize("editor")
  <2>1. UNCHANGED <<file, wpc>> /\ pc["editor"] = "size"
    BY <1>5 DEF CheckSize
  <2>2. CASE Short(WithSamples(This("editor").hdr, SizeOf(file)), SizeOf(file))
    BY <1>5, <2>1, <2>2, FailSeen DEF CheckSize
  <2>3. CASE ~Short(WithSamples(This("editor").hdr, SizeOf(file)), SizeOf(file))
    <3>1. PICK x : Checked("editor", x)
      BY <1>1, <1>5, <2>3, CheckSizeChecks
    <3>2. pc'["editor"] \in {"open", "use"}
      BY <1>2, <3>1 DEF Checked
    <3>3. ASSUME Len(opened'["editor"]) = 2
          PROVE  InFile' = x /\ Len(opened["editor"]) = 2 /\ This("editor") = InFile
      <4>1. opened'["editor"] = [opened["editor"] EXCEPT ![Len(opened["editor"])] = x]
        BY <1>1, <3>1 DEF Checked, Inv, Typed
      <4>2. Len(opened["editor"]) = 2
        BY <1>1, <3>3, <4>1, OpenedOf
      <4>3. opened'["editor"][2] = x
        BY <1>1, <4>1, <4>2, OpenedOf
      <4> QED BY <4>2, <4>3 DEF InFile, This
    <3>4. ASSUME Len(opened'["editor"]) = 2, x.run = file.run
          PROVE  x.hdr = WithSamples(Understood(file.hdr), x.size)
      <4>1. InFile.hdr # NoHeader /\ InFile.run = file.run
        BY <1>1, <2>1, <3>1, <3>3, <3>4, ThisOf DEF Checked
      <4>2. InFile.hdr = Understood(file.hdr)
        BY <2>1, <3>3, <3>4, <4>1 DEF Seen
      <4> QED BY <3>1, <3>3, <3>4, <4>2 DEF Checked
    <3> QED BY <2>1, <3>2, <3>3, <3>4 DEF Seen
  <2> QED BY <2>2, <2>3
<1>6. CASE Compare
  <2>1. UNCHANGED <<file, wpc>> /\ pc["editor"] = "use"
    BY <1>6 DEF Compare
  <2>2. CASE Differs
    BY <1>6, <2>1, <2>2, FailSeen DEF Compare
  <2>3. CASE ~Differs
    BY <1>2, <1>6, <2>1, <2>3, QuietSeen DEF Compare, Differs
  <2> QED BY <2>2, <2>3
<1>7. CASE RewriteHeader
  <2>1. UNCHANGED wpc /\ pc["editor"] = "write"
    BY <1>7 DEF RewriteHeader
  <2>2. CASE InFile.ro
    BY <1>7, <2>1, <2>2, FailSeen DEF RewriteHeader
  <2>3. CASE ~InFile.ro
    BY <1>2, <1>7, <2>1, <2>3 DEF RewriteHeader, Seen
  <2> QED BY <2>2, <2>3
<1> QED BY <1>3, <1>4, <1>5, <1>6, <1>7 DEF Editor, Open

LEMMA NextSeen == ASSUME Inv, Lengths, Seen, [Next]_vars PROVE Seen'
<1>1. CASE UNCHANGED vars
  BY <1>1, QuietSeen DEF vars
<1>2. CASE Reader
  <2>1. UNCHANGED <<file, wpc>>
    BY <1>2 DEF Reader, Open, OpenFile, ReadHeader, CheckSize, ReadSample, NextBatch,
      ReadAll, HaveRead
  <2>2. \A next : pc' = [pc EXCEPT !["reader"] = next] => UNCHANGED pc["editor"]
    BY DEF Inv, Typed, Procs
  <2>3. \A next : opened' = [opened EXCEPT !["reader"] = next] => UNCHANGED opened["editor"]
    BY DEF Inv, Typed, Procs
  <2>4. CASE OpenFile("reader")
    BY <2>1, <2>2, <2>3, <2>4, QuietSeen DEF OpenFile, Fail
  <2>5. CASE ReadHeader("reader")
    BY <2>1, <2>2, <2>3, <2>5, QuietSeen DEF ReadHeader, Fail
  <2>6. CASE CheckSize("reader")
    BY <2>1, <2>2, <2>3, <2>6, QuietSeen DEF CheckSize, Fail
  <2>7. CASE ReadSample \/ NextBatch \/ ReadAll \/ HaveRead
    BY <2>1, <2>2, <2>7, QuietSeen DEF ReadSample, NextBatch, ReadAll, HaveRead, Fail
  <2> QED BY <1>2, <2>4, <2>5, <2>6, <2>7 DEF Reader, Open
<1>3. CASE \E p \in Procs : LibraryCall(p)
  BY <1>3, QuietSeen DEF LibraryCall
<1> QED BY <1>1, <1>2, <1>3, WriterSeen, EditorSeen DEF Next

LEMMA InitSeen == ASSUME Init PROVE Seen
<1>1. wpc = "new" /\ Len(opened["editor"]) = 0 /\ pc["editor"] \in {"absent", "open"}
  BY DEF Init, Procs
<1> QED BY <1>1 DEF Seen

\* What is left of Excused when the reader has failed before.
LEMMA QuietExcused ==
  ASSUME Inv, Lengths, Excused, UNCHANGED <<job, opened["reader"]>>,
         ~job.noisy => \A p \in Procs : ~errno'[p],
         pc'["reader"] = "header" => pc["reader"] = "header",
         pc'["reader"] = "failed" => pc["reader"] = "failed",
         file # NoFile => file'.run \in Nat /\ file.run <= file'.run
  PROVE  Excused'
<1>1. This("reader")' = This("reader")
  BY DEF This
<1>2. ASSUME Len(opened["reader"]) # 0, This("reader").run < file.run
      PROVE  This("reader").run < file'.run
  <2>1. "reader" \in Procs /\ Len(opened["reader"]) \in 1..Len(opened["reader"])
    BY <1>2, OpenedOf DEF Procs
  <2>2. This("reader").run \in Nat /\ file.run \in Nat /\ file # NoFile
    BY <2>1, RunBound, NamesDiffer DEF This
  <2> QED BY <1>2, <2>2
<1> QED BY <1>1, <1>2 DEF Excused

LEMMA WriterExcused == ASSUME Inv, Lengths, Excused, Writer PROVE Excused'
<1>1. UNCHANGED <<job, pc, errno, opened>>
  BY WriterFollows
<1>2. file # NoFile => file'.run \in Nat /\ file.run <= file'.run
  BY RunsGrow
<1> QED BY <1>1, <1>2, QuietExcused DEF Excused

LEMMA LibraryCallExcused ==
  ASSUME Inv, Lengths, Excused, NEW p \in Procs, LibraryCall(p) PROVE Excused'
<1>1. UNCHANGED <<job, file, pc, opened>> /\ job.noisy
  BY DEF LibraryCall
<1> QED BY <1>1 DEF Excused, This

\* The steps of the editor.
LEMMA EditorExcused == ASSUME Inv, Lengths, Excused, Editor PROVE Excused'
<1>1. "reader" \in Procs /\ "editor" \in Procs
  BY DEF Procs
<1>2. /\ \A next : pc' = [pc EXCEPT !["editor"] = next] => UNCHANGED pc["reader"]
      /\ \A next : opened' = [opened EXCEPT !["editor"] = next] => UNCHANGED opened["reader"]
  BY DEF Inv, Typed, Procs
<1>3. file # NoFile => file.run \in Nat /\ file.run <= file.run
  <2> SUFFICES ASSUME file # NoFile PROVE file.run \in Nat
    OBVIOUS
  <2>1. file \in Files
    BY DEF Inv, Typed
  <2> QED BY <2>1 DEF Files
<1>4. UNCHANGED errno => (~job.noisy => \A p \in Procs : ~errno'[p])
  BY DEF Excused
<1>5. CASE OpenFile("editor")
  <2>1. ~job.noisy => \A p \in Procs : ~errno'[p]
    BY <1>1, <1>5, Zenon DEF OpenFile, Fail, Excused, Inv, Typed
  <2> QED BY <1>2, <1>3, <1>5, <2>1, QuietExcused DEF OpenFile, Fail
<1>6. CASE ReadHeader("editor")
  BY <1>2, <1>3, <1>4, <1>6, QuietExcused DEF ReadHeader, Fail
<1>7. CASE CheckSize("editor")
  BY <1>2, <1>3, <1>4, <1>7, QuietExcused DEF CheckSize, Fail
<1>8. CASE Compare
  BY <1>2, <1>3, <1>4, <1>8, QuietExcused DEF Compare, Fail
<1>9. CASE RewriteHeader
  <2>1. file # NoFile => file'.run \in Nat /\ file.run <= file'.run
    BY <1>9, RunsGrow
  <2> QED BY <1>2, <1>4, <1>9, <2>1, QuietExcused DEF RewriteHeader, Fail
<1> QED BY <1>5, <1>6, <1>7, <1>8, <1>9 DEF Editor, Open

\* The reader fails, and has an excuse.
LEMMA FailExcused ==
  ASSUME Inv, Lengths, Excused, NEW reason, Fail("reader", reason), UNCHANGED <<job, file>>,
         job.mkfb /\ job.how = "channels" /\ ~job.noisy =>
           \/ Len(opened["reader"]) = 0
           \/ This("reader").run < file.run
           \/ This("reader").hdr.of # This("reader").run
  PROVE  Excused'
<1>1. pc'["reader"] = "failed" /\ UNCHANGED <<errno, opened>>
  BY DEF Fail, Inv, Typed, Procs
<1>2. This("reader")' = This("reader")
  BY <1>1 DEF This
<1> QED BY <1>1, <1>2 DEF Excused

\* The reader's last SigProc.
LEMMA ThisReader ==
  ASSUME Inv, Lengths, Kept, Len(opened["reader"]) # 0
  PROVE  /\ This("reader") \in SigProcs /\ SoundIn(This("reader"), file)
         /\ file \in Files /\ This("reader").run \in Nat /\ file.run \in Nat
         /\ file.run > 0 /\ FileKept(file)
         /\ KeptIn(This("reader"), pc["reader"] \in {"use", "done"}, file)
<1>1. PICK n \in 1..Len(opened["reader"]) : n = Len(opened["reader"])
  BY OpenedOf DEF Procs
<1>2. This("reader") = opened["reader"][n] /\ "reader" \in Procs
  BY <1>1 DEF This, Procs
<1>3. KeptIn(This("reader"), Settled("reader", n), file)
  BY <1>2 DEF Kept
<1>4. pc["reader"] \in {"use", "done"} => Settled("reader", n)
  BY DEF Settled
<1>5. KeptIn(This("reader"), pc["reader"] \in {"use", "done"}, file)
  BY <1>3, <1>4 DEF KeptIn
<1>6. file \in Files
  BY <1>2, RunBound
<1>7. file.run > 0
  BY <1>6, SigProcFileAssumption DEF Files
<1>8. FileKept(file)
  BY <1>6, NamesDiffer DEF Kept
<1> QED BY <1>2, <1>5, <1>6, <1>7, <1>8, RunBound

\* A file of the run that its header is of is not too short.
LEMMA LongEnough ==
  ASSUME MkfbFiles, Inv, Lengths, Kept, pc["reader"] = "size", job.mkfb,
         This("reader").run = file.run, This("reader").hdr.of = file.run
  PROVE  ~Short(WithSamples(This("reader").hdr, SizeOf(file)), SizeOf(file))
<1>1. "reader" \in Procs /\ Len(opened["reader"]) # 0
  BY OpenedOf DEF Procs, StageOf
<1>2. PICK h \in Headers : h = This("reader").hdr
  BY <1>1, ThisOf DEF SigProcs
<1>3. /\ file \in Files /\ h # NoHeader /\ Fits(h) /\ SoundIn(This("reader"), file)
  BY <1>1, <1>2, ThisOf DEF SoundIn
<1>4. file.hdr # NoHeader /\ file.hdr.len = h.len
  BY <1>2, <1>3 DEF SoundIn
<1>5. Shaped(h) /\ Enough(h, file) /\ FileKept(file)
  BY <1>1, <1>2, <1>3, ThisReader DEF KeptIn
<1>6. PICK k \in Nat : k = Len(file.data) /\ SizeOf(file) = h.len + k
  <2>1. Len(file.data) \in Nat
    BY <1>3 DEF Files
  <2> QED BY <1>4, <2>1 DEF SizeOf
<1>7. PICK g : g = WithSamples(h, SizeOf(file))
  OBVIOUS
<1>8. /\ g \in Headers /\ Fits(g) /\ g.len = h.len /\ g.nsamples >= 0
      /\ PerSample(g) * g.nsamples <= k
  <2>1. SizeOf(file) \in Int
    BY <1>3, SizeInt
  <2>2. g \in Headers /\ Fits(g) /\ g.len = h.len
    BY <1>2, <1>3, <1>7, <2>1, WithSamplesFits, WithSamplesFields
  <2>3. CASE h.nsamples > 0
    <3>1. g = h
      BY <1>7, <2>3 DEF WithSamples
    <3>2. PerSample(h) * h.nsamples <= k
      BY <1>2, <1>5, <1>6, <2>3 DEF Enough
    <3>3. h.nsamples >= 0
      BY <2>3 DEF Headers
    <3> QED BY <2>2, <3>1, <3>2, <3>3
  <2>4. CASE ~(h.nsamples > 0)
    <3>1. 2 * MaxSpectra < IntWrap
      BY DEF MkfbFiles, Inv, Typed
    <3>2. PerSample(h) = job.nchans
      BY <1>5 DEF Shaped, Shape
    <3>3. Len(file.data) <= MaxSpectra * PerSample(h)
      BY <1>5, <3>2 DEF FileKept
    <3>4. g.nsamples \in Nat /\ PerSample(g) * g.nsamples <= k
      BY <1>2, <1>3, <1>4, <1>6, <1>7, <2>4, <3>1, <3>3, Counted
    <3> QED BY <2>2, <3>4
  <2> QED BY <2>3, <2>4
<1>9. ~Short(g, g.len + k)
  BY <1>8, NotShort
<1> QED BY <1>2, <1>6, <1>7, <1>8, <1>9

\* A reader that is not at the end of its batch finds the next sample.
LEMMA NextSampleThere ==
  ASSUME Inv, Lengths, Kept, SoFar, Reading, job.mkfb, job.how = "channels",
         i < Header.nifs, MoreTimes, This("reader").run = file.run
  PROVE  Present(Offset(Header, t, i, First(b, job.batch)), InBatch)
<1>1. "reader" \in Procs /\ Len(opened["reader"]) # 0
  BY OpenedOf DEF Procs, StageOf, Reading, Needed
<1>2. PICK h \in Headers, size \in Nat \ {0} : h = Header /\ size = job.batch
  BY Walking
<1>3. h = This("reader").hdr /\ h # NoHeader
  BY <1>2, NamesDiffer DEF Header
<1>4. /\ i \in 0..(h.nifs - 1) /\ b \in 0..(NumPieces(h.nchans, size) - 1) /\ t \in Nat
      /\ h.nifs \in Nat \ {0} /\ h.nchans \in Nat \ {0} /\ h.nsamples \in Int
  BY <1>2, Walking DEF Headers
<1>5. This("reader").size > 0 /\ h.nsamples >= 0
  BY <1>1, <1>3, ThisReader DEF KeptIn, Reading
<1>6. file.hdr # NoHeader /\ PerSample(h) * h.nsamples <= Len(file.data)
  BY <1>1, <1>3, <1>5, ThisReader DEF SoundIn
<1>7. h.nsamples \in Nat /\ t < h.nsamples
  BY <1>2, <1>4, <1>5 DEF MoreTimes
<1>8. PICK x \in Nat : x = First(b, size)
  <2>1. b \in Nat /\ size \in Nat
    BY <1>2, <1>4
  <2> QED BY <2>1, MulPositive DEF First
<1>9. PICK l \in Int : l = Length(h.nchans, b, size)
  BY <1>2, <1>4, <1>8 DEF Length, LesserOf
<1>10. x + l - 1 \in 0..(h.nchans - 1)
  <2>1. Piece(h.nchans, b, size) = x..(x + l - 1)
    BY <1>8, <1>9 DEF Piece
  <2>2. /\ Piece(h.nchans, b, size) \subseteq 0..(h.nchans - 1)
        /\ Piece(h.nchans, b, size) # {}
    <3>1. ASSUME NEW n \in Nat \ {0}, NEW z \in Nat \ {0}, NEW y \in 0..(NumPieces(n, z) - 1)
          PROVE  Piece(n, y, z) \subseteq 0..(n - 1) /\ Piece(n, y, z) # {}
      BY PiecesPartition
    <3> QED BY <1>2, <1>4, <3>1
  <2>3. x <= x + l - 1
    BY <1>8, <1>9, <2>1, <2>2
  <2>4. x + l - 1 \in x..(x + l - 1)
    BY <1>8, <1>9, <2>3
  <2> QED BY <2>1, <2>2, <2>4
<1>11. Offset(h, t, i, x + l - 1) < PerSample(h) * h.nsamples
  BY <1>2, <1>4, <1>7, <1>10, OffsetBelow
<1>12. PICK u \in Nat : u = (t * h.nifs + i) * h.nchans
  <2>1. PICK v \in Nat : v = t * h.nifs
    BY <1>4, MulPositive
  <2>2. v + i \in Nat
    BY <1>4, <2>1
  <2> QED BY <1>4, <2>1, <2>2, MulPositive
<1>13. PICK m \in Nat : m = PerSample(h) * h.nsamples
  BY <1>2, <1>7, PerSampleNat, MulPositive
<1>14. u + x + l <= Len(file.data)
  <2>1. u + (x + l - 1) < m
    BY <1>11, <1>12, <1>13 DEF Offset
  <2>2. m <= Len(file.data) /\ Len(file.data) \in Nat
    BY <1>1, <1>6, <1>13, ThisReader DEF Files
  <2>3. u \in Nat /\ x \in Nat /\ l \in Int /\ m \in Nat
    BY <1>8, <1>9, <1>12, <1>13
  <2> QED BY <2>1, <2>2, <2>3
<1>15. Offset(h, t, i, x) = u + x
  BY <1>12 DEF Offset
<1> QED BY <1>2, <1>6, <1>8, <1>9, <1>14, <1>15 DEF Present, InBatch

LEMMA ReaderExcused ==
  ASSUME MkfbFiles, Inv, Lengths, Kept, SoFar, Excused, Reader PROVE Excused'
<1>1. "reader" \in Procs
  BY DEF Procs
<1>2. ASSUME NEW next, pc' = [pc EXCEPT !["reader"] = next] PROVE pc'["reader"] = next
  BY <1>1, <1>2 DEF Inv, Typed
<1>3. CASE OpenFile("reader")
  <2>1. UNCHANGED <<job, file>>
    BY <1>3 DEF OpenFile
  <2>2. CASE file = NoFile
    <3>1. Len(opened["reader"]) = 0
      <4> SUFFICES ASSUME Len(opened["reader"]) # 0 PROVE FALSE
        OBVIOUS
      <4>1. file \in Files
        BY ThisReader
      <4> QED BY <2>2, <4>1, NamesDiffer
    <3> QED BY <1>3, <2>1, <2>2, <3>1, FailExcused DEF OpenFile
  <2>3. CASE file # NoFile
    <3>1. PICK x : x = [ro |-> ~job.writable, hdr |-> NoHeader, run |-> 0, size |-> 0]
      BY Zenon
    <3>2. x.run = 0
      BY <3>1
    <3>3. opened' = [opened EXCEPT !["reader"] = Append(opened["reader"], x)]
          /\ pc'["reader"] = "header" /\ errno' = [errno EXCEPT !["reader"] = FALSE]
      BY <1>2, <1>3, <2>3, <3>1 DEF OpenFile
    <3>4. opened'["reader"] = Append(opened["reader"], x)
      BY <1>1, <3>3 DEF Inv, Typed
    <3>5. This("reader")' = x
      BY <1>1, <3>4, OpenedOf DEF This
    <3>6. ~job.noisy => \A p \in Procs : ~errno'[p]
      BY <3>3, Zenon DEF Excused, Inv, Typed
    <3> QED BY <2>1, <3>2, <3>3, <3>5, <3>6 DEF Excused
  <2> QED BY <2>2, <2>3
<1>4. CASE ReadHeader("reader")
  <2>1. UNCHANGED <<job, file>> /\ pc["reader"] = "header"
    BY <1>4 DEF ReadHeader
  <2>2. CASE \E reason : Fail("reader", reason)
    <3>1. Len(opened["reader"]) # 0
      BY <1>1, <2>1, OpenedOf DEF StageOf
    <3>2. This("reader").run < file.run
      BY <2>1, <3>1, ThisReader DEF Excused
    <3> QED BY <2>1, <2>2, <3>2, FailExcused
  <2>3. CASE ~\E reason : Fail("reader", reason)
    BY <1>2, <1>4, <2>1, <2>3 DEF ReadHeader, Excused
  <2> QED BY <2>2, <2>3
<1>5. CASE CheckSize("reader")
  <2>1. UNCHANGED <<job, file>> /\ pc["reader"] = "size"
    BY <1>5 DEF CheckSize
  <2>2. CASE Short(WithSamples(This("reader").hdr, SizeOf(file)), SizeOf(file))
    <3>1. Len(opened["reader"]) # 0
      BY <1>1, <2>1, OpenedOf DEF StageOf
    <3>2. ASSUME job.mkfb, ~(This("reader").run < file.run),
                 This("reader").hdr.of = This("reader").run
          PROVE  FALSE
      <4>1. This("reader").run = file.run
        BY <3>1, <3>2, ThisReader DEF SoundIn
      <4> QED BY <2>1, <2>2, <3>2, <4>1, LongEnough
    <3> QED BY <1>5, <2>1, <2>2, <3>2, FailExcused DEF CheckSize
  <2>3. CASE ~Short(WithSamples(This("reader").hdr, SizeOf(file)), SizeOf(file))
    <3>1. PICK x : Checked("reader", x)
      BY <1>1, <1>5, <2>3, CheckSizeChecks
    <3>2. pc'["reader"] \in {"open", "use"}
      BY <1>2, <3>1 DEF Checked
    <3>3. UNCHANGED errno
      BY <1>5, <2>3 DEF CheckSize
    <3> QED BY <2>1, <3>2, <3>3 DEF Excused
  <2> QED BY <2>2, <2>3
<1>6. CASE ReadSample
  <2>1. UNCHANGED <<job, file>> /\ pc["reader"] = "use"
    BY <1>6 DEF ReadSample, Reading
  <2>2. CASE Fail("reader", "read")
    <3>1. Len(opened["reader"]) # 0
      BY <1>1, <2>1, OpenedOf DEF StageOf, Needed
    <3>2. ASSUME job.mkfb, ~(This("reader").run < file.run) PROVE FALSE
      <4>1. This("reader").run = file.run
        BY <3>1, <3>2, ThisReader DEF SoundIn
      <4>2. pc' = pc
        BY <1>6, <3>2, <4>1, NextSampleThere DEF ReadSample
      <4> QED BY <1>2, <2>1, <2>2, <4>2 DEF Fail
    <3> QED BY <2>1, <2>2, <3>2, FailExcused
  <2>3. CASE ~Fail("reader", "read")
    BY <1>6, <2>1, <2>3 DEF ReadSample, Excused
  <2> QED BY <2>2, <2>3
<1>7. CASE NextBatch
  <2>1. UNCHANGED <<job, file>> /\ pc["reader"] = "use"
    BY <1>7 DEF NextBatch, Reading
  <2>2. CASE errno["reader"]
    BY <1>1, <1>7, <2>1, <2>2, FailExcused DEF NextBatch, Excused
  <2>3. CASE ~errno["reader"]
    BY <1>7, <2>1, <2>3 DEF NextBatch, Excused
  <2> QED BY <2>2, <2>3
<1>8. CASE ReadAll
  <2>1. UNCHANGED <<job, file>> /\ pc["reader"] = "use" /\ job.how = "whole"
    BY <1>8 DEF ReadAll, Reading
  <2>2. CASE Fail("reader", "read")
    BY <2>1, <2>2, FailExcused
  <2>3. CASE ~Fail("reader", "read")
    BY <1>8, <2>1, <2>3 DEF ReadAll, Excused
  <2> QED BY <2>2, <2>3
<1>9. CASE HaveRead
  BY <1>2, <1>9 DEF HaveRead, Excused
<1> QED BY <1>3, <1>4, <1>5, <1>6, <1>7, <1>8, <1>9 DEF Reader, Open

LEMMA NextExcused ==
  ASSUME MkfbFiles, Inv, Lengths, Kept, SoFar, Excused, [Next]_vars PROVE Excused'
<1>1. CASE UNCHANGED vars
  BY <1>1 DEF vars, Excused, This
<1> QED BY <1>1, WriterExcused, ReaderExcused, EditorExcused, LibraryCallExcused DEF Next

LEMMA InitExcused == ASSUME Init PROVE Excused
<1>1. pc["reader"] \in {"absent", "open"} /\ \A p \in Procs : ~errno[p]
  BY Zenon DEF Init, Procs
<1> QED BY <1>1 DEF Excused

\* The only way from the comparison to the end.
LEMMA OnlyRewrite ==
  ASSUME Inv, Lengths, [Next]_vars, pc["editor"] = "write", pc'["editor"] = "done"
  PROVE  RewriteHeader /\ ~InFile.ro
<1>1. pc'["editor"] # pc["editor"]
  OBVIOUS
<1>2. \A next : pc' = [pc EXCEPT !["reader"] = next] => UNCHANGED pc["editor"]
  BY DEF Inv, Typed, Procs
<1>3. ~Writer
  BY <1>1, WriterFollows
<1>4. ~Reader
  <2>1. ~OpenFile("reader")
    BY <1>1, <1>2 DEF OpenFile, Fail
  <2>2. ~ReadHeader("reader")
    BY <1>1, <1>2 DEF ReadHeader, Fail
  <2>3. ~CheckSize("reader")
    BY <1>1, <1>2 DEF CheckSize, Fail
  <2>4. ~(ReadSample \/ NextBatch \/ ReadAll \/ HaveRead)
    BY <1>1, <1>2 DEF ReadSample, NextBatch, ReadAll, HaveRead, Fail
  <2> QED BY <2>1, <2>2, <2>3, <2>4 DEF Reader, Open
<1>5. ~(Open("editor") \/ Compare)
  BY DEF Open, OpenFile, ReadHeader, CheckSize, Compare
<1>6. ~\E p \in Procs : LibraryCall(p)
  BY <1>1 DEF LibraryCall
<1>7. RewriteHeader
  BY <1>1, <1>3, <1>4, <1>5, <1>6 DEF Next, Editor, vars
<1>8. ~Fail("editor", "write")
  BY DEF Fail, Inv, Typed, Procs
<1> QED BY <1>7, <1>8 DEF RewriteHeader

\* The two headers that the editor has compared, and the one that is there.
LEMMA SameFound ==
  ASSUME Inv, Lengths, Kept, Seen, RewriteHeader, ~InFile.ro,
         file.run = InFile.run, SizeOf(file) = InFile.size
  PROVE  Found(file') = Found(file)
<1>1. pc["editor"] = "write" /\ "editor" \in Procs /\ Needed("editor") = 2
  BY DEF RewriteHeader, Procs, Needed
<1>2. Len(opened["editor"]) = 2
  BY <1>1, OpenedOf DEF StageOf
<1>3. PICK a \in SigProcs : a = Asked
  BY AskedHeader
<1>4. PICK h \in Headers : h = a.hdr /\ h # NoHeader
  BY <1>3, AskedHeader
<1>5. PICK g \in Headers : g = InFile.hdr /\ g # NoHeader /\ g.len = HeaderLen
  BY <1>1, <1>2, InFileOf DEF Inv, Compared, SigProcs
<1>6. /\ KeptIn(a, TRUE, file) /\ SoundIn(a, file)
      /\ KeptIn(InFile, TRUE, file) /\ SoundIn(InFile, file)
  <2>1. Settled("editor", 1) /\ Settled("editor", 2)
    BY <1>1 DEF Settled
  <2>2. 1 \in 1..Len(opened["editor"]) /\ 2 \in 1..Len(opened["editor"])
    BY <1>2
  <2> QED BY <1>1, <1>3, <2>1, <2>2, RunBound DEF Kept, Asked, InFile
<1>7. PICK per \in Nat \ {0} : per = PerSample(h) /\ per = PerSample(g) /\ per = Shape
  BY <1>3, <1>4, <1>5, <1>6, PerSampleNat DEF KeptIn, Shaped
<1>8. /\ Fits(h) /\ Fits(g) /\ (h.type = 2 => h.nchans = 1)
      /\ -IntWrap <= 2 * h.nsamples /\ -IntWrap <= 2 * g.nsamples
  BY <1>3, <1>4, <1>5, <1>6 DEF KeptIn, Shaped, SoundIn
<1>9. DataSize(g) = DataSize(h)
  BY <1>1, <1>3, <1>4, <1>5 DEF Seen
<1>10. file \in Files /\ file.hdr \in Headers /\ file.hdr # NoHeader /\ file.hdr.len = HeaderLen
  BY <1>2, <1>5, <1>6, InFileOf, NamesDiffer DEF SoundIn, Files
<1>11. PICK k \in Nat : k = Len(file.data) /\ SizeOf(file) = HeaderLen + k
  <2>1. Len(file.data) \in Nat
    BY <1>10 DEF Files
  <2> QED BY <1>10, <2>1 DEF SizeOf
<1>12. PICK f \in Headers : f = Understood(file.hdr) /\ f.len = HeaderLen
  BY <1>10, UnderstoodHeader
<1>13. PICK size \in Int : size = SizeOf(file)
  BY <1>11, SigProcFileAssumption
<1>14. g = WithSamples(f, size) /\ PerSample(f) = per
  <2>1. g = WithSamples(f, size)
    BY <1>1, <1>2, <1>5, <1>12, <1>13 DEF Seen
  <2>2. Shaped(f)
    BY <1>10, <1>12, NamesDiffer DEF Kept, FileKept
  <2> QED BY <1>7, <2>1, <2>2 DEF Shaped
\* What is found in the file as it is.
<1>15. Found(file) = g.nsamples
  BY <1>12, <1>13, <1>14 DEF Found
\* And in the file with the other header.
<1>16. PICK r \in Headers :
         /\ file'.hdr = r /\ r # NoHeader /\ r.len = HeaderLen
         /\ r.type = h.type /\ r.nifs = h.nifs /\ r.nchans = h.nchans
         /\ r.nsamples = h.nsamples
         /\ SizeOf(file') = size
  <2>1. PICK q : q = [h EXCEPT !.of = a.run]
    OBVIOUS
  <2>2. PICK r : r = [q EXCEPT !.len = HeaderLen]
    OBVIOUS
  <2>3. /\ q \in Headers /\ q.type = h.type /\ q.nifs = h.nifs /\ q.nchans = h.nchans
        /\ q.nsamples = h.nsamples
    <3>1. a.run \in Nat
      BY DEF SigProcs
    <3> QED BY <2>1, <3>1 DEF Headers
  <2>4. /\ r \in Headers /\ r.len = HeaderLen
        /\ r.type = h.type /\ r.nifs = h.nifs /\ r.nchans = h.nchans
        /\ r.nsamples = h.nsamples
    BY <2>2, <2>3, SigProcFileAssumption DEF Headers
  <2>5. ~(file.hdr # NoHeader /\ file.hdr.len < HeaderLen)
    BY <1>10, SigProcFileAssumption
  <2>6. file' = [file EXCEPT !.hdr = r, !.data = file.data]
    BY <1>3, <1>4, <2>1, <2>2, <2>5 DEF RewriteHeader, Overwritten
  <2>7. file'.hdr = r /\ file'.data = file.data
    BY <1>10, <2>6 DEF Files
  <2>8. SizeOf(file') = size
    BY <1>11, <1>13, <2>4, <2>7, NamesDiffer DEF SizeOf
  <2> QED BY <2>4, <2>7, <2>8, NamesDiffer
<1>17. PICK u \in Headers : /\ u = Understood(r) /\ u.len = HeaderLen
         /\ u.nsamples = (IF h.nsamples = 0 THEN -1 ELSE h.nsamples)
         /\ PerSample(u) = per
  <2>1. PICK u \in Headers : u = Understood(r)
    BY <1>16, UnderstoodHeader
  <2>2. /\ u.len = HeaderLen /\ u.nifs = h.nifs /\ u.nchans = h.nchans
        /\ u.nsamples = (IF h.nsamples = 0 THEN -1 ELSE h.nsamples)
    BY <1>8, <1>16, <2>1, UnderstoodFields
  <2> QED BY <1>7, <2>1, <2>2 DEF PerSample
<1>18. Found(file') = WithSamples(u, size).nsamples
  BY <1>16, <1>17 DEF Found
<1>19. h.nsamples \in Int /\ g.nsamples \in Int /\ f.nsamples \in Int
  BY DEF Headers
<1>20. CASE h.nsamples > 0
  <2>1. g.nsamples = h.nsamples
    BY <1>7, <1>8, <1>9, <1>20, SameLength
  <2>2. u.nsamples = h.nsamples /\ WithSamples(u, size) = u
    BY <1>17, <1>19, <1>20 DEF WithSamples
  <2> QED BY <1>15, <1>18, <2>1, <2>2
<1>21. CASE ~(h.nsamples > 0)
  <2>1. ~(f.nsamples > 0)
    <3> SUFFICES ASSUME f.nsamples > 0 PROVE FALSE
      OBVIOUS
    <3>1. g = f /\ g.nsamples > 0
      BY <1>14 DEF WithSamples
    <3>2. h.nsamples = g.nsamples
      BY <1>7, <1>8, <1>9, <3>1, SameLength
    <3> QED BY <1>21, <3>1, <3>2
  <2>2. ~(u.nsamples > 0)
    BY <1>17, <1>19, <1>21
  <2>3. PICK m : m = AsInt(((size - HeaderLen) % SizeWrap) \div per)
    OBVIOUS
  <2>4. g.nsamples = m
    <3>1. g = [f EXCEPT !.nsamples = m]
      BY <1>12, <1>14, <2>1, <2>3 DEF WithSamples
    <3> QED BY <3>1 DEF Headers
  <2>5. WithSamples(u, size).nsamples = m
    <3>1. WithSamples(u, size) = [u EXCEPT !.nsamples = m]
      BY <1>17, <2>2, <2>3 DEF WithSamples
    <3> QED BY <3>1 DEF Headers
  <2> QED BY <1>15, <1>18, <2>4, <2>5
<1> QED BY <1>20, <1>21

-----------------------------------------------------------------------------
(* The theorems.                                                           *)

\* Everything keeps its type, a process has at most the SigProcs it needs, and
\* the file is there for all who have opened it.
THEOREM TypeCorrect == Spec => []TypeOK
<1>1. Inv => TypeOK
  <2> SUFFICES ASSUME Inv PROVE TypeOK
    OBVIOUS
  <2>1. file # NoFile => file.run \in 1..(MaxRuns + 1)
    BY DEF Inv, Typed, Files
  <2>2. \A p \in Procs : Len(opened[p]) <= Needed(p)
    BY DEF Inv, Stages, StageOf
  <2> QED BY <2>1, <2>2 DEF Inv, Typed, TypeOK
<1> QED BY InitInv, NextInv, <1>1, PTL DEF Spec

\* Whoever changes the header of a file in place, and whenever mkfb is killed
\* and started again meanwhile, each value in the file stays the one that was
\* written there: ModifyHeader's comparison of the lengths of the headers
\* suffices, although it is made on a file that may be another one by the time
\* of the write.
THEOREM AlwaysDataIntact == Spec => []DataIntact
<1>1. Inv => DataIntact
  BY DEF Inv
<1> QED BY InitInv, NextInv, <1>1, PTL DEF Spec

\* The number of samples that a SigProc settles when it is opened stays true
\* as long as the file is of the same run, whoever appends to it or edits it,
\* if no size of a file with as many samples as an int holds wraps a size_t.
THEOREM AlwaysLengthHolds == ASSUME SizesFit PROVE Spec => []LengthHolds
<1>1. Inv /\ Lengths => LengthHolds
  <2> SUFFICES ASSUME Inv, Lengths, NEW p \in Procs, NEW j \in DOMAIN opened[p],
                      opened[p][j].size > 0, opened[p][j].run = file.run
               PROVE  PerSample(opened[p][j].hdr) * opened[p][j].hdr.nsamples
                        <= Len(file.data)
    BY DEF LengthHolds
  <2>1. j \in 1..Len(opened[p])
    BY OpenedOf
  <2>2. SoundIn(opened[p][j], file)
    BY <2>1 DEF Lengths
  <2>3. opened[p][j].hdr # NoHeader
    BY <2>2 DEF SoundIn
  <2> QED BY <2>2, <2>3 DEF SoundIn
<1>2. Init => Inv /\ Lengths
  BY InitInv, InitLengths
<1>3. Inv /\ Lengths /\ [Next]_vars => (Inv /\ Lengths)'
  BY NextInv, NextLengths
<1> QED BY <1>1, <1>2, <1>3, PTL DEF Spec
\* A reader that has come to its end has read each sample of each channel of
\* the length it found at the open, each from its own place, and all of them of
\* one run of mkfb unless mkfb was started again meanwhile; whatever mkfb
\* appends, an editor writes over the header, and with batches of any size.
THEOREM AlwaysReadRight == ASSUME SizesFit PROVE Spec => []ReadRight
<1>1. Inv /\ Lengths /\ SoFar => ReadRight
  <2> SUFFICES ASSUME Inv, Lengths, SoFar, pc["reader"] = "done" PROVE ReadRight
    BY DEF ReadRight
  <2>1. PICK h \in Headers : h = Header
    BY ReaderHeader
  <2>2. {<<g.time, g.nif, g.chan>> : g \in got} = All(h)
    BY <2>1 DEF SoFar, Coords
  <2>3. ASSUME NEW g \in got
        PROVE  /\ g.val # Junk => SampleAt(h, g.val[2]) = <<g.time, g.nif, g.chan>>
               /\ file.run = This("reader").run => g.val # Junk /\ g.val[1] = file.run
    <3>1. Genuine(g, This("reader"), file.run)
      BY DEF SoFar
    <3>2. /\ g.time \in Nat /\ g.nif \in 0..(h.nifs - 1) /\ g.chan \in 0..(h.nchans - 1)
      BY <2>1, <3>1 DEF Genuine, Header
    <3>3. PICK r \in This("reader").run..file.run :
            g.val = <<r, Offset(h, g.time, g.nif, g.chan)>>
      BY <2>1, <3>1 DEF Genuine, Header
    <3>4. SampleAt(h, Offset(h, g.time, g.nif, g.chan)) = <<g.time, g.nif, g.chan>>
      BY <2>1, <3>2, SampleAtOffset
    <3>5. g.nif \in Nat /\ g.chan \in Nat
      BY <2>1, <3>2 DEF Headers
    <3>6. Offset(h, g.time, g.nif, g.chan) \in Nat
      BY <2>1, <3>2, <3>5, OffsetNat
    <3>7. This("reader").run \in Nat /\ file.run \in Nat
      BY ReaderHeader
    <3>8. r \in Nat /\ (file.run = This("reader").run => r = file.run)
      BY <3>3, <3>7
    <3>9. g.val # Junk
      BY <3>3, <3>6, <3>8, NamesDiffer
    <3> QED BY <3>3, <3>4, <3>8, <3>9
  <2> QED BY <2>1, <2>2, <2>3 DEF ReadRight, All
<1>2. Init => Inv /\ Lengths /\ SoFar
  BY InitInv, InitLengths, InitSoFar
<1>3. Inv /\ Lengths /\ SoFar /\ [Next]_vars => (Inv /\ Lengths /\ SoFar)'
  BY NextInv, NextLengths, NextSoFar
<1> QED BY <1>1, <1>2, <1>3, PTL DEF Spec
\* All that holds of the file, the SigProcs and the reader.
Held == Inv /\ Lengths /\ SoFar /\ Kept /\ Seen /\ Excused

LEMMA AlwaysHeld == ASSUME SizesFit, MkfbFiles PROVE Spec => []Held
<1>1. Init => Held
  BY InitInv, InitLengths, InitSoFar, InitKept, InitSeen, InitExcused DEF Held
<1>2. Held /\ [Next]_vars => Held'
  <2> SUFFICES ASSUME Held, [Next]_vars PROVE Held'
    OBVIOUS
  <2>1. Inv' /\ Lengths'
    BY NextInv, NextLengths DEF Held
  <2>2. SoFar' /\ Kept' /\ Seen' /\ Excused'
    BY <2>1, NextSoFar, NextKept, NextSeen, NextExcused DEF Held
  <2> QED BY <2>1, <2>2 DEF Held
<1> QED BY <1>1, <1>2, PTL DEF Spec

\* A file that mkfb goes on writing is read to the end of the length found at
\* the open, whether mkfb is killed or not, if it is not started again, no call
\* leaves errno set, and the header was mkfb's own: it is then never too short
\* for what its header tells, and every sample counted at the open is there.
THEOREM AlwaysReadToTheEnd ==
  ASSUME SizesFit, MkfbFiles PROVE Spec => []ReadToTheEnd
<1>1. Held => ReadToTheEnd
  <2> SUFFICES ASSUME Held, job.mkfb, job.how = "channels", ~job.noisy,
                      opened["reader"] # <<>>, This("reader").run = file.run,
                      This("reader").hdr.of = file.run, pc["reader"] = "failed"
               PROVE  FALSE
    BY DEF ReadToTheEnd
  <2>1. opened["reader"] \in Seq(SigProcs)
    BY DEF Held, Inv, Typed, Procs
  <2>2. Len(opened["reader"]) # 0
    BY <2>1
  <2>3. This("reader").run \in Nat
    BY <2>2, ThisReader DEF Held
  <2> QED BY <2>2, <2>3 DEF Held, Excused
<1> QED BY <1>1, AlwaysHeld, PTL

\* What the editor writes over a header has as many samples as SigProc would
\* have found there before: an edit in place does not change the length of a
\* file, unless something is appended between its second open and its write.
THEOREM EditsKeepLength ==
  ASSUME SizesFit, MkfbFiles PROVE Spec => EditKeepsLength
<1>1. Held /\ [Next]_vars =>
        [pc["editor"] = "write" /\ pc'["editor"] = "done"
         /\ file.run = InFile.run /\ SizeOf(file) = InFile.size
         => Found(file') = Found(file)]_vars
  <2> SUFFICES ASSUME Held, [Next]_vars, pc["editor"] = "write", pc'["editor"] = "done",
                      file.run = InFile.run, SizeOf(file) = InFile.size
               PROVE  Found(file') = Found(file)
    OBVIOUS
  <2>1. Inv /\ Lengths /\ Kept /\ Seen
    BY DEF Held
  <2>2. RewriteHeader /\ ~InFile.ro
    BY <2>1, OnlyRewrite
  <2> QED BY <2>1, <2>2, SameFound
<1> QED BY <1>1, AlwaysHeld, PTL DEF Spec, EditKeepsLength
=============================================================================
