------------------------------ MODULE Prepfil ------------------------------
(***************************************************************************)
(* prepfil: process a filterbank file batch by batch (SigProcUtil::         *)
(* DoProcess), then edit the header of the result (ModifyHeader), or only   *)
(* edit a header.  The result is written as OUTPUT.in_progress and renamed  *)
(* when it is complete.  The process may be killed at any step and be run   *)
(* again; or the machine may go down and lose what no fsync has forced to   *)
(* the disk.                                                               *)
(*                                                                         *)
(* A sample of the input is <<t, i, c>>: time, IF and channel.  A value in  *)
(* an output is a record of the input samples it was made of and of what    *)
(* was done to them, or Zero; Hole stands where nothing was written yet.   *)
(***************************************************************************)
EXTENDS Integers, FiniteSets, Batches, RfiMask

CONSTANTS
  Inputs,      \* input headers: [nifs, nchans, nsamples, barycentric, padded]
  Jobs,        \* command lines, see DoProcessing and Parse
  Buffers,     \* results of BufferSize, in floats
  ChunkFloats, \* most floats in a chunk of the bandpass (4 * 1024 * 1024)
  MaxOutliers, \* most channels that stand out of the bandpass
  CopyCells,   \* values in a chunk of ModifyHeader's copy
  Failures,    \* how a run may end early: "kill" and "power"
  MaxCrashes,  \* how often that happens in a behaviour
  NoMask, NoFile, Zero, Hole

ASSUME PrepfilAssumption ==
  /\ Inputs \subseteq [nifs : Nat \ {0}, nchans : Nat \ {0}, nsamples : Nat,
                       barycentric : 0..1, padded : BOOLEAN]
  /\ \A j \in Jobs :
       /\ j.avg \in Int /\ j.bp \in Int /\ j.base \in Int
       /\ j.drop \in Nat /\ j.edit \in BOOLEAN
  /\ Buffers \subseteq Nat /\ ChunkFloats \in Nat /\ MaxOutliers \in Nat
  /\ CopyCells \in Nat \ {0}
  /\ MaxCrashes \in Nat /\ Failures \subseteq {"kill", "power"}

\* The tables of a mask count from zero.
ASSUME MaskAssumption ==
  \A j \in Jobs : j.mask # NoMask =>
    /\ j.mask.nchans \in Nat /\ j.mask.size \in Nat \ {0}
    /\ j.mask.chans \subseteq Nat /\ j.mask.ints \subseteq Nat
    /\ \A i \in Intervals(j.mask) : j.mask.perInt[i] \subseteq Nat

\* Zero and Hole are no values made of samples, Hole is no header either.
ASSUME NamesDiffer ==
  /\ Zero # Hole
  /\ \A v \in {Zero, Hole} :
       v \notin [of : SUBSET (Nat \X Nat \X Nat),
                done : SUBSET {"bandpass", "baseline"}]
  /\ Hole \notin [nifs : Nat, nchans : Nat, nsamples : Nat, barycentric : 0..1,
                  padded : BOOLEAN, edited : BOOLEAN]

VARIABLES
  inp, job, buffer, \* the input's header, the command line, the memory
  failure,          \* what may happen in this behaviour, of Failures
  pc,               \* where the process is
  batchSize, b, f,  \* batch_size, the batch and the IF it is at
  chunk, counts,    \* bandpass: the chunk, how often a sample has been counted
  kill,             \* kill_idxs
  buf, t,           \* buf_out, a row per channel of the batch; sample to write
  copied,           \* values ModifyHeader has copied
  tmp, out,         \* the files OUTPUT.in_progress and OUTPUT
  crashes

inputs  == <<inp, job, buffer, failure>>
work    == <<batchSize, b, f, chunk, counts, kill, buf, t, copied>>
vars    == <<inputs, pc, work, tmp, out, crashes>>

-----------------------------------------------------------------------------
(* The layout of a filterbank file, and files.                             *)

\* The sigproc format: which sample the o-th value of the data is.
SampleAt(h, o) ==
  <<o \div (h.nifs * h.nchans), (o \div h.nchans) % h.nifs, o % h.nchans>>
Positions(h) == 0..(h.nsamples * h.nifs * h.nchans - 1)

\* Where GetChannels and SetChannels look for a sample.
Offset_NoIF(h, n, i, c) == n * h.nifs * h.nchans + c \* a slip: one IF only
Offset(h, n, i, c)      == n * h.nifs * h.nchans + i * h.nchans + c

\* A file as processes see it (mem) and as a power failure may leave it (disk).
NewFile(hdr) ==
  [mem  |-> [hdr |-> hdr, data |-> [o \in Positions(hdr) |-> Hole]],
   disk |-> [hdr |-> Hole, data |-> [o \in Positions(hdr) |-> Hole]]]
Fsync(file) == [file EXCEPT !.disk = file.mem]

\* After a power failure: the values in lost, and the header unless it was
\* kept, are those of the last fsync.
Surviving(file, lost, header) ==
  IF file = NoFile THEN NoFile
  ELSE LET c == [hdr  |-> IF header THEN file.mem.hdr ELSE file.disk.hdr,
                 data |-> [o \in DOMAIN file.mem.data |->
                             IF o \in lost THEN file.disk.data[o]
                             ELSE file.mem.data[o]]]
       IN  [mem |-> c, disk |-> c]

\* The model loses no value, one, or all.
Losses == {{}, Positions(inp)} \cup {{o} : o \in Positions(inp)}

Value(samples, done) == [of |-> samples, done |-> done]
InputFile ==
  LET c == [hdr  |-> [nifs |-> inp.nifs, nchans |-> inp.nchans,
                      nsamples |-> inp.nsamples, barycentric |-> inp.barycentric,
                      padded |-> inp.padded, edited |-> FALSE],
            data |-> [o \in Positions(inp) |-> Value({SampleAt(inp, o)}, {})]]
  IN  [mem |-> c, disk |-> c]

-----------------------------------------------------------------------------
(* What the command line asks for.                                         *)

DoAvg  == job.avg # 1
DoBp   == job.bp # 0
DoBase == job.base # 0
Masked == job.mask # NoMask
DoProcessing == DoAvg \/ DoBp \/ DoBase \/ job.obs \/ Masked
Correcting   == job.obs /\ inp.barycentric = 0

Channels == 0..(inp.nchans - 1)
OutN     == inp.nsamples \div job.avg
OutTimes == 0..(OutN - 1)
BpSamples == LesserOf(job.bp, inp.nsamples)
\* Ram_per_channel of the baseline remover is 0, on the CPU and on the GPU.
FloatsPerChannel == inp.nsamples + (IF DoAvg THEN OutN ELSE 0)

OutHeader ==
  [nifs |-> inp.nifs, nchans |-> inp.nchans,
   nsamples |-> IF DoAvg THEN OutN ELSE inp.nsamples,
   barycentric |-> IF Correcting THEN 1 ELSE inp.barycentric,
   padded |-> TRUE, edited |-> FALSE]

-----------------------------------------------------------------------------
(* main.                                                                   *)

\* The checks of main come before anything is done.  An edit needs no second
\* argument: with one, it is made in place.
Parse ==
  /\ pc = "parse"
  /\ pc' = IF ~DoProcessing /\ ~job.edit THEN "done"
           ELSE IF DoProcessing /\ job.oneFile THEN "failed"
           ELSE IF job.smooth /\ ~DoBp THEN "failed"
           ELSE IF DoProcessing THEN "setup" ELSE "edit"
  /\ UNCHANGED <<inputs, work, tmp, out, crashes>>

\* A mask that does not fit, an average of no samples, a bandpass or a baseline
\* of negative length, a bandpass of several IFs.
Refused ==
  \/ Masked /\ ~Accepted(job.mask, inp.nchans, inp.nsamples)
  \/ job.avg <= 0 \/ job.bp < 0 \/ job.base < 0
  \/ DoBp /\ inp.nifs > 1

SetupThrows ==
  /\ pc = "setup" /\ Refused /\ pc' = "failed"
  /\ UNCHANGED <<inputs, work, tmp, out, crashes>>

\* Not one channel fits: GetBatches divides by a batch size of zero.
TooSmall == FloatsPerChannel = 0 \/ buffer < FloatsPerChannel

SetupDies ==
  /\ pc = "setup" /\ ~Refused /\ TooSmall /\ pc' = "sigfpe"
  /\ UNCHANGED <<inputs, work, tmp, out, crashes>>

\* OUTPUT.in_progress is created at its final size, replacing any left over.
Create ==
  /\ pc = "setup" /\ ~Refused /\ ~TooSmall
  /\ batchSize' = BatchSize(buffer, FloatsPerChannel, inp.nchans)
  /\ kill' = IF Masked THEN ZappedChannels(job.mask) ELSE {}
  /\ counts' = [c \in Channels |-> [n \in 0..(inp.nsamples - 1) |-> 0]]
  /\ tmp' = NewFile(OutHeader)
  /\ pc' = IF DoBp THEN "bandpass" ELSE "batch"
  /\ UNCHANGED <<inputs, b, f, chunk, buf, t, copied, out, crashes>>

-----------------------------------------------------------------------------
(* The bandpass (DoProcess lines 335-493).  Sums and means are not kept,    *)
(* only how often each sample went into them.                              *)

ChunkLen  == TimeChunk(batchSize, inp.nsamples, inp.nchans, ChunkFloats,
                       BpSamples)
NumChunks == NumPieces(BpSamples, ChunkLen)

\* Samples of few channels leave no room for one sample of all channels.
BandpassDies ==
  /\ pc = "bandpass" /\ ChunkLen = 0 /\ pc' = "sigfpe"
  /\ UNCHANGED <<inputs, work, tmp, out, crashes>>

Counted(c, n) ==
  Masked => c \notin ZappedChannelsPerInterval(job.mask, n \div job.mask.size)

MeasureChunk ==
  /\ pc = "bandpass" /\ ChunkLen > 0 /\ chunk < NumChunks
  /\ counts' = [c \in Channels |-> [n \in DOMAIN counts[c] |->
       IF n \in Piece(BpSamples, chunk, ChunkLen) /\ Counted(c, n)
       THEN counts[c][n] + 1 ELSE counts[c][n]]]
  /\ chunk' = chunk + 1
  /\ UNCHANGED <<inputs, pc, batchSize, b, f, kill, buf, t, copied, tmp, out,
       crashes>>

\* Channels that stand out are killed, whichever they are; a channel without
\* a single sample has bandpass 0, unless smoothing gives it another.
NoSamples(c) == Masked /\ \A n \in DOMAIN counts[c] : counts[c][n] = 0

KillChannels ==
  /\ pc = "bandpass" /\ ChunkLen > 0 /\ chunk = NumChunks
  /\ \E outliers \in SUBSET Channels :
       /\ Cardinality(outliers) <= MaxOutliers
       /\ kill' = kill \cup outliers
            \cup (IF job.smooth THEN {} ELSE {c \in Channels : NoSamples(c)})
  /\ pc' = "batch"
  /\ UNCHANGED <<inputs, batchSize, b, f, chunk, counts, buf, t, copied, tmp,
       out, crashes>>

-----------------------------------------------------------------------------
(* The batches (DoProcess lines 495-570).                                  *)

NumBatches == NumPieces(inp.nchans, batchSize)

\* A row: what becomes of channel c of IF i, step after step.
Averaged(i, c) ==
  [n \in OutTimes |->
     Value({SampleAt(inp, Offset(inp, n * job.avg + m, i, c)) : m \in 0..(job.avg - 1)},
           IF DoBp THEN {"bandpass"} ELSE {})]
ZeroRow == [n \in OutTimes |-> Zero]

WithoutBaseline(row) ==
  IF ~DoBase \/ row = ZeroRow THEN row
  ELSE [n \in OutTimes |-> [row[n] EXCEPT !.done = @ \cup {"baseline"}]]

\* The samples the mask zaps in a channel: its intervals are laid over the
\* averaged samples.
Zapped(c) ==
  UNION {Piece(OutN, i, job.mask.size) : i \in ZappedIntervalsPerChannel(job.mask, c)}
WithoutRFI(row, c) ==
  IF Masked /\ c \notin kill
  THEN [n \in OutTimes |-> IF n \in Zapped(c) THEN Zero ELSE row[n]]
  ELSE row

\* Barycentring over a span in which job.drop bins are removed at the start:
\* the row moves up and is filled with zeros.
Corrected(row) ==
  IF ~Correcting THEN row
  ELSE [n \in OutTimes |-> IF n + job.drop < OutN THEN row[n + job.drop] ELSE Zero]

Row(i, c) ==
  LET read == IF c \in kill /\ (DoBp \/ DoAvg) THEN ZeroRow ELSE Averaged(i, c)
  IN  Corrected(WithoutRFI(WithoutBaseline(read), c))

\* The length of a zapped interval that starts after the last averaged sample
\* is negative, and memset runs off the buffer.
Overruns ==
  \E c \in Piece(inp.nchans, b, batchSize) \ kill :
    \E i \in ZappedIntervalsPerChannel(job.mask, c) : OutN < First(i, job.mask.size)

ProcessBatch ==
  /\ pc = "batch" /\ f < inp.nifs /\ ~(Masked /\ Overruns)
  /\ buf' = [c \in Piece(inp.nchans, b, batchSize) |-> Row(f, c)]
  /\ t' = 0 /\ pc' = "write"
  /\ UNCHANGED <<inputs, batchSize, b, f, chunk, counts, kill, copied, tmp, out,
       crashes>>

BatchDies ==
  /\ pc = "batch" /\ f < inp.nifs /\ Masked /\ Overruns
  /\ pc' = "sigsegv"
  /\ UNCHANGED <<inputs, work, tmp, out, crashes>>

\* SetChannels writes the channels of the batch, one write per sample.
WriteSample ==
  /\ pc = "write" /\ t < OutN
  /\ tmp' = [tmp EXCEPT !.mem.data = [o \in DOMAIN @ |->
       IF \E c \in DOMAIN buf : o = Offset(inp, t, f, c)
       THEN buf[CHOOSE c \in DOMAIN buf : o = Offset(inp, t, f, c)][t]
       ELSE @[o]]]
  /\ t' = t + 1
  /\ UNCHANGED <<inputs, pc, batchSize, b, f, chunk, counts, kill, buf, copied,
       out, crashes>>

NextBatch ==
  /\ pc = "write" /\ t = OutN
  /\ IF b + 1 < NumBatches THEN b' = b + 1 /\ f' = f ELSE b' = 0 /\ f' = f + 1
  /\ buf' = << >> /\ t' = 0 /\ pc' = "batch"
  /\ UNCHANGED <<inputs, batchSize, chunk, counts, kill, copied, tmp, out,
       crashes>>

Rename ==
  /\ out' = tmp /\ tmp' = NoFile

\* A slip: the file is renamed before the last IF is written.
Publish_LastIF ==
  /\ pc = "batch" /\ f + 1 = inp.nifs
  /\ Rename /\ pc' = "close"
  /\ UNCHANGED <<inputs, work, crashes>>

\* The complete file gets its name while it is still open ...
Publish ==
  /\ pc = "batch" /\ f = inp.nifs
  /\ Rename /\ pc' = "close"
  /\ UNCHANGED <<inputs, work, crashes>>

\* ... and the destructor flushes and closes it.
CloseOutput_NoFlush == \* a slip: closed without a flush
  /\ pc = "close"
  /\ pc' = IF job.edit THEN "edit" ELSE "done"
  /\ UNCHANGED <<inputs, work, tmp, out, crashes>>
CloseOutput ==
  /\ pc = "close"
  /\ out' = Fsync(out) /\ pc' = IF job.edit THEN "edit" ELSE "done"
  /\ UNCHANGED <<inputs, work, tmp, crashes>>

-----------------------------------------------------------------------------
(* ModifyHeader.                                                           *)

InPlace == job.oneFile \/ DoProcessing

\* The new header is written over the old one, if it is as long: headers of
\* our own are padded, others may not be.
EditInPlace ==
  /\ pc = "edit" /\ InPlace
  /\ IF out.mem.hdr.padded
     THEN out' = [out EXCEPT !.mem.hdr.edited = TRUE] /\ pc' = "closeEdited"
     ELSE pc' = "failed" /\ UNCHANGED out
  /\ UNCHANGED <<inputs, work, tmp, crashes>>

StartCopy ==
  /\ pc = "edit" /\ ~InPlace
  /\ tmp' = NewFile([InputFile.mem.hdr EXCEPT !.padded = TRUE, !.edited = TRUE])
  /\ copied' = 0 /\ pc' = "copy"
  /\ UNCHANGED <<inputs, batchSize, b, f, chunk, counts, kill, buf, t, out,
       crashes>>

\* The data are copied in chunks, the last of which may be shorter.
DataSize == inp.nsamples * inp.nifs * inp.nchans

CopyChunk_NoLeftover == \* a slip: the last chunk is taken for a whole one
  /\ pc = "copy" /\ copied < DataSize
  /\ copied' = copied + CopyCells
  /\ tmp' = [tmp EXCEPT !.mem.data = [o \in DOMAIN @ |->
       IF o \in copied..(copied' - 1) THEN InputFile.mem.data[o] ELSE @[o]]]
  /\ UNCHANGED <<inputs, pc, batchSize, b, f, chunk, counts, kill, buf, t, out,
       crashes>>

CopyChunk ==
  /\ pc = "copy" /\ copied < DataSize
  /\ copied' = LesserOf(copied + CopyCells, DataSize)
  /\ tmp' = [tmp EXCEPT !.mem.data = [o \in DOMAIN @ |->
       IF o \in copied..(copied' - 1) THEN InputFile.mem.data[o] ELSE @[o]]]
  /\ UNCHANGED <<inputs, pc, batchSize, b, f, chunk, counts, kill, buf, t, out,
       crashes>>

\* A write fails and the exception ends the process.  Nothing catches it, so
\* the destructor, which flushes, may run or not.
WriteFails ==
  /\ \/ pc = "write" /\ t < OutN
     \/ pc = "copy" /\ copied < DataSize
  /\ tmp' \in {tmp, Fsync(tmp)} /\ pc' = "failed"
  /\ UNCHANGED <<inputs, work, out, crashes>>

PublishCopy ==
  /\ pc = "copy" /\ copied = DataSize
  /\ Rename /\ pc' = "closeEdited"
  /\ UNCHANGED <<inputs, work, crashes>>

CloseEdited ==
  /\ pc = "closeEdited"
  /\ out' = Fsync(out) /\ pc' = "done"
  /\ UNCHANGED <<inputs, work, tmp, crashes>>

-----------------------------------------------------------------------------
(* Kills, power failures and further runs.                                 *)

Final == {"done", "failed", "sigfpe", "sigsegv"}

Idle ==
  /\ batchSize' = 0 /\ b' = 0 /\ f' = 0 /\ chunk' = 0 /\ counts' = << >>
  /\ kill' = {} /\ buf' = << >> /\ t' = 0 /\ copied' = 0

Failing(how) ==
  /\ failure = how /\ crashes < MaxCrashes
  /\ crashes' = crashes + 1 /\ pc' = "down" /\ Idle
  /\ UNCHANGED inputs

Kill ==
  /\ pc \notin Final \cup {"down"} /\ Failing("kill")
  /\ UNCHANGED <<tmp, out>>

PowerFailure ==
  /\ pc # "down" /\ Failing("power")
  /\ \E lost \in Losses, header \in BOOLEAN :
       /\ tmp' = Surviving(tmp, lost, header)
       /\ out' = Surviving(out, lost, header)

Rerun ==
  /\ pc = "down" /\ pc' = "parse"
  /\ UNCHANGED <<inputs, work, tmp, out, crashes>>

-----------------------------------------------------------------------------
Init ==
  /\ inp \in Inputs /\ job \in Jobs /\ buffer \in Buffers
  /\ failure \in Failures /\ pc = "parse"
  /\ batchSize = 0 /\ b = 0 /\ f = 0 /\ chunk = 0 /\ counts = << >>
  /\ kill = {} /\ buf = << >> /\ t = 0 /\ copied = 0
  /\ tmp = NoFile /\ crashes = 0
  /\ out = IF job.oneFile THEN InputFile ELSE NoFile

Process ==
  \/ SetupThrows \/ SetupDies \/ Create
  \/ BandpassDies \/ MeasureChunk \/ KillChannels
  \/ ProcessBatch \/ BatchDies \/ WriteSample \/ NextBatch
  \/ Publish \/ CloseOutput
ModifyHeader ==
  EditInPlace \/ StartCopy \/ CopyChunk \/ PublishCopy \/ CloseEdited

Next == Parse \/ Process \/ ModifyHeader \/ WriteFails \/ Kill \/ PowerFailure \/ Rerun

Spec == Init /\ [][Next]_vars

-----------------------------------------------------------------------------
(* Properties.                                                             *)

Samples == {SampleAt(inp, o) : o \in Positions(inp)}
IsValue(v) ==
  v \in {Zero, Hole} \/
  /\ v.of \subseteq Samples
  /\ v.done \subseteq {"bandpass", "baseline"}
IsFile(file) ==
  file # NoFile =>
    /\ \A o \in DOMAIN file.mem.data : IsValue(file.mem.data[o])
    /\ \A o \in DOMAIN file.disk.data : IsValue(file.disk.data[o])
    /\ DOMAIN file.mem.data = DOMAIN file.disk.data
    /\ file.mem.hdr # Hole => DOMAIN file.mem.data = Positions(file.mem.hdr)

\* The type invariant.
TypeOK ==
  /\ inp \in Inputs /\ job \in Jobs /\ buffer \in Buffers
  /\ failure \in Failures
  /\ pc \in Final \cup {"parse", "setup", "bandpass", "batch", "write", "close",
                        "edit", "copy", "closeEdited", "down"}
  /\ batchSize \in 0..inp.nchans /\ b \in 0..inp.nchans /\ f \in 0..inp.nifs
  /\ kill \subseteq Channels /\ chunk \in 0..inp.nsamples
  /\ t \in 0..inp.nsamples /\ copied \in 0..DataSize
  /\ IsFile(tmp) /\ IsFile(out) /\ crashes \in 0..MaxCrashes

\* Whatever exists under the output's own name is whole, header and data.
WholeFile(file) ==
  file.mem.hdr # Hole /\ \A o \in DOMAIN file.mem.data : file.mem.data[o] # Hole
NameMeansWhole == out # NoFile => WholeFile(out)

\* "use a different name for the incomplete file" (line 315): as long as the
\* machine stays up, the output's own name means a whole file, wherever prepfil
\* is killed or fails.  (The rename comes before the fsync: after a power
\* failure it does not.)
PublishedWhole == failure = "kill" => NameMeansWhole

\* A prepfil that has ended well has left nothing to a power failure.
DoneIsDurable ==
  pc = "done" /\ out # NoFile => out.disk = out.mem

\* What the tables of a mask file say of channel c, read without the class.
SameChannel(d, c) ==
  IF job.mask.inverted THEN c + d = job.mask.nchans - 1 ELSE c = d
MaskKills(c) == Masked /\ \E d \in job.mask.chans : SameChannel(d, c)
MaskZaps(c, n) ==
  LET i == n \div job.mask.size IN
  Masked /\ (i \in job.mask.ints \/ \E d \in job.mask.perInt[i] : SameChannel(d, c))

\* The value the user asked for at time n of channel c in IF i.  A channel
\* killed by the mask alone and a mask over averaged samples are left open
\* here: see KilledChannelsAreZero and Overruns.
Asked(n, i, c, v) ==
  /\ MaskKills(c) => c \in kill
  /\ c \in kill /\ (DoAvg \/ DoBp) => v = Zero
  /\ c \notin kill /\ MaskZaps(c, n) /\ ~DoAvg => v = Zero
  /\ c \notin kill /\ ~(Masked /\ DoAvg) /\ ~MaskZaps(c, n) =>
       v = Value({<<n * job.avg + m, i, c>> : m \in 0..(job.avg - 1)},
                 (IF DoBp THEN {"bandpass"} ELSE {})
                   \cup (IF DoBase THEN {"baseline"} ELSE {}))

\* When prepfil ends well, however often it was killed before and however the
\* work was cut into batches and chunks, each place of the output holds the
\* samples that belong there, processed as asked, under the header asked for.
OutputRight ==
  pc = "done" /\ (DoProcessing \/ job.edit) =>
    /\ tmp = NoFile
    /\ out.mem.hdr = [OutHeader EXCEPT !.edited = job.edit]
    /\ \A o \in Positions(OutHeader) :
         LET s == SampleAt(OutHeader, o)
             n == s[1] + (IF Correcting THEN job.drop ELSE 0)
             v == out.mem.data[o]
         IN  IF n < OutN THEN Asked(n, s[2], s[3], v) ELSE v = Zero

\* The bandpass of a channel is the mean over each of the first BpSamples
\* samples the mask leaves, each of them counted once.
CountedOnce ==
  DoBp /\ (pc \in {"batch", "write"} \/ (pc = "bandpass" /\ ChunkLen > 0 /\ chunk = NumChunks)) =>
    \A c \in Channels : \A n \in DOMAIN counts[c] :
      counts[c][n] =
        IF n < BpSamples /\ ~MaskKills(c)
           /\ ~(Masked /\ \E d \in job.mask.perInt[n \div job.mask.size] : SameChannel(d, c))
        THEN 1 ELSE 0

\* The buffers of a batch fit into the memory prepfil may use, and a chunk of
\* the bandpass, which is read into the buffer of a batch, fits into that.
BuffersFit ==
  pc \in {"bandpass", "batch", "write"} =>
    /\ batchSize * FloatsPerChannel <= buffer
    /\ DoBp => ChunkLen * inp.nchans <= batchSize * inp.nsamples

\* "this is a channel that gets zapped completely, which is already done"
\* (lines 543-544): what is written of a killed channel is zero.
KilledChannelsAreZero ==
  pc = "write" /\ Masked => \A c \in kill \cap DOMAIN buf : buf[c] = ZeroRow
=============================================================================
