-------------------------- MODULE Prepfil_proofs --------------------------
(***************************************************************************)
(* What holds of prepfil for every file, command line and memory, wherever  *)
(* it is killed and whatever a power failure takes.                        *)
(***************************************************************************)
EXTENDS Prepfil, Batches_proofs

-----------------------------------------------------------------------------
(* The buffers.                                                            *)

\* Work only begins with memory for a channel, and in batches of GetBatches' size.
BatchInv ==
  /\ inp \in Inputs /\ job \in Jobs /\ buffer \in Buffers
  /\ pc \in {"bandpass", "batch", "write"} =>
       /\ ~Refused /\ ~TooSmall
       /\ batchSize = BatchSize(buffer, FloatsPerChannel, inp.nchans)

LEMMA InputTypes ==
  ASSUME BatchInv
  PROVE  /\ inp.nchans \in Nat \ {0} /\ inp.nsamples \in Nat
         /\ job.avg \in Int /\ job.bp \in Int /\ buffer \in Nat
         /\ ChunkFloats \in Nat
<1>1. inp \in [nifs : Nat \ {0}, nchans : Nat \ {0}, nsamples : Nat,
               barycentric : 0..1, padded : BOOLEAN]
  BY PrepfilAssumption DEF BatchInv
<1> QED BY <1>1, PrepfilAssumption DEF BatchInv

LEMMA InitBatch == Init => BatchInv
BY DEF Init, BatchInv

LEMMA NextBatchInv == ASSUME BatchInv, [Next]_vars PROVE BatchInv'
<1> DEFINE same == /\ Refused' = Refused /\ TooSmall' = TooSmall
                   /\ FloatsPerChannel' = FloatsPerChannel
<1>1. UNCHANGED inputs => same
  BY DEF inputs, Refused, TooSmall, FloatsPerChannel, Masked, DoAvg, DoBp, OutN
<1>2. CASE Create
  BY <1>1, <1>2 DEF BatchInv, Create, inputs
<1>3. ASSUME UNCHANGED inputs, pc' \notin {"bandpass", "batch", "write"}
      PROVE  BatchInv'
  BY <1>3 DEF BatchInv, inputs
<1>4. ASSUME UNCHANGED inputs, UNCHANGED batchSize,
             pc \in {"bandpass", "batch", "write"}
      PROVE  BatchInv'
  BY <1>1, <1>4 DEF BatchInv, inputs
<1>5. CASE Process
  <2>1. CASE SetupThrows \/ SetupDies \/ BandpassDies \/ BatchDies \/ Publish
             \/ CloseOutput
    BY <1>3, <2>1 DEF SetupThrows, SetupDies, BandpassDies, BatchDies, Publish,
      CloseOutput
  <2>2. CASE MeasureChunk \/ KillChannels \/ ProcessBatch \/ WriteSample
             \/ NextBatch
    BY <1>4, <2>2 DEF MeasureChunk, KillChannels, ProcessBatch, WriteSample,
      NextBatch
  <2> QED BY <1>2, <1>5, <2>1, <2>2 DEF Process
<1>6. CASE ModifyHeader
  BY <1>3, <1>6 DEF ModifyHeader, EditInPlace, StartCopy, CopyChunk, PublishCopy,
    CloseEdited
<1>7. CASE Parse \/ WriteFails \/ Kill \/ PowerFailure \/ Rerun
  BY <1>3, <1>7 DEF Parse, WriteFails, Kill, PowerFailure, Rerun, Failing
<1>8. CASE UNCHANGED vars
  BY <1>1, <1>8 DEF BatchInv, vars, inputs, work
<1> QED BY <1>5, <1>6, <1>7, <1>8 DEF Next

LEMMA BatchSizeFits ==
  ASSUME BatchInv, ~Refused, ~TooSmall
  PROVE  /\ BatchSize(buffer, FloatsPerChannel, inp.nchans) \in 1..inp.nchans
         /\ BatchSize(buffer, FloatsPerChannel, inp.nchans) * FloatsPerChannel <= buffer
<1>1. FloatsPerChannel \in Nat \ {0} /\ FloatsPerChannel <= buffer
  <2>1. job.avg \in Nat \ {0} /\ inp.nsamples \in Nat
    BY InputTypes DEF Refused
  <2>2. OutN \in Nat
    BY <2>1, DivBounds DEF OutN
  <2>3. FloatsPerChannel \in Nat
    BY <2>1, <2>2 DEF FloatsPerChannel
  <2> QED BY <2>3, InputTypes DEF TooSmall
<1> QED BY <1>1, InputTypes, BatchFits

LEMMA BatchInvFits == ASSUME BatchInv PROVE BuffersFit
<1> SUFFICES ASSUME pc \in {"bandpass", "batch", "write"}
             PROVE  /\ batchSize * FloatsPerChannel <= buffer
                    /\ DoBp => ChunkLen * inp.nchans <= batchSize * inp.nsamples
  BY DEF BuffersFit
<1>1. batchSize \in 1..inp.nchans /\ batchSize * FloatsPerChannel <= buffer
  BY BatchSizeFits DEF BatchInv
<1>2. ASSUME DoBp PROVE ChunkLen * inp.nchans <= batchSize * inp.nsamples
  <2>1. BpSamples \in Nat
    BY <1>2, InputTypes DEF BatchInv, Refused, BpSamples, DoBp, LesserOf
  <2>2. batchSize \in Nat
    BY <1>1, InputTypes
  <2> QED BY <2>1, <2>2, InputTypes, ChunkFits DEF ChunkLen
<1> QED BY <1>1, <1>2

LEMMA BatchHolds == Spec => []BatchInv
<1> QED BY InitBatch, NextBatchInv, PTL DEF Spec

\* However much memory prepfil is given, and whatever the shape of the file,
\* what GetBatches and the bandpass measurement put into the buffers of a
\* batch is no more than was made room for.
THEOREM AlwaysBuffersFit == Spec => []BuffersFit
<1> QED BY BatchHolds, BatchInvFits, PTL

-----------------------------------------------------------------------------
(* What is on the disk when prepfil ends.                                  *)

IsFileRecord(file) == DOMAIN file = {"mem", "disk"}
Flushed(file) == file # NoFile => file.disk = file.mem

\* A command line that asks for nothing.
Nothing == ~DoProcessing /\ ~job.edit

\* Files are there when the code takes them for granted: the input of an
\* in-place edit, the file in progress, the published one that is still open.
DurableInv ==
  /\ job.oneFile => IsFileRecord(out)
  /\ pc \in {"bandpass", "batch", "write", "copy"} => IsFileRecord(tmp)
  /\ pc \in {"close", "closeEdited"} => IsFileRecord(out)
  /\ pc = "edit" /\ InPlace => IsFileRecord(out)
  /\ Nothing => pc \in {"parse", "done", "down"} /\ Flushed(out)
  /\ pc = "done" => Flushed(out)

LEMMA FsyncFlushes ==
  ASSUME NEW file, IsFileRecord(file)
  PROVE  IsFileRecord(Fsync(file)) /\ Flushed(Fsync(file))
BY DEF IsFileRecord, Fsync, Flushed

LEMMA NewFileIsRecord == ASSUME NEW hdr PROVE IsFileRecord(NewFile(hdr))
BY DEF IsFileRecord, NewFile

LEMMA SurvivingFlushed ==
  ASSUME NEW file, NEW lost, NEW header
  PROVE  /\ Flushed(Surviving(file, lost, header))
         /\ IsFileRecord(file) => IsFileRecord(Surviving(file, lost, header))
BY DEF IsFileRecord, Surviving, Flushed

LEMMA InputFileFlushed == IsFileRecord(InputFile) /\ Flushed(InputFile)
BY DEF IsFileRecord, InputFile, Flushed

LEMMA InitDurable == Init => DurableInv
<1> SUFFICES ASSUME Init PROVE DurableInv
  OBVIOUS
<1>1. IsFileRecord(InputFile) /\ Flushed(InputFile) /\ Flushed(NoFile)
  BY InputFileFlushed DEF Flushed
<1> QED BY <1>1 DEF Init, DurableInv

\* The command line and so what it asks for never change.
LEMMA SameJob ==
  ASSUME UNCHANGED inputs
  PROVE  /\ Nothing' = Nothing /\ InPlace' = InPlace /\ job' = job
         /\ DoProcessing' = DoProcessing
BY DEF inputs, Nothing, InPlace, DoProcessing, DoAvg, DoBp, DoBase, Masked

LEMMA NextDurable == ASSUME DurableInv, [Next]_vars PROVE DurableInv'
<1>1. CASE Parse
  <2>1. UNCHANGED inputs /\ tmp' = tmp /\ out' = out /\ pc = "parse"
    BY <1>1 DEF Parse
  <2>2. pc' \in {"done", "failed", "setup", "edit"}
    BY <1>1 DEF Parse
  <2>3. pc' = "done" <=> Nothing
    BY <1>1 DEF Parse, Nothing
  <2>4. pc' = "edit" => ~DoProcessing
    BY <1>1 DEF Parse
  <2> QED BY <2>1, <2>2, <2>3, <2>4, SameJob DEF DurableInv, InPlace, Flushed, IsFileRecord
<1>2. ASSUME UNCHANGED inputs, ~Nothing, out' = out,
             pc' \in {"failed", "sigfpe", "sigsegv"}
      PROVE  DurableInv'
  BY <1>2, SameJob DEF DurableInv, Flushed, IsFileRecord
<1>3. ASSUME UNCHANGED inputs, ~Nothing, out' = out, IsFileRecord(tmp'),
             pc' \in {"bandpass", "batch", "write", "copy"}
      PROVE  DurableInv'
  BY <1>3, SameJob DEF DurableInv, Flushed, IsFileRecord
<1>4. ASSUME UNCHANGED inputs, ~Nothing, IsFileRecord(out'),
             pc' \in {"close", "closeEdited"}
      PROVE  DurableInv'
  BY <1>4, SameJob DEF DurableInv, Flushed, IsFileRecord
<1>5. ASSUME UNCHANGED inputs, ~Nothing, IsFileRecord(out'), Flushed(out'),
             pc' \in {"edit", "done"}
      PROVE  DurableInv'
  BY <1>5, SameJob DEF DurableInv, Flushed, IsFileRecord
<1>6. pc \notin {"parse", "done", "down"} => ~Nothing
  BY DEF DurableInv
<1>7. CASE Process
  <2>1. CASE SetupThrows \/ SetupDies \/ BandpassDies \/ BatchDies
    BY <1>2, <1>6, <2>1 DEF SetupThrows, SetupDies, BandpassDies, BatchDies
  <2>2. CASE Create
    BY <1>3, <1>6, <2>2, NewFileIsRecord DEF Create
  <2>3. CASE MeasureChunk \/ KillChannels \/ ProcessBatch \/ NextBatch
    BY <1>3, <1>6, <2>3 DEF MeasureChunk, KillChannels, ProcessBatch, NextBatch,
      DurableInv, IsFileRecord
  <2>4. CASE WriteSample
    <3>1. IsFileRecord(tmp')
      BY <2>4 DEF WriteSample, DurableInv, IsFileRecord
    <3> QED BY <1>3, <1>6, <2>4, <3>1 DEF WriteSample
  <2>5. CASE Publish
    BY <1>4, <1>6, <2>5 DEF Publish, Rename, DurableInv, IsFileRecord
  <2>6. CASE CloseOutput
    <3>1. IsFileRecord(out') /\ Flushed(out')
      BY <2>6, FsyncFlushes DEF CloseOutput, DurableInv
    <3> QED BY <1>5, <1>6, <2>6, <3>1 DEF CloseOutput
  <2> QED BY <1>7, <2>1, <2>2, <2>3, <2>4, <2>5, <2>6 DEF Process
<1>8. CASE ModifyHeader
  <2>1. CASE EditInPlace
    <3>1. CASE out.mem.hdr.padded
      <4>1. IsFileRecord(out')
        BY <2>1, <3>1 DEF EditInPlace, DurableInv, IsFileRecord
      <4> QED BY <1>4, <1>6, <2>1, <3>1, <4>1 DEF EditInPlace
    <3>2. CASE ~out.mem.hdr.padded
      BY <1>2, <1>6, <2>1, <3>2 DEF EditInPlace
    <3> QED BY <3>1, <3>2
  <2>2. CASE StartCopy
    BY <1>3, <1>6, <2>2, NewFileIsRecord DEF StartCopy
  <2>3. CASE CopyChunk
    <3>1. IsFileRecord(tmp')
      BY <2>3 DEF CopyChunk, DurableInv, IsFileRecord
    <3> QED BY <1>3, <1>6, <2>3, <3>1 DEF CopyChunk
  <2>4. CASE PublishCopy
    BY <1>4, <1>6, <2>4 DEF PublishCopy, Rename, DurableInv, IsFileRecord
  <2>5. CASE CloseEdited
    <3>1. IsFileRecord(out') /\ Flushed(out')
      BY <2>5, FsyncFlushes DEF CloseEdited, DurableInv
    <3> QED BY <1>5, <1>6, <2>5, <3>1 DEF CloseEdited
  <2> QED BY <1>8, <2>1, <2>2, <2>3, <2>4, <2>5 DEF ModifyHeader
<1>9. CASE WriteFails
  BY <1>2, <1>6, <1>9 DEF WriteFails
<1>10. ASSUME UNCHANGED inputs, job.oneFile => IsFileRecord(out'),
              Nothing => Flushed(out'), pc' \in {"parse", "down"}
       PROVE  DurableInv'
  BY <1>10, SameJob DEF DurableInv, Flushed, IsFileRecord
<1>11. CASE Kill \/ Rerun
  BY <1>10, <1>11 DEF Kill, Rerun, Failing, DurableInv, Flushed, IsFileRecord
<1>12. CASE PowerFailure
  <2>1. PICK lost \in Losses, header \in BOOLEAN :
          out' = Surviving(out, lost, header)
    BY <1>12 DEF PowerFailure
  <2>2. Flushed(out') /\ (job.oneFile => IsFileRecord(out'))
    BY <2>1, SurvivingFlushed DEF DurableInv
  <2> QED BY <1>10, <1>12, <2>2 DEF PowerFailure, Failing
<1>13. CASE UNCHANGED vars
  BY <1>13, SameJob DEF vars, DurableInv, Flushed, IsFileRecord
<1> QED BY <1>1, <1>7, <1>8, <1>9, <1>11, <1>12, <1>13 DEF Next

\* When prepfil has ended well, what stands under the output's name is on the
\* disk, header and data: the flush comes after the last write and before the
\* end on every path, in-place edits included.
THEOREM AlwaysDurable == Spec => []DoneIsDurable
<1>1. DurableInv => DoneIsDurable
  BY DEF DurableInv, DoneIsDurable, Flushed
<1> QED BY InitDurable, NextDurable, <1>1, PTL DEF Spec

-----------------------------------------------------------------------------
(* The layout: where a sample is written, the sample is found.              *)

HeaderShape(h) == h.nifs \in Nat \ {0} /\ h.nchans \in Nat \ {0} /\ h.nsamples \in Nat

\* An offset counted in samples of all IFs, and in samples of one.
Forms(h, n, i, c) ==
  /\ Offset(h, n, i, c) \in Nat
  /\ h.nifs * h.nchans \in Nat \ {0} /\ h.nchans * i + c \in Nat
  /\ h.nifs * n + i \in Nat
  /\ Offset(h, n, i, c) = (h.nifs * h.nchans) * n + (h.nchans * i + c)
  /\ Offset(h, n, i, c) = h.nchans * (h.nifs * n + i) + c

LEMMA OffsetForms ==
  ASSUME NEW h, HeaderShape(h), NEW n \in Nat, NEW i \in Nat, NEW c \in Nat
  PROVE  Forms(h, n, i, c)
<1> DEFINE F == h.nifs
           C == h.nchans
<1>1. F \in Nat \ {0} /\ C \in Nat \ {0}
  BY DEF HeaderShape
<1>2. Offset(h, n, i, c) = (n * F) * C + i * C + c
  BY DEF Offset
<1> HIDE DEF F, C
<1>3. F * C \in Nat \ {0} /\ C * i \in Nat /\ F * n \in Nat /\ n * F = F * n
      /\ i * C = C * i
  BY <1>1, MulPositive
<1>4. (F * n) * C = C * (F * n) /\ C * (F * n) \in Nat
      /\ C * (F * n + i) = C * (F * n) + C * i
  BY <1>1, <1>3, MulPositive, Distribute
<1>5. C * (F * n) = (C * F) * n /\ C * F = F * C
  BY <1>1, Distribute, MulPositive
<1>6. Offset(h, n, i, c) = C * (F * n) + C * i + c
  BY <1>2, <1>3, <1>4
<1>7. C * (F * n) = (F * C) * n
  BY <1>5
<1> QED BY <1>1, <1>3, <1>4, <1>6, <1>7 DEF Forms, F, C

LEMMA SampleAtOffset ==
  ASSUME NEW h, HeaderShape(h), NEW n \in Nat, NEW i \in 0..(h.nifs - 1),
         NEW c \in 0..(h.nchans - 1)
  PROVE  SampleAt(h, Offset(h, n, i, c)) = <<n, i, c>>
<1> DEFINE F == h.nifs
           C == h.nchans
           o == Offset(h, n, i, c)
<1>1. F \in Nat \ {0} /\ C \in Nat \ {0} /\ i \in 0..(F - 1) /\ c \in 0..(C - 1)
      /\ i \in Nat /\ c \in Nat
  BY DEF HeaderShape
<1>2. /\ F * C \in Nat \ {0} /\ C * i + c \in Nat /\ F * n + i \in Nat
      /\ o = (F * C) * n + (C * i + c) /\ o = C * (F * n + i) + c
  <2>1. i \in Nat /\ c \in Nat
    BY <1>1
  <2>2. Forms(h, n, i, c)
    BY <2>1, OffsetForms
  <2> QED BY <2>2 DEF Forms
<1>3. SampleAt(h, o) = <<o \div (F * C), (o \div C) % F, o % C>>
  BY DEF SampleAt
<1> HIDE DEF F, C, o
<1>4. C * i + c <= F * C - 1
  <2>1. C * (i + 1) <= C * F /\ C * (i + 1) = C * i + C
    BY <1>1, MulMonotone, Distribute
  <2>2. C * F = F * C /\ C * i \in Nat
    BY <1>1, MulPositive
  <2> QED BY <1>1, <1>2, <2>1, <2>2
<1>5. o \div (F * C) = n
  <2> DEFINE y == F * C
             r == C * i + c
  <2>1. r \in 0..(y - 1) /\ y \in Nat \ {0} /\ o = y * n + r
    BY <1>2, <1>4
  <2> HIDE DEF y, r
  <2>2. o \div y = n
    BY <2>1, DivMod
  <2> QED BY <2>2 DEF y
<1>6. o \div C = F * n + i /\ o % C = c
  <2> DEFINE x == F * n + i
  <2>1. x \in Nat /\ o = C * x + c
    BY <1>2
  <2> HIDE DEF x
  <2>2. o \div C = x /\ o % C = c
    BY <1>1, <2>1, DivMod
  <2> QED BY <2>2 DEF x
<1>7. (F * n + i) % F = i
  BY <1>1, DivMod
<1> QED BY <1>3, <1>5, <1>6, <1>7 DEF o

LEMMA OffsetInside ==
  ASSUME NEW h, HeaderShape(h), NEW n \in 0..(h.nsamples - 1),
         NEW i \in 0..(h.nifs - 1), NEW c \in 0..(h.nchans - 1)
  PROVE  Offset(h, n, i, c) \in Positions(h)
<1> DEFINE F == h.nifs
           C == h.nchans
           N == h.nsamples
<1>1. F \in Nat \ {0} /\ C \in Nat \ {0} /\ N \in Nat /\ n \in 0..(N - 1)
      /\ i \in 0..(F - 1) /\ c \in 0..(C - 1) /\ n \in Nat /\ i \in Nat /\ c \in Nat
  BY DEF HeaderShape
<1>2. /\ F * n + i \in Nat /\ Offset(h, n, i, c) \in Nat
      /\ Offset(h, n, i, c) = C * (F * n + i) + c
  <2>1. n \in Nat /\ i \in Nat /\ c \in Nat
    BY <1>1
  <2>2. Forms(h, n, i, c)
    BY <2>1, OffsetForms
  <2> QED BY <2>2 DEF Forms
<1>3. Positions(h) = 0..((N * F) * C - 1)
  BY DEF Positions
<1> HIDE DEF F, C, N
<1>4. F * (n + 1) <= F * N /\ F * (n + 1) = F * n + F /\ F * N \in Nat
      /\ F * n \in Nat /\ N * F = F * N
  BY <1>1, MulMonotone, Distribute, MulPositive
<1>5. F * n + i + 1 <= F * N
  BY <1>1, <1>4
<1>6. C * (F * n + i + 1) <= C * (F * N)
      /\ C * (F * n + i + 1) = C * (F * n + i) + C
      /\ C * (F * N) = (N * F) * C /\ C * (F * N) \in Nat
  <2> DEFINE x == F * n + i
             y == F * N
  <2>1. x \in Nat /\ y \in Nat /\ x + 1 <= y
    BY <1>2, <1>4, <1>5
  <2> HIDE DEF x, y
  <2>2. C * (x + 1) <= C * y /\ C * (x + 1) = C * x + C
        /\ C * y = y * C /\ C * y \in Nat
    BY <1>1, <2>1, MulMonotone, Distribute, MulPositive
  <2> QED BY <1>4, <2>2 DEF x, y
<1> QED BY <1>1, <1>2, <1>3, <1>6

\* Every position is that of a sample.
LEMMA PositionOfSample ==
  ASSUME NEW h, HeaderShape(h), NEW o \in Positions(h)
  PROVE  \E n \in 0..(h.nsamples - 1), i \in 0..(h.nifs - 1), c \in 0..(h.nchans - 1) :
           o = Offset(h, n, i, c) /\ SampleAt(h, o) = <<n, i, c>>
<1> DEFINE F == h.nifs
           C == h.nchans
           N == h.nsamples
           q == o \div C
           c == o % C
           n == q \div F
           i == q % F
<1>1. F \in Nat \ {0} /\ C \in Nat \ {0} /\ N \in Nat /\ N * F \in Nat
      /\ (N * F) * C \in Nat
  BY MulPositive DEF HeaderShape
<1>2. o \in Nat /\ o < (N * F) * C
  BY <1>1 DEF Positions
<1>3. q \in Nat /\ c \in 0..(C - 1) /\ o = C * q + c /\ C * q \in Nat
  BY <1>1, <1>2, DivParts
<1> HIDE DEF q, c
<1>4. n \in Nat /\ i \in 0..(F - 1) /\ q = F * n + i /\ F * n \in Nat
  BY <1>1, <1>3, DivParts
<1> HIDE DEF n, i, F, C, N
<1>5. n < N
  <2>1. SUFFICES ASSUME N <= n PROVE FALSE
    BY <1>1, <1>4
  <2>2. F * N <= F * n /\ F * N = N * F
    BY <1>1, <1>4, <2>1, MulMonotone, MulPositive
  <2>3. N * F <= q
    BY <1>1, <1>4, <2>2
  <2>4. C * (N * F) <= C * q /\ C * (N * F) = (N * F) * C
    BY <1>1, <1>3, <2>3, MulMonotone, MulPositive
  <2> QED BY <1>1, <1>2, <1>3, <2>4
<1>6. n \in 0..(h.nsamples - 1) /\ i \in 0..(h.nifs - 1) /\ c \in 0..(h.nchans - 1)
      /\ n \in Nat /\ i \in Nat /\ c \in Nat
  BY <1>1, <1>3, <1>4, <1>5 DEF F, C, N
<1>7. o = Offset(h, n, i, c)
  <2>1. Forms(h, n, i, c)
    BY <1>6, OffsetForms
  <2> QED BY <1>3, <1>4, <2>1 DEF Forms, F, C
<1>8. SampleAt(h, o) = <<n, i, c>>
  BY <1>6, <1>7, SampleAtOffset
<1> QED BY <1>6, <1>7, <1>8

\* Two samples have two places.
LEMMA OffsetInjective ==
  ASSUME NEW h, HeaderShape(h),
         NEW n \in Nat, NEW i \in 0..(h.nifs - 1), NEW c \in 0..(h.nchans - 1),
         NEW m \in Nat, NEW j \in 0..(h.nifs - 1), NEW d \in 0..(h.nchans - 1),
         Offset(h, n, i, c) = Offset(h, m, j, d)
  PROVE  n = m /\ i = j /\ c = d
<1>1. <<n, i, c>> = <<m, j, d>>
  BY SampleAtOffset
<1> QED BY <1>1

-----------------------------------------------------------------------------
(* A row of the output holds what was asked for.                           *)

Values == [of : SUBSET (Nat \X Nat \X Nat), done : SUBSET {"bandpass", "baseline"}]

\* What Create has made sure of.
Ready == inp \in Inputs /\ job \in Jobs /\ ~Refused

LEMMA ReadyTypes ==
  ASSUME Ready
  PROVE  /\ HeaderShape(inp) /\ job.avg \in Nat \ {0} /\ job.drop \in Nat
         /\ OutN \in Nat /\ OutN <= inp.nsamples /\ job.avg * OutN <= inp.nsamples
         /\ ~DoAvg => job.avg = 1 /\ OutN = inp.nsamples
<1>1. inp \in [nifs : Nat \ {0}, nchans : Nat \ {0}, nsamples : Nat,
               barycentric : 0..1, padded : BOOLEAN]
  BY PrepfilAssumption DEF Ready
<1>2. HeaderShape(inp)
  BY <1>1 DEF HeaderShape
<1>3. job.avg \in Nat \ {0} /\ job.drop \in Nat
  BY PrepfilAssumption DEF Ready, Refused
<1>4. OutN \in Nat /\ job.avg * OutN <= inp.nsamples
  BY <1>2, <1>3, DivBounds DEF OutN, HeaderShape
<1>5. OutN <= inp.nsamples
  <2>1. 1 * OutN <= job.avg * OutN /\ job.avg * OutN \in Nat /\ 1 * OutN = OutN
    BY <1>3, <1>4, MulMonotone, MulPositive
  <2> QED BY <1>2, <1>4, <2>1 DEF HeaderShape
<1>6. ASSUME ~DoAvg PROVE job.avg = 1 /\ OutN = inp.nsamples
  BY <1>2, <1>6 DEF DoAvg, OutN, HeaderShape
<1> QED BY <1>2, <1>3, <1>4, <1>5, <1>6

LEMMA OutShape ==
  ASSUME Ready
  PROVE  /\ HeaderShape(OutHeader) /\ OutHeader.nifs = inp.nifs
         /\ OutHeader.nchans = inp.nchans /\ OutHeader.nsamples = OutN
<1>1. /\ OutHeader.nifs = inp.nifs /\ OutHeader.nchans = inp.nchans
      /\ OutHeader.nsamples = IF DoAvg THEN OutN ELSE inp.nsamples
  BY DEF OutHeader
<1>2. OutHeader.nsamples = OutN
  BY <1>1, ReadyTypes
<1> QED BY <1>1, <1>2, ReadyTypes DEF HeaderShape

\* The samples that are averaged into one.
SamplesOf(n, i, c) == {<<n * job.avg + m, i, c>> : m \in 0..(job.avg - 1)}
Bp   == IF DoBp THEN {"bandpass"} ELSE {}
Base == IF DoBase THEN {"baseline"} ELSE {}

LEMMA SamplesInside ==
  ASSUME Ready, NEW n \in OutTimes, NEW m \in 0..(job.avg - 1)
  PROVE  n * job.avg + m \in 0..(inp.nsamples - 1)
<1> DEFINE a == job.avg
           N == inp.nsamples
<1>1. /\ a \in Nat \ {0} /\ N \in Nat /\ OutN \in Nat /\ a * OutN <= N
      /\ n \in 0..(OutN - 1) /\ m \in 0..(a - 1)
  BY ReadyTypes DEF OutTimes, HeaderShape
<1> HIDE DEF a, N
<1>2. /\ a * (n + 1) <= a * OutN /\ a * (n + 1) = a * n + a /\ n * a = a * n
      /\ a * n \in Nat /\ a * OutN \in Nat
  BY <1>1, MulMonotone, MulPositive, Distribute
<1>3. n * a + m \in 0..(N - 1)
  BY <1>1, <1>2
<1> QED BY <1>3 DEF a, N

LEMMA AveragedRight ==
  ASSUME Ready, NEW i \in 0..(inp.nifs - 1), NEW c \in Channels, NEW n \in OutTimes
  PROVE  /\ Averaged(i, c)[n] = Value(SamplesOf(n, i, c), Bp)
         /\ SamplesOf(n, i, c) \subseteq Nat \X Nat \X Nat
<1>1. ASSUME NEW m \in 0..(job.avg - 1)
      PROVE  /\ SampleAt(inp, Offset(inp, n * job.avg + m, i, c)) = <<n * job.avg + m, i, c>>
             /\ <<n * job.avg + m, i, c>> \in Nat \X Nat \X Nat
  <2> DEFINE x == n * job.avg + m
  <2>1. x \in 0..(inp.nsamples - 1) /\ inp.nsamples \in Nat /\ HeaderShape(inp)
    BY SamplesInside, ReadyTypes DEF HeaderShape
  <2> HIDE DEF x
  <2>2. x \in Nat /\ i \in Nat /\ c \in 0..(inp.nchans - 1) /\ c \in Nat
    BY <2>1 DEF HeaderShape, Channels
  <2>3. SampleAt(inp, Offset(inp, x, i, c)) = <<x, i, c>>
    BY <2>1, <2>2, SampleAtOffset
  <2> QED BY <2>2, <2>3 DEF x
<1>2. {SampleAt(inp, Offset(inp, n * job.avg + m, i, c)) : m \in 0..(job.avg - 1)}
        = SamplesOf(n, i, c)
  BY <1>1 DEF SamplesOf
<1>3. SamplesOf(n, i, c) \subseteq Nat \X Nat \X Nat
  BY <1>1 DEF SamplesOf
<1>4. Averaged(i, c)[n] =
        Value({SampleAt(inp, Offset(inp, n * job.avg + m, i, c)) : m \in 0..(job.avg - 1)}, Bp)
  BY DEF Averaged, Bp
<1> QED BY <1>2, <1>3, <1>4

WithDone(v, more) == [v EXCEPT !.done = @ \cup more]

LEMMA ValueDone ==
  ASSUME NEW samples, NEW done, NEW more
  PROVE  WithDone(Value(samples, done), more) = Value(samples, done \cup more)
BY DEF Value, WithDone

LEMMA BaselineRight ==
  ASSUME Ready, NEW i \in 0..(inp.nifs - 1), NEW c \in Channels, NEW n \in OutTimes
  PROVE  /\ WithoutBaseline(Averaged(i, c))[n] = Value(SamplesOf(n, i, c), Bp \cup Base)
         /\ WithoutBaseline(ZeroRow)[n] = Zero
<1>1. Averaged(i, c)[n] = Value(SamplesOf(n, i, c), Bp)
      /\ SamplesOf(n, i, c) \subseteq Nat \X Nat \X Nat
  BY AveragedRight
<1>2. WithoutBaseline(ZeroRow)[n] = Zero
  BY DEF WithoutBaseline, ZeroRow
<1>3. CASE ~DoBase
  <2>1. Bp \cup Base = Bp
    BY <1>3 DEF Base
  <2>2. WithoutBaseline(Averaged(i, c)) = Averaged(i, c)
    BY <1>3 DEF WithoutBaseline
  <2> QED BY <1>1, <1>2, <2>1, <2>2
<1>4. CASE DoBase
  <2>1. Averaged(i, c) # ZeroRow
    <3>1. ZeroRow[n] = Zero
      BY DEF ZeroRow
    <3>2. Value(SamplesOf(n, i, c), Bp) \in Values
      BY <1>1 DEF Value, Values, Bp
    <3> QED BY <1>1, <3>1, <3>2, NamesDiffer DEF Values
  <2>2. WithoutBaseline(Averaged(i, c))[n] = WithDone(Averaged(i, c)[n], {"baseline"})
    BY <1>4, <2>1 DEF WithoutBaseline, WithDone
  <2>3. WithDone(Value(SamplesOf(n, i, c), Bp), {"baseline"})
          = Value(SamplesOf(n, i, c), Bp \cup {"baseline"})
    BY ValueDone
  <2>4. Base = {"baseline"}
    BY <1>4 DEF Base
  <2> QED BY <1>1, <1>2, <2>2, <2>3, <2>4
<1> QED BY <1>3, <1>4

LEMMA MaskShape ==
  ASSUME Ready, Masked
  PROVE  /\ job.mask.nchans = inp.nchans /\ job.mask.size \in Nat \ {0}
         /\ job.mask.nints = (inp.nsamples + job.mask.size - 1) \div job.mask.size
         /\ job.mask.chans \subseteq Nat /\ job.mask.ints \subseteq Nat
         /\ Intervals(job.mask) \subseteq Nat
         /\ \A i \in Intervals(job.mask) : job.mask.perInt[i] \subseteq Nat
BY MaskAssumption DEF Ready, Refused, Masked, Accepted, Intervals

\* The conversion of the class finds the channel the file speaks of.
LEMMA ChannelIsSame ==
  ASSUME Ready, Masked, NEW c \in Channels, NEW d \in Nat
  PROVE  Channel(job.mask, d) = c <=> SameChannel(d, c)
<1>1. inp.nchans \in Nat /\ c \in Int /\ job.mask.nchans = inp.nchans
  BY ReadyTypes, MaskShape DEF HeaderShape, Channels
<1>2. CASE job.mask.inverted
  BY <1>1, <1>2 DEF Channel, SameChannel
<1>3. CASE ~job.mask.inverted
  BY <1>3 DEF Channel, SameChannel
<1> QED BY <1>2, <1>3

LEMMA KillsAreZapped ==
  ASSUME Ready, NEW c \in Channels, MaskKills(c)
  PROVE  c \in ZappedChannels(job.mask)
<1>1. Masked
  BY DEF MaskKills
<1>2. PICK d \in job.mask.chans : SameChannel(d, c)
  BY DEF MaskKills
<1>3. d \in Nat
  BY <1>1, <1>2, MaskShape
<1>4. Channel(job.mask, d) = c
  BY <1>1, <1>2, <1>3, ChannelIsSame
<1> QED BY <1>2, <1>4 DEF ZappedChannels

\* A sample of the file lies in one of the intervals of its mask.
LEMMA IntervalOf ==
  ASSUME Ready, Masked, NEW n \in 0..(inp.nsamples - 1)
  PROVE  n \div job.mask.size \in Intervals(job.mask)
<1> DEFINE N == inp.nsamples
           size == job.mask.size
           k == n \div size
           m == (N + size - 1) \div size
<1>1. size \in Nat \ {0} /\ N \in Nat /\ n \in Nat /\ n < N
  BY ReadyTypes, MaskShape DEF HeaderShape
<1>2. m = job.mask.nints
  BY MaskShape
<1> HIDE DEF N, size
<1>3. k \in Nat /\ size * k <= n
  BY <1>1, DivBounds
<1>4. m \in Nat /\ N + size - 1 < size * m + size /\ size * m \in Nat
  <2> DEFINE x == N + size - 1
  <2>1. x \in Nat
    BY <1>1
  <2> HIDE DEF x
  <2>2. x \div size \in Nat /\ x < size * (x \div size) + size
    BY <1>1, <2>1, DivBounds
  <2>3. x \div size = m
    BY DEF x
  <2> HIDE DEF m
  <2> QED BY <1>1, <2>1, <2>2, <2>3, MulPositive DEF x
<1> HIDE DEF k, m
<1>5. k < m
  <2>1. SUFFICES ASSUME m <= k PROVE FALSE
    BY <1>3, <1>4
  <2>2. size * m <= size * k /\ size * k \in Nat
    BY <1>1, <1>3, <1>4, <2>1, MulMonotone, MulPositive
  <2> QED BY <1>1, <1>3, <1>4, <2>2
<1>6. k \in 0..(m - 1)
  BY <1>3, <1>4, <1>5
<1> QED BY <1>2, <1>6 DEF Intervals, k, size

LEMMA ZappedIsAsked ==
  ASSUME Ready, Masked, NEW c \in Channels, NEW n \in OutTimes
  PROVE  /\ n \in Zapped(c) => MaskZaps(c, n)
         /\ MaskZaps(c, n) => n \in Zapped(c)
<1> DEFINE size == job.mask.size
           k == n \div size
<1>1. /\ size \in Nat \ {0} /\ OutN \in Nat /\ n \in 0..(OutN - 1) /\ n \in Nat
      /\ OutN <= inp.nsamples /\ inp.nsamples \in Nat
  BY ReadyTypes, MaskShape DEF OutTimes, HeaderShape
<1>2. k \in Nat /\ size * k <= n
  BY <1>1, DivBounds
<1>3. \A i \in Nat : n \in Piece(OutN, i, size) <=> i = k
  BY <1>1, PieceOf
<1>4. k \in Intervals(job.mask)
  <2>1. n \in 0..(inp.nsamples - 1)
    BY <1>1
  <2> QED BY <2>1, IntervalOf
<1> HIDE DEF k, size
<1>5. MaskZaps(c, n) <=>
        k \in job.mask.ints \/ \E d \in job.mask.perInt[k] : SameChannel(d, c)
  BY DEF MaskZaps, k, size
<1>6. ZappedIntervalsPerChannel(job.mask, c) \subseteq Nat
  BY MaskShape DEF ZappedIntervalsPerChannel
<1>7. n \in Zapped(c) <=> k \in ZappedIntervalsPerChannel(job.mask, c)
  BY <1>2, <1>3, <1>6 DEF Zapped, size
<1>8. \A d \in job.mask.perInt[k] : Channel(job.mask, d) = c <=> SameChannel(d, c)
  BY <1>4, MaskShape, ChannelIsSame
<1>9. k \in ZappedIntervalsPerChannel(job.mask, c) <=>
        k \in job.mask.ints \/ \E d \in job.mask.perInt[k] : SameChannel(d, c)
  BY <1>4, <1>8 DEF ZappedIntervalsPerChannel
<1> QED BY <1>5, <1>7, <1>9

\* A row before barycentring.
RowBefore(i, c) ==
  WithoutRFI(WithoutBaseline(IF c \in kill /\ (DoBp \/ DoAvg) THEN ZeroRow
                             ELSE Averaged(i, c)), c)

LEMMA RowBeforeRight ==
  ASSUME Ready, Masked => ZappedChannels(job.mask) \subseteq kill,
         NEW i \in 0..(inp.nifs - 1), NEW c \in Channels, NEW n \in OutTimes
  PROVE  /\ Asked(n, i, c, RowBefore(i, c)[n])
         /\ RowBefore(i, c)[n] \in Values \cup {Zero}
<1> DEFINE row == WithoutBaseline(IF c \in kill /\ (DoBp \/ DoAvg) THEN ZeroRow
                                  ELSE Averaged(i, c))
           v == Value(SamplesOf(n, i, c), Bp \cup Base)
<1>1. v \in Values
  BY AveragedRight DEF Value, Values, Bp, Base
<1>2. row[n] = IF c \in kill /\ (DoBp \/ DoAvg) THEN Zero ELSE v
  BY BaselineRight
<1>3. RowBefore(i, c)[n] = IF Masked /\ c \notin kill /\ n \in Zapped(c) THEN Zero
                           ELSE row[n]
  BY DEF RowBefore, WithoutRFI
<1>4. MaskKills(c) => c \in kill
  BY KillsAreZapped DEF MaskKills
<1>5. Masked => (n \in Zapped(c) <=> MaskZaps(c, n))
  BY ZappedIsAsked
<1>6. MaskZaps(c, n) => Masked
  BY DEF MaskZaps
<1>7. v = Value({<<n * job.avg + m, i, c>> : m \in 0..(job.avg - 1)},
                (IF DoBp THEN {"bandpass"} ELSE {})
                  \cup (IF DoBase THEN {"baseline"} ELSE {}))
  BY DEF SamplesOf, Bp, Base
<1> HIDE DEF v, row
<1>8. RowBefore(i, c)[n] \in Values \cup {Zero}
  BY <1>1, <1>2, <1>3
<1>9. Asked(n, i, c, RowBefore(i, c)[n])
  <2> DEFINE w == RowBefore(i, c)[n]
  <2>1. c \in kill /\ (DoAvg \/ DoBp) => w = Zero
    BY <1>2, <1>3
  <2>2. c \notin kill /\ MaskZaps(c, n) /\ ~DoAvg => w = Zero
    BY <1>3, <1>5, <1>6
  <2>3. c \notin kill /\ ~(Masked /\ DoAvg) /\ ~MaskZaps(c, n) => w = v
    BY <1>2, <1>3, <1>5
  <2> HIDE DEF w
  <2>4. Asked(n, i, c, w)
    BY <1>4, <1>7, <2>1, <2>2, <2>3 DEF Asked
  <2> QED BY <2>4 DEF w
<1> QED BY <1>8, <1>9

\* The n-th value of a row that belongs at this place of the output.
Belongs(n, i, c, v) ==
  LET m == n + (IF Correcting THEN job.drop ELSE 0)
  IN  IF m < OutN THEN Asked(m, i, c, v) ELSE v = Zero

LEMMA RowRight ==
  ASSUME Ready, Masked => ZappedChannels(job.mask) \subseteq kill,
         NEW i \in 0..(inp.nifs - 1), NEW c \in Channels, NEW n \in OutTimes
  PROVE  /\ Belongs(n, i, c, Row(i, c)[n])
         /\ Row(i, c)[n] \in Values \cup {Zero}
<1>1. Row(i, c) = Corrected(RowBefore(i, c))
  BY DEF Row, RowBefore
<1>2. job.drop \in Nat /\ OutN \in Nat /\ n \in 0..(OutN - 1)
  BY ReadyTypes DEF OutTimes
<1>3. CASE ~Correcting
  <2>1. Row(i, c)[n] = RowBefore(i, c)[n]
    BY <1>1, <1>3 DEF Corrected
  <2>2. n + 0 = n /\ n < OutN
    BY <1>2
  <2> QED BY <1>3, <2>1, <2>2, RowBeforeRight DEF Belongs
<1>4. CASE Correcting
  <2> DEFINE m == n + job.drop
  <2>1. Row(i, c)[n] = IF m < OutN THEN RowBefore(i, c)[m] ELSE Zero
    BY <1>1, <1>4 DEF Corrected
  <2>2. m < OutN => m \in OutTimes
    BY <1>2 DEF OutTimes
  <2>3. Belongs(n, i, c, Row(i, c)[n]) <=>
          IF m < OutN THEN Asked(m, i, c, Row(i, c)[n]) ELSE Row(i, c)[n] = Zero
    BY <1>4 DEF Belongs
  <2> HIDE DEF m
  <2>4. CASE m < OutN
    <3>1. m \in OutTimes /\ Row(i, c)[n] = RowBefore(i, c)[m]
      BY <2>1, <2>2, <2>4
    <3>2. Asked(m, i, c, RowBefore(i, c)[m]) /\ RowBefore(i, c)[m] \in Values \cup {Zero}
      BY <3>1, RowBeforeRight
    <3> QED BY <2>3, <2>4, <3>1, <3>2
  <2>5. CASE ~(m < OutN)
    BY <2>1, <2>3, <2>5
  <2> QED BY <2>4, <2>5
<1> QED BY <1>3, <1>4

-----------------------------------------------------------------------------
(* From the file in progress to the published result.                      *)

IFs == 0..(inp.nifs - 1)
IsFileOf(file) ==
  DOMAIN file = {"mem", "disk"} /\ DOMAIN file.mem = {"hdr", "data"}

\* Every value of a file is one that belongs there.
DataRight(file) ==
  \A n \in OutTimes, i \in IFs, c \in Channels :
    Belongs(n, i, c, file.mem.data[Offset(inp, n, i, c)])

\* The input, edited in place or not yet.
InputHeader == InputFile.mem.hdr
InputKept ==
  /\ IsFileOf(out)
  /\ out.mem.data = InputFile.mem.data /\ out.disk.data = InputFile.mem.data
  /\ out.mem.hdr \in {InputHeader, [InputHeader EXCEPT !.edited = TRUE]}
  /\ out.disk.hdr \in {InputHeader, [InputHeader EXCEPT !.edited = TRUE]}

\* What is written: the IFs before f, the batches before b, and of the batch
\* in buf the samples before t.
Done(n, i, c) ==
  \/ i < f
  \/ i = f /\ c < First(b, batchSize)
  \/ i = f /\ pc = "write" /\ n < t /\ c \in Piece(inp.nchans, b, batchSize)

Fresh ==
  /\ IsFileOf(tmp) /\ tmp.mem.hdr = OutHeader
  /\ DOMAIN tmp.mem.data = Positions(OutHeader)
Written ==
  \A n \in OutTimes, i \in IFs, c \in Channels :
    Done(n, i, c) => tmp.mem.data[Offset(inp, n, i, c)] = Row(i, c)[n]
InBatch ==
  /\ f < inp.nifs /\ t \in 0..OutN
  /\ buf = [c \in Piece(inp.nchans, b, batchSize) |-> Row(f, c)]
Progress ==
  /\ Fresh /\ f \in 0..inp.nifs /\ b \in 0..(NumBatches - 1) /\ Written
  /\ pc = "write" => InBatch
  /\ f = inp.nifs => b = 0

Copying ==
  /\ IsFileOf(tmp) /\ copied \in 0..DataSize
  /\ tmp.mem.hdr = [InputHeader EXCEPT !.padded = TRUE, !.edited = TRUE]
  /\ DOMAIN tmp.mem.data = Positions(inp)
  /\ \A o \in 0..(copied - 1) : tmp.mem.data[o] = InputFile.mem.data[o]

Result(edited) ==
  /\ tmp = NoFile /\ IsFileOf(out) /\ DataRight(out) /\ WholeFile(out)
  /\ out.mem.hdr = [OutHeader EXCEPT !.edited = edited]

Common ==
  /\ inp \in Inputs /\ job \in Jobs
  /\ job.oneFile => tmp = NoFile /\ InputKept
  /\ failure = "kill" => NameMeansWhole
Control ==
  /\ pc \in {"setup", "bandpass", "batch", "write", "close"} =>
       DoProcessing /\ ~job.oneFile
  /\ pc \in {"edit", "copy", "closeEdited"} => job.edit
  /\ pc = "copy" => ~InPlace
  /\ pc \in {"edit", "closeEdited", "done"} => ~(DoProcessing /\ job.oneFile)
  /\ pc \in {"bandpass", "batch", "write", "close"} => Ready
  /\ DoProcessing /\ pc \in {"edit", "closeEdited", "done"} => Ready
  /\ pc \in {"parse", "setup", "bandpass", "down"} => b = 0 /\ f = 0
  /\ pc \in {"bandpass", "batch", "write"} /\ Masked =>
       ZappedChannels(job.mask) \subseteq kill
Files ==
  /\ pc = "bandpass" => Fresh
  /\ pc \in {"batch", "write"} => Progress
  /\ pc = "copy" => Copying
  /\ pc = "close" \/ (pc = "edit" /\ DoProcessing) => Result(FALSE)
  /\ pc = "closeEdited" \/ (pc = "done" /\ ~Nothing) => Result(job.edit)
OutInv == Common /\ Control /\ Files

Headers == [nifs : Nat, nchans : Nat, nsamples : Nat, barycentric : 0..1,
            padded : BOOLEAN, edited : BOOLEAN]

LEMMA SameInputs ==
  ASSUME UNCHANGED inputs
  PROVE  /\ inp' = inp /\ job' = job /\ failure' = failure
         /\ Ready' = Ready /\ Nothing' = Nothing /\ InPlace' = InPlace
         /\ DoProcessing' = DoProcessing /\ Masked' = Masked
         /\ OutHeader' = OutHeader /\ OutN' = OutN /\ OutTimes' = OutTimes
         /\ Channels' = Channels /\ IFs' = IFs
         /\ InputFile' = InputFile /\ InputHeader' = InputHeader
         /\ DataSize' = DataSize
BY DEF inputs, Ready, Refused, Nothing, InPlace, DoProcessing, DoAvg, DoBp,
  DoBase, Masked, OutHeader, OutN, OutTimes, Channels, IFs, InputFile, InputHeader,
  DataSize, Correcting, Positions, SampleAt, Value

LEMMA BelongsStays ==
  ASSUME UNCHANGED inputs, kill' = kill, NEW n, NEW i, NEW c, NEW v
  PROVE  Belongs(n, i, c, v)' = Belongs(n, i, c, v)
BY DEF inputs, Belongs, Correcting, OutN, Asked, MaskKills, MaskZaps, Masked,
  SameChannel, DoAvg, DoBp, DoBase, Value

LEMMA RowStays ==
  ASSUME UNCHANGED inputs, kill' = kill, NEW i, NEW c
  PROVE  Row(i, c)' = Row(i, c)
<1>1. inp' = inp /\ job' = job /\ kill' = kill
  BY DEF inputs
<1> QED
  BY <1>1 DEF Row, ZeroRow, OutTimes, OutN, DoBp, DoAvg, DoBase, Averaged, Value, SampleAt,
    Offset, WithoutBaseline, WithoutRFI, Masked, Zapped, Piece, First, Length,
    LesserOf, ZappedIntervalsPerChannel, Intervals, Channel, Corrected, Correcting

LEMMA DataStays ==
  ASSUME UNCHANGED inputs, kill' = kill, DataRight(out),
         out'.mem.data = out.mem.data
  PROVE  DataRight(out)'
<1>1. inp' = inp /\ OutTimes' = OutTimes /\ IFs' = IFs /\ Channels' = Channels
  BY SameInputs
<1>2. ASSUME NEW n \in OutTimes, NEW i \in IFs, NEW c \in Channels
      PROVE  Belongs(n, i, c, out.mem.data[Offset(inp, n, i, c)])'
  <2>1. PICK v : v = out.mem.data[Offset(inp, n, i, c)]
    OBVIOUS
  <2>2. out.mem.data[Offset(inp, n, i, c)]' = v
    BY <1>1, <2>1 DEF Offset
  <2>3. Belongs(n, i, c, v)'
    BY <2>1, BelongsStays DEF DataRight
  <2> QED BY <2>2, <2>3 DEF Belongs, Asked
<1> QED BY <1>1, <1>2 DEF DataRight

LEMMA InputTyped ==
  ASSUME inp \in Inputs
  PROVE  /\ HeaderShape(inp) /\ inp.nsamples \in Nat
         /\ inp.barycentric \in 0..1 /\ inp.padded \in BOOLEAN
         /\ InputHeader \in Headers
         /\ [InputHeader EXCEPT !.edited = TRUE] \in Headers
<1>1. inp \in [nifs : Nat \ {0}, nchans : Nat \ {0}, nsamples : Nat,
               barycentric : 0..1, padded : BOOLEAN]
  BY PrepfilAssumption
<1>2. InputHeader = [nifs |-> inp.nifs, nchans |-> inp.nchans,
                     nsamples |-> inp.nsamples, barycentric |-> inp.barycentric,
                     padded |-> inp.padded, edited |-> FALSE]
  BY DEF InputHeader, InputFile
<1> QED BY <1>1, <1>2 DEF HeaderShape, Headers

LEMMA InputFileShape ==
  /\ IsFileOf(InputFile) /\ InputFile.disk.data = InputFile.mem.data
  /\ InputFile.disk.hdr = InputHeader /\ InputFile.mem.hdr = InputHeader
  /\ InputFile.mem.data = [o \in Positions(inp) |-> Value({SampleAt(inp, o)}, {})]
BY DEF IsFileOf, InputFile, InputHeader

LEMMA InputValues ==
  ASSUME inp \in Inputs, NEW o \in Positions(inp)
  PROVE  InputFile.mem.data[o] \in Values
<1>1. PICK n \in 0..(inp.nsamples - 1), i \in 0..(inp.nifs - 1), c \in 0..(inp.nchans - 1) :
        SampleAt(inp, o) = <<n, i, c>>
  BY InputTyped, PositionOfSample
<1>2. n \in Nat /\ i \in Nat /\ c \in Nat
  BY InputTyped DEF HeaderShape
<1>3. {SampleAt(inp, o)} \in SUBSET (Nat \X Nat \X Nat)
  BY <1>1, <1>2
<1> QED BY <1>3, InputFileShape DEF Value, Values

\* A file that is only to get another header holds what is asked for.
LEMMA InputRight ==
  ASSUME inp \in Inputs, job \in Jobs, ~DoProcessing
  PROVE  /\ Ready
         /\ \A n \in OutTimes, i \in IFs, c \in Channels :
              Belongs(n, i, c, InputFile.mem.data[Offset(inp, n, i, c)])
<1>1. ~DoAvg /\ ~DoBp /\ ~DoBase /\ ~job.obs /\ ~Masked /\ job.avg = 1
  BY DEF DoProcessing, DoAvg
<1>2. Ready
  BY <1>1, PrepfilAssumption DEF Ready, Refused, DoBp, DoBase
<1>3. ASSUME NEW n \in OutTimes, NEW i \in IFs, NEW c \in Channels
      PROVE  Belongs(n, i, c, InputFile.mem.data[Offset(inp, n, i, c)])
  <2>1. OutN = inp.nsamples /\ inp.nsamples \in Nat /\ n \in 0..(inp.nsamples - 1)
        /\ n \in Nat /\ n < OutN /\ HeaderShape(inp)
    BY <1>1, <1>2, ReadyTypes DEF OutTimes, HeaderShape
  <2>2. i \in 0..(inp.nifs - 1) /\ c \in 0..(inp.nchans - 1)
    BY DEF IFs, Channels
  <2>3. Offset(inp, n, i, c) \in Positions(inp)
    BY <2>1, <2>2, OffsetInside
  <2>4. InputFile.mem.data[Offset(inp, n, i, c)] = Value({<<n, i, c>>}, {})
    <3>1. SampleAt(inp, Offset(inp, n, i, c)) = <<n, i, c>>
      BY <2>1, <2>2, SampleAtOffset
    <3> DEFINE o == Offset(inp, n, i, c)
    <3> HIDE DEF o
    <3>2. o \in Positions(inp) => InputFile.mem.data[o] = Value({SampleAt(inp, o)}, {})
      BY InputFileShape
    <3> QED BY <2>3, <3>1, <3>2 DEF o
  <2>5. SamplesOf(n, i, c) = {<<n, i, c>>}
    <3>1. 0..(job.avg - 1) = {0} /\ n * job.avg + 0 = n
      BY <1>1, <2>1
    <3> QED BY <3>1 DEF SamplesOf
  <2>6. Bp \cup Base = {}
    BY <1>1 DEF Bp, Base
  <2>7. ~MaskKills(c) /\ ~MaskZaps(c, n)
    BY <1>1 DEF MaskKills, MaskZaps
  <2>8. Asked(n, i, c, Value({<<n, i, c>>}, {}))
    BY <1>1, <2>5, <2>6, <2>7 DEF Asked, SamplesOf, Bp, Base
  <2>9. ~Correcting /\ n + 0 = n
    BY <1>1, <2>1 DEF Correcting
  <2> QED BY <2>1, <2>4, <2>8, <2>9 DEF Belongs
<1> QED BY <1>2, <1>3

LEMMA HoleIsNoValue ==
  /\ \A v \in Values \cup {Zero} : v # Hole
  /\ \A h \in Headers : h # Hole
BY NamesDiffer DEF Values, Headers

LEMMA InputIsWhole == ASSUME inp \in Inputs PROVE WholeFile(InputFile)
<1>1. DOMAIN InputFile.mem.data = Positions(inp)
  BY InputFileShape
<1>2. \A o \in Positions(inp) : InputFile.mem.data[o] # Hole
  BY InputValues, HoleIsNoValue
<1>3. InputFile.mem.hdr # Hole
  BY InputTyped, HoleIsNoValue, InputFileShape
<1> QED BY <1>1, <1>2, <1>3 DEF WholeFile

LEMMA InitOut == Init => OutInv
<1> SUFFICES ASSUME Init PROVE OutInv
  OBVIOUS
<1>1. inp \in Inputs /\ job \in Jobs /\ pc = "parse" /\ b = 0 /\ f = 0 /\ tmp = NoFile
      /\ out = IF job.oneFile THEN InputFile ELSE NoFile
  BY DEF Init
<1>2. job.oneFile => InputKept
  BY <1>1, InputFileShape DEF InputKept
<1>3. NameMeansWhole
  BY <1>1, InputIsWhole DEF NameMeansWhole
<1> QED BY <1>1, <1>2, <1>3 DEF OutInv, Common, Control, Files

\* A step that leaves the result alone.
LEMMA CommonStays ==
  ASSUME Common, UNCHANGED inputs, out' = out, job.oneFile => tmp' = NoFile
  PROVE  Common'
<1>1. job.oneFile => InputKept'
  BY SameInputs DEF Common, InputKept, IsFileOf
<1>2. NameMeansWhole => NameMeansWhole'
  BY DEF NameMeansWhole, WholeFile
<1> QED BY <1>1, <1>2, SameInputs DEF Common

\* A step that ends the work.
LEMMA EndStays ==
  ASSUME OutInv, UNCHANGED inputs, out' = out, job.oneFile => tmp' = NoFile,
         pc' \in {"failed", "sigfpe", "sigsegv"}
  PROVE  OutInv'
<1>1. Common'
  BY CommonStays DEF OutInv
<1> QED BY <1>1 DEF OutInv, Control, Files

-----------------------------------------------------------------------------
(* The batches fill the file in progress.                                  *)

LEMMA StartOfBatches ==
  ASSUME inp \in Inputs, UNCHANGED inputs, Fresh', f' = 0, b' = 0, pc' = "batch",
         batchSize' \in 1..inp.nchans
  PROVE  Progress'
<1>1. inp' = inp /\ inp.nifs \in Nat \ {0} /\ inp.nchans \in Nat \ {0}
  BY InputTyped, SameInputs DEF HeaderShape
<1>2. NumBatches' \in Nat \ {0}
  <2>1. NumBatches' = CeilDiv(inp.nchans, batchSize')
    BY <1>1 DEF NumBatches, NumPieces
  <2>2. batchSize' \in Nat \ {0}
    BY <1>1
  <2> QED BY <1>1, <2>1, <2>2, CeilCovers
<1>3. First(0, batchSize') = 0
  <2>1. PICK p : p = batchSize'
    OBVIOUS
  <2>2. p \in Nat
    BY <1>1, <2>1
  <2>3. 0 * p = 0
    BY <2>2
  <2> QED BY <2>1, <2>3 DEF First
<1>4. ASSUME NEW n, NEW i \in IFs', NEW c \in Channels' PROVE ~Done(n, i, c)'
  <2>1. i \in Nat /\ c \in Nat
    BY <1>1 DEF IFs, Channels
  <2>2. ~(i < 0) /\ ~(c < 0)
    BY <2>1
  <2> QED BY <1>3, <2>2 DEF Done
<1>5. Written'
  BY <1>4 DEF Written
<1>6. f' \in 0..inp'.nifs /\ b' \in 0..(NumBatches' - 1)
  <2>1. PICK m : m = NumBatches'
    OBVIOUS
  <2>2. 0 \in 0..inp.nifs
    BY <1>1
  <2>3. 0 \in 0..(m - 1)
    <3>1. m \in Nat \ {0}
      BY <1>2, <2>1
    <3> QED BY <3>1
  <2> QED BY <1>1, <2>1, <2>2, <2>3
<1>7. pc' # "write"
  OBVIOUS
<1> QED BY <1>5, <1>6, <1>7 DEF Progress

LEMMA CreateOut == ASSUME OutInv, BatchInv, Create PROVE OutInv'
<1>1. Common'
  BY CommonStays DEF OutInv, Control, Create
<1>2. UNCHANGED inputs /\ pc = "setup" /\ DoProcessing /\ ~job.oneFile /\ b = 0 /\ f = 0
      /\ inp \in Inputs /\ job \in Jobs /\ b' = b /\ f' = f
  BY DEF OutInv, Control, Common, Create
<1>3. pc' \in {"bandpass", "batch"} /\ ~Refused /\ ~TooSmall
  BY DEF Create
<1>4. Ready
  BY <1>2, <1>3 DEF Ready
<1>5. Masked => ZappedChannels(job.mask)' \subseteq kill'
  BY <1>2, SameInputs DEF Create, ZappedChannels, Channel
<1>6. Control'
  BY <1>2, <1>3, <1>4, <1>5, SameInputs DEF Control
<1>7. Fresh'
  BY <1>2, SameInputs DEF Create, NewFile, Fresh, IsFileOf, Positions
<1>8. batchSize' \in 1..inp.nchans
  BY <1>3, BatchSizeFits DEF Create
<1>9. pc' = "batch" => Progress'
  BY <1>2, <1>7, <1>8, StartOfBatches
<1> QED BY <1>1, <1>3, <1>6, <1>7, <1>9 DEF OutInv, Files

LEMMA MeasureOut == ASSUME OutInv, MeasureChunk PROVE OutInv'
<1>1. UNCHANGED <<inputs, pc, b, f, kill, tmp, out>> /\ pc = "bandpass"
  BY DEF MeasureChunk
<1>2. Common'
  BY <1>1, CommonStays DEF OutInv, Common
<1>3. Control'
  BY <1>1, SameInputs DEF OutInv, Control, ZappedChannels, Channel
<1>4. Fresh'
  BY <1>1, SameInputs DEF OutInv, Files, Fresh, IsFileOf, Positions
<1> QED BY <1>1, <1>2, <1>3, <1>4 DEF OutInv, Files

LEMMA KillOut == ASSUME OutInv, BatchInv, KillChannels PROVE OutInv'
<1>1. UNCHANGED <<inputs, batchSize, b, f, tmp, out>> /\ pc = "bandpass" /\ pc' = "batch"
      /\ b = 0 /\ f = 0 /\ kill \subseteq kill'
  BY DEF KillChannels, OutInv, Control
<1>2. Common'
  BY <1>1, CommonStays DEF OutInv, Common
<1>3. Control'
  BY <1>1, SameInputs DEF OutInv, Control, ZappedChannels, Channel
<1>4. Fresh'
  BY <1>1, SameInputs DEF OutInv, Files, Fresh, IsFileOf, Positions
<1>5. batchSize \in 1..inp.nchans
  BY <1>1, BatchSizeFits DEF BatchInv
<1>6. Progress'
  BY <1>1, <1>4, <1>5, StartOfBatches DEF OutInv, Common
<1> QED BY <1>1, <1>2, <1>3, <1>6 DEF OutInv, Files

\* A step among the batches: only Progress is left to show.
LEMMA BatchStays ==
  ASSUME OutInv, UNCHANGED <<inputs, kill, out>>, job.oneFile => tmp' = NoFile,
         pc \in {"batch", "write"}, pc' \in {"batch", "write"}, Progress'
  PROVE  OutInv'
<1>1. Common'
  BY CommonStays DEF OutInv
<1>2. Control'
  BY SameInputs DEF OutInv, Control, ZappedChannels, Channel
<1> QED BY <1>1, <1>2 DEF OutInv, Files

LEMMA BatchTypes ==
  ASSUME OutInv, BatchInv, pc \in {"batch", "write"}
  PROVE  /\ Ready /\ Progress /\ ~job.oneFile /\ batchSize \in Nat \ {0}
         /\ inp.nchans \in Nat \ {0} /\ inp.nifs \in Nat \ {0}
         /\ NumBatches \in Nat \ {0} /\ inp.nchans <= batchSize * NumBatches
<1>1. Ready /\ Progress /\ ~job.oneFile
  BY DEF OutInv, Control, Files
<1>2. inp.nchans \in Nat \ {0} /\ inp.nifs \in Nat \ {0}
  BY <1>1, ReadyTypes DEF HeaderShape
<1>3. batchSize \in 1..inp.nchans
  BY BatchSizeFits DEF BatchInv
<1>4. batchSize \in Nat \ {0}
  BY <1>2, <1>3
<1> QED BY <1>1, <1>2, <1>4, CeilCovers DEF NumBatches, NumPieces

LEMMA ProcessOut == ASSUME OutInv, BatchInv, ProcessBatch PROVE OutInv'
<1>1. /\ UNCHANGED <<inputs, batchSize, b, f, kill, tmp, out>>
      /\ pc = "batch" /\ pc' = "write" /\ f < inp.nifs /\ t' = 0
      /\ buf' = [c \in Piece(inp.nchans, b, batchSize) |-> Row(f, c)]
  BY DEF ProcessBatch
<1>2. Progress /\ Ready
  BY <1>1, BatchTypes
<1>3. inp' = inp /\ OutN' = OutN /\ OutTimes' = OutTimes /\ IFs' = IFs
      /\ Channels' = Channels /\ OutHeader' = OutHeader
  BY <1>1, SameInputs
<1>4. Fresh'
  BY <1>1, <1>2, <1>3 DEF Progress, Fresh, IsFileOf, Positions
<1>5. \A i, c : Row(i, c)' = Row(i, c)
  BY <1>1, RowStays
<1>6. ASSUME NEW n \in OutTimes, NEW i \in IFs, NEW c \in Channels, Done(n, i, c)'
      PROVE  Done(n, i, c)
  <2>1. ~(n < 0)
    BY <1>2, ReadyTypes DEF OutTimes
  <2> QED BY <1>1, <1>3, <1>6, <2>1 DEF Done, First, Piece, Length, LesserOf
<1>7. Written'
  <2>1. ASSUME NEW n \in OutTimes, NEW i \in IFs, NEW c \in Channels, Done(n, i, c)'
        PROVE  tmp'.mem.data[Offset(inp, n, i, c)] = Row(i, c)[n]
    BY <1>1, <1>2, <1>6, <2>1 DEF Progress, Written
  <2>2. \A n, i, c : Offset(inp, n, i, c)' = Offset(inp, n, i, c)
    BY <1>3 DEF Offset
  <2> QED BY <1>3, <1>5, <2>1, <2>2 DEF Written
<1>8. InBatch'
  <2>1. \A n, k, p : Piece(n, k, p)' = Piece(n, k, p)
    BY DEF Piece, First, Length, LesserOf
  <2>2. 0 \in 0..OutN
    BY <1>2, ReadyTypes
  <2> QED BY <1>1, <1>3, <1>5, <2>1, <2>2 DEF InBatch
<1>9. NumBatches' = NumBatches
  BY <1>1, <1>3 DEF NumBatches, NumPieces, CeilDiv
<1>10. Progress'
  BY <1>1, <1>2, <1>3, <1>4, <1>7, <1>8, <1>9 DEF Progress
<1> QED BY <1>1, <1>10, BatchStays, BatchTypes

\* A write puts one sample of the batch's channels where they belong, and
\* nothing else.
LEMMA WriteOut == ASSUME OutInv, BatchInv, WriteSample PROVE OutInv'
<1> DEFINE P == Piece(inp.nchans, b, batchSize)
           D == tmp.mem.data
           At(c) == \E d \in P : Offset(inp, t, f, c) = Offset(inp, t, f, d)
<1>1. /\ UNCHANGED <<inputs, batchSize, b, f, kill, buf, out>>
      /\ pc = "write" /\ pc' = "write" /\ t < OutN /\ t' = t + 1
  BY DEF WriteSample
<1>2. Progress /\ Ready /\ Fresh /\ InBatch /\ Written
  BY <1>1, BatchTypes DEF Progress
<1>3. inp' = inp /\ OutN' = OutN /\ OutTimes' = OutTimes /\ IFs' = IFs
      /\ Channels' = Channels /\ OutHeader' = OutHeader
  BY <1>1, SameInputs
<1>4. HeaderShape(inp) /\ f \in IFs /\ t \in OutTimes /\ OutN \in Nat /\ t \in Nat
  BY <1>1, <1>2, ReadyTypes DEF Progress, InBatch, IFs, OutTimes, HeaderShape
<1>5. P \subseteq Channels
  BY <1>1, <1>2, BatchTypes, PiecesPartition DEF Progress, NumBatches, Channels
<1>6. buf = [c \in P |-> Row(f, c)] /\ DOMAIN buf = P
  BY <1>2 DEF InBatch
<1>7. tmp'.mem.data = [o \in DOMAIN D |->
        IF \E c \in P : o = Offset(inp, t, f, c)
        THEN buf[CHOOSE c \in P : o = Offset(inp, t, f, c)][t] ELSE D[o]]
  BY <1>2, <1>6 DEF WriteSample, Fresh, IsFileOf
<1>8. DOMAIN tmp' = DOMAIN tmp /\ DOMAIN tmp'.mem = DOMAIN tmp.mem
      /\ tmp'.mem.hdr = tmp.mem.hdr
  BY <1>2 DEF WriteSample, Fresh, IsFileOf
<1>9. Fresh'
  BY <1>1, <1>2, <1>3, <1>7, <1>8 DEF Fresh, IsFileOf, Positions
<1> HIDE DEF P, D
<1>10. ASSUME NEW n \in OutTimes, NEW i \in IFs, NEW c \in Channels
       PROVE  /\ Offset(inp, n, i, c) \in DOMAIN D /\ n \in Nat
              /\ \A d \in P : Offset(inp, n, i, c) = Offset(inp, t, f, d) =>
                   n = t /\ i = f /\ c = d
  <2>1. n \in 0..(OutHeader.nsamples - 1) /\ i \in 0..(OutHeader.nifs - 1)
        /\ c \in 0..(OutHeader.nchans - 1) /\ n \in Nat
    BY <1>2, <1>4, OutShape DEF OutTimes, IFs, Channels
  <2>2. Offset(OutHeader, n, i, c) \in Positions(OutHeader)
    BY <1>2, <2>1, OutShape, OffsetInside
  <2>3. Offset(OutHeader, n, i, c) = Offset(inp, n, i, c)
    BY <1>2, OutShape DEF Offset
  <2>4. DOMAIN D = Positions(OutHeader)
    BY <1>2 DEF Fresh, D
  <2>5. ASSUME NEW d \in P, Offset(inp, n, i, c) = Offset(inp, t, f, d)
        PROVE  n = t /\ i = f /\ c = d
    <3>1. d \in 0..(inp.nchans - 1) /\ i \in 0..(inp.nifs - 1) /\ f \in 0..(inp.nifs - 1)
          /\ c \in 0..(inp.nchans - 1)
      BY <1>4, <1>5 DEF Channels, IFs
    <3> QED BY <1>4, <2>1, <2>5, <3>1, OffsetInjective
  <2> QED BY <2>1, <2>2, <2>3, <2>4, <2>5
<1>11. ASSUME NEW n \in OutTimes, NEW i \in IFs, NEW c \in Channels, Done(n, i, c)'
       PROVE  tmp'.mem.data[Offset(inp, n, i, c)] = Row(i, c)[n]
  <2> DEFINE o == Offset(inp, n, i, c)
  <2>1. o \in DOMAIN D /\ n \in Nat
    BY <1>10
  <2>2. CASE \E d \in P : o = Offset(inp, t, f, d)
    <3>1. n = t /\ i = f /\ c \in P
      BY <1>10, <2>2
    <3>2. \A d \in P : o = Offset(inp, t, f, d) <=> d = c
      BY <1>10, <3>1
    <3> HIDE DEF o
    <3>3. (CHOOSE d \in P : o = Offset(inp, t, f, d)) = c
      BY <3>1, <3>2
    <3>4. tmp'.mem.data[o] = buf[c][t]
      BY <1>7, <2>1, <2>2, <3>3
    <3> QED BY <1>6, <3>1, <3>4 DEF o
  <2>3. CASE ~\E d \in P : o = Offset(inp, t, f, d)
    <3>1. tmp'.mem.data[o] = D[o]
      <4> HIDE DEF o
      <4> QED BY <1>7, <2>1, <2>3
    <3>2. ~(n = t /\ i = f /\ c \in P)
      BY <2>3
    <3>3. Piece(inp.nchans, b, batchSize)' = P /\ First(b, batchSize)' = First(b, batchSize)
      BY <1>1, <1>3 DEF Piece, First, Length, LesserOf, P
    <3>4. n < t + 1 => n < t \/ n = t
      BY <1>4, <2>1
    <3>5. Done(n, i, c)
      BY <1>1, <1>11, <3>2, <3>3, <3>4 DEF Done, P
    <3>6. D[o] = Row(i, c)[n]
      BY <1>2, <3>5 DEF Written, D
    <3> QED BY <3>1, <3>6
  <2> QED BY <2>2, <2>3
<1>12. \A i, c : Row(i, c)' = Row(i, c)
  BY <1>1, RowStays
<1>13. Written'
  <2>1. \A n, i, c : Offset(inp, n, i, c)' = Offset(inp, n, i, c)
    BY <1>3 DEF Offset
  <2> QED BY <1>3, <1>11, <1>12, <2>1 DEF Written
<1>14. InBatch'
  <2>1. Piece(inp.nchans, b, batchSize)' = P
    BY <1>1, <1>3 DEF Piece, First, Length, LesserOf, P
  <2>2. t' \in 0..OutN
    BY <1>1, <1>4
  <2> QED BY <1>1, <1>2, <1>3, <1>6, <1>12, <2>1, <2>2 DEF InBatch
<1>15. NumBatches' = NumBatches
  BY <1>1, <1>3 DEF NumBatches, NumPieces, CeilDiv
<1>16. Progress'
  BY <1>1, <1>2, <1>3, <1>9, <1>13, <1>14, <1>15 DEF Progress
<1> QED BY <1>1, <1>16, BatchStays, BatchTypes

LEMMA NextOut == ASSUME OutInv, BatchInv, NextBatch PROVE OutInv'
<1>1. /\ UNCHANGED <<inputs, batchSize, kill, tmp, out>>
      /\ pc = "write" /\ pc' = "batch" /\ t = OutN
      /\ IF b + 1 < NumBatches THEN b' = b + 1 /\ f' = f ELSE b' = 0 /\ f' = f + 1
  BY DEF NextBatch
<1>2. Progress /\ Ready /\ Fresh /\ InBatch /\ Written
  BY <1>1, BatchTypes DEF Progress
<1>3. inp' = inp /\ OutN' = OutN /\ OutTimes' = OutTimes /\ IFs' = IFs
      /\ Channels' = Channels /\ OutHeader' = OutHeader
  BY <1>1, SameInputs
<1>4. Fresh'
  BY <1>1, <1>2, <1>3 DEF Progress, Fresh, IsFileOf, Positions
<1>5. /\ batchSize \in Nat \ {0} /\ inp.nchans \in Nat \ {0} /\ inp.nifs \in Nat \ {0}
      /\ NumBatches \in Nat \ {0} /\ inp.nchans <= batchSize * NumBatches
      /\ b \in 0..(NumBatches - 1) /\ f \in 0..(inp.nifs - 1) /\ b \in Nat /\ f \in Nat
      /\ OutN \in Nat
  BY <1>1, <1>2, BatchTypes, ReadyTypes DEF Progress, InBatch
<1>6. NumBatches' = NumBatches
  BY <1>1, <1>3 DEF NumBatches, NumPieces, CeilDiv
<1>7. f' \in 0..inp.nifs /\ b' \in 0..(NumBatches - 1)
  BY <1>1, <1>5
<1>8. f' = inp.nifs => b' = 0
  BY <1>1, <1>5
<1>9. ASSUME NEW n \in OutTimes, NEW i \in IFs, NEW c \in Channels, Done(n, i, c)'
      PROVE  Done(n, i, c)
  <2>1. n < t /\ c \in 0..(inp.nchans - 1) /\ i \in Int /\ c \in Int /\ c < inp.nchans
        /\ ~(c < 0)
    BY <1>1, <1>5 DEF OutTimes, IFs, Channels
  <2>2. i < f' \/ (i = f' /\ c < First(b', batchSize))
    BY <1>1, <1>9 DEF Done, First
  <2>3. CASE b + 1 < NumBatches
    <3>1. i < f \/ (i = f /\ c < First(b + 1, batchSize))
      BY <1>1, <2>2, <2>3
    <3>2. i < f \/ (i = f /\ (c < First(b, batchSize) \/ c \in Piece(inp.nchans, b, batchSize)))
      BY <1>5, <2>1, <3>1, BeforeNextPiece
    <3> QED BY <1>1, <2>1, <3>2 DEF Done
  <2>4. CASE ~(b + 1 < NumBatches)
    <3>1. First(0, batchSize) = 0 /\ b + 1 = NumBatches
      BY <1>5, <2>4 DEF First
    <3>2. i < f \/ i = f
      BY <1>1, <1>5, <2>1, <2>2, <2>4, <3>1
    <3>3. c < First(b + 1, batchSize)
      <4>1. First(b + 1, batchSize) = batchSize * NumBatches
            /\ batchSize * NumBatches \in Nat
        BY <1>5, <3>1, MulPositive DEF First
      <4> QED BY <1>5, <2>1, <4>1
    <3>4. c < First(b, batchSize) \/ c \in Piece(inp.nchans, b, batchSize)
      BY <1>5, <2>1, <3>3, BeforeNextPiece
    <3> QED BY <1>1, <2>1, <3>2, <3>4 DEF Done
  <2> QED BY <2>3, <2>4
<1>10. \A i, c : Row(i, c)' = Row(i, c)
  BY <1>1, RowStays
<1>11. Written'
  <2>1. ASSUME NEW n \in OutTimes, NEW i \in IFs, NEW c \in Channels, Done(n, i, c)'
        PROVE  tmp'.mem.data[Offset(inp, n, i, c)] = Row(i, c)[n]
    BY <1>1, <1>2, <1>9, <2>1 DEF Written
  <2>2. \A n, i, c : Offset(inp, n, i, c)' = Offset(inp, n, i, c)
    BY <1>3 DEF Offset
  <2> QED BY <1>3, <1>10, <2>1, <2>2 DEF Written
<1>12. Progress'
  BY <1>1, <1>3, <1>4, <1>6, <1>7, <1>8, <1>11 DEF Progress
<1> QED BY <1>1, <1>12, BatchStays, BatchTypes

-----------------------------------------------------------------------------
(* The result and its header.                                              *)

\* A step that gives the result its name, its header, or forces it to disk.
LEMMA ResultStays ==
  ASSUME OutInv, UNCHANGED <<inputs, b, f, kill>>,
         pc' \in {"close", "edit", "closeEdited", "done"},
         job.oneFile => tmp' = NoFile /\ InputKept',
         failure = "kill" => NameMeansWhole',
         pc' = "close" => DoProcessing /\ ~job.oneFile,
         pc' \in {"edit", "closeEdited"} => job.edit,
         ~(DoProcessing /\ job.oneFile), DoProcessing => Ready,
         pc' = "close" \/ (pc' = "edit" /\ DoProcessing) => Result(FALSE)',
         pc' \in {"closeEdited", "done"} => Result(job.edit)'
  PROVE  OutInv'
<1>1. Common'
  BY SameInputs DEF OutInv, Common
<1>2. Control'
  BY SameInputs DEF Control
<1>3. Files'
  <2>1. pc' = "close" \/ (pc' = "edit" /\ DoProcessing') => Result(FALSE)'
    BY SameInputs
  <2>2. pc' = "closeEdited" \/ (pc' = "done" /\ ~Nothing') => Result(job.edit)'
    OBVIOUS
  <2>3. pc' \notin {"bandpass", "batch", "write", "copy"}
    OBVIOUS
  <2> QED BY ONLY <2>1, <2>2, <2>3 DEF Files
<1> QED BY <1>1, <1>2, <1>3 DEF OutInv

Hdr(nifs, nchans, n, y, padded, edited) ==
  [nifs |-> nifs, nchans |-> nchans, nsamples |-> n, barycentric |-> y,
   padded |-> padded, edited |-> edited]
Edited(h, e)       == [h EXCEPT !.edited = e]
Rewritten(h, p, e) == [h EXCEPT !.padded = p, !.edited = e]

LEMMA EditedHeader ==
  ASSUME NEW nifs, NEW nchans, NEW n, NEW y, NEW padded, NEW edited, NEW p, NEW e
  PROVE  /\ Edited(Hdr(nifs, nchans, n, y, padded, edited), e) =
              Hdr(nifs, nchans, n, y, padded, e)
         /\ Rewritten(Hdr(nifs, nchans, n, y, padded, edited), p, e) =
              Hdr(nifs, nchans, n, y, p, e)
<1> DEFINE h == Hdr(nifs, nchans, n, y, padded, edited)
           g == Hdr(nifs, nchans, n, y, p, edited)
<1>1. Edited(h, e) = Hdr(nifs, nchans, n, y, padded, e)
  BY DEF Hdr, Edited
<1>2. Edited(g, e) = Hdr(nifs, nchans, n, y, p, e)
  BY DEF Hdr, Edited
<1>3. [h EXCEPT !.padded = p] = g
  BY DEF Hdr
<1>4. Rewritten(h, p, e) = Edited([h EXCEPT !.padded = p], e)
  BY DEF Rewritten, Edited
<1> QED BY <1>1, <1>2, <1>3, <1>4

LEMMA OutHeaderFields ==
  ASSUME NEW edited
  PROVE  /\ OutHeader = [OutHeader EXCEPT !.edited = FALSE]
         /\ [OutHeader EXCEPT !.edited = edited] =
              Hdr(inp.nifs, inp.nchans, OutHeader.nsamples, OutHeader.barycentric, TRUE, edited)
         /\ OutHeader.barycentric = IF Correcting THEN 1 ELSE inp.barycentric
         /\ OutHeader.nsamples = IF DoAvg THEN OutN ELSE inp.nsamples
<1>1. /\ OutHeader.barycentric = IF Correcting THEN 1 ELSE inp.barycentric
      /\ OutHeader.nsamples = IF DoAvg THEN OutN ELSE inp.nsamples
  BY DEF OutHeader
<1>2. OutHeader = Hdr(inp.nifs, inp.nchans, OutHeader.nsamples, OutHeader.barycentric,
                      TRUE, FALSE)
  <2>1. OutHeader = Hdr(inp.nifs, inp.nchans, IF DoAvg THEN OutN ELSE inp.nsamples,
                        IF Correcting THEN 1 ELSE inp.barycentric, TRUE, FALSE)
    BY DEF OutHeader, Hdr
  <2> QED BY <1>1, <2>1
<1>3. [OutHeader EXCEPT !.edited = FALSE] = Edited(OutHeader, FALSE)
      /\ [OutHeader EXCEPT !.edited = edited] = Edited(OutHeader, edited)
  BY DEF Edited
<1>4. /\ Edited(OutHeader, FALSE) = OutHeader
      /\ Edited(OutHeader, edited) =
           Hdr(inp.nifs, inp.nchans, OutHeader.nsamples, OutHeader.barycentric, TRUE, edited)
  <2>1. PICK T : T = TRUE
    OBVIOUS
  <2>2. PICK F : F = FALSE
    OBVIOUS
  <2> DEFINE h(e) == Hdr(inp.nifs, inp.nchans, OutHeader.nsamples,
                         OutHeader.barycentric, T, e)
  <2>3. Edited(h(F), F) = h(F) /\ Edited(h(F), edited) = h(edited)
    BY EditedHeader
  <2>4. OutHeader = h(F)
    BY <1>2, <2>1, <2>2, Zenon
  <2> HIDE DEF h
  <2>5. Edited(OutHeader, F) = OutHeader /\ Edited(OutHeader, edited) = h(edited)
    BY <2>3, <2>4, Zenon
  <2> QED BY <2>1, <2>2, <2>5, Zenon DEF h
<1> QED BY <1>1, <1>3, <1>4, Zenon

LEMMA InputHeaderFields ==
  ASSUME NEW p, NEW e
  PROVE  /\ InputHeader = Hdr(inp.nifs, inp.nchans, inp.nsamples, inp.barycentric,
                              inp.padded, FALSE)
         /\ [InputHeader EXCEPT !.edited = e] =
              Hdr(inp.nifs, inp.nchans, inp.nsamples, inp.barycentric, inp.padded, e)
         /\ [InputHeader EXCEPT !.padded = p, !.edited = e] =
              Hdr(inp.nifs, inp.nchans, inp.nsamples, inp.barycentric, p, e)
<1>1. InputHeader = Hdr(inp.nifs, inp.nchans, inp.nsamples, inp.barycentric,
                        inp.padded, FALSE)
  BY DEF InputHeader, InputFile, Hdr
<1>2. [InputHeader EXCEPT !.edited = e] = Edited(InputHeader, e)
      /\ [InputHeader EXCEPT !.padded = p, !.edited = e] = Rewritten(InputHeader, p, e)
  BY DEF Edited, Rewritten
<1>3. PICK F : F = FALSE
  OBVIOUS
<1> DEFINE h(q, d) == Hdr(inp.nifs, inp.nchans, inp.nsamples, inp.barycentric, q, d)
<1>4. Edited(h(inp.padded, F), e) = h(inp.padded, e)
      /\ Rewritten(h(inp.padded, F), p, e) = h(p, e)
  BY EditedHeader
<1>5. InputHeader = h(inp.padded, F)
  BY <1>1, <1>3, Zenon
<1> HIDE DEF h
<1>6. Edited(InputHeader, e) = h(inp.padded, e) /\ Rewritten(InputHeader, p, e) = h(p, e)
  BY <1>4, <1>5, Zenon
<1> QED BY <1>1, <1>2, <1>6, Zenon DEF h

LEMMA HeadersTyped ==
  ASSUME Ready, NEW edited \in BOOLEAN
  PROVE  [OutHeader EXCEPT !.edited = edited] \in Headers
<1>1. /\ inp.nifs \in Nat /\ inp.nchans \in Nat
      /\ OutHeader.nsamples \in Nat /\ OutHeader.barycentric \in 0..1
  <2>1. inp.nifs \in Nat /\ inp.nchans \in Nat /\ OutHeader.nsamples \in Nat
    BY OutShape, ReadyTypes DEF HeaderShape
  <2>2. inp.barycentric \in 0..1
    BY InputTyped DEF Ready
  <2>3. OutHeader.barycentric = IF Correcting THEN 1 ELSE inp.barycentric
    BY OutHeaderFields, Zenon
  <2>4. OutHeader.barycentric \in 0..1
    BY <2>2, <2>3
  <2> QED BY <2>1, <2>4
<1>2. Hdr(inp.nifs, inp.nchans, OutHeader.nsamples, OutHeader.barycentric, TRUE, edited)
        \in Headers
  BY <1>1 DEF Headers, Hdr
<1> QED BY <1>2, OutHeaderFields

LEMMA PublishOut == ASSUME OutInv, BatchInv, Publish PROVE OutInv'
<1>1. /\ UNCHANGED <<inputs, kill, b, f>> /\ pc = "batch" /\ pc' = "close"
      /\ f = inp.nifs /\ out' = tmp /\ tmp' = NoFile
  BY DEF Publish, Rename, work
<1>2. Ready /\ Fresh /\ Written /\ ~job.oneFile /\ DoProcessing
  BY <1>1, BatchTypes DEF Progress, OutInv, Control
<1>3. \A n \in OutTimes, i \in IFs, c \in Channels :
        tmp.mem.data[Offset(inp, n, i, c)] = Row(i, c)[n]
  <2>1. \A i \in IFs : i < f
    BY <1>1, <1>2, ReadyTypes DEF IFs, HeaderShape
  <2> QED BY <1>2, <2>1 DEF Written, Done
<1>4. ASSUME NEW n \in OutTimes, NEW i \in IFs, NEW c \in Channels
      PROVE  /\ Belongs(n, i, c, Row(i, c)[n])
             /\ Row(i, c)[n] \in Values \cup {Zero}
  <2>1. Masked => ZappedChannels(job.mask) \subseteq kill
    BY <1>1 DEF OutInv, Control
  <2> QED BY <1>2, <2>1, RowRight DEF IFs
<1>5. DataRight(out)'
  <2>1. inp' = inp /\ OutTimes' = OutTimes /\ IFs' = IFs /\ Channels' = Channels
    BY <1>1, SameInputs
  <2>2. ASSUME NEW n \in OutTimes, NEW i \in IFs, NEW c \in Channels
        PROVE  Belongs(n, i, c, out.mem.data[Offset(inp, n, i, c)])'
    <3>1. PICK v : v = Row(i, c)[n]
      OBVIOUS
    <3>2. out.mem.data[Offset(inp, n, i, c)]' = v
      BY <1>1, <1>3, <2>1, <3>1 DEF Offset
    <3>3. Belongs(n, i, c, v)'
      BY <1>1, <1>4, <3>1, BelongsStays
    <3> QED BY <3>2, <3>3 DEF Belongs, Asked
  <2> QED BY <2>1, <2>2 DEF DataRight
<1>6. WholeFile(out)'
  <2>1. ASSUME NEW o \in DOMAIN tmp.mem.data PROVE tmp.mem.data[o] # Hole
    <3>1. o \in Positions(OutHeader)
      BY <1>2 DEF Fresh
    <3>2. PICK n \in 0..(OutHeader.nsamples - 1), i \in 0..(OutHeader.nifs - 1),
               c \in 0..(OutHeader.nchans - 1) : o = Offset(OutHeader, n, i, c)
      BY <1>2, <3>1, OutShape, PositionOfSample
    <3>3. n \in OutTimes /\ i \in IFs /\ c \in Channels /\ o = Offset(inp, n, i, c)
      BY <1>2, <3>2, OutShape DEF OutTimes, IFs, Channels, Offset
    <3> QED BY <1>3, <1>4, <3>3, HoleIsNoValue
  <2>2. OutHeader # Hole
    <3>1. OutHeader = [OutHeader EXCEPT !.edited = FALSE]
      BY OutHeaderFields
    <3> QED BY <1>2, <3>1, HeadersTyped, HoleIsNoValue
  <2> QED BY <1>1, <1>2, <2>1, <2>2 DEF WholeFile, Fresh
<1>7. Result(FALSE)'
  <2>1. OutHeader = [OutHeader EXCEPT !.edited = FALSE]
    BY OutHeaderFields
  <2>2. OutHeader' = OutHeader
    BY <1>1, SameInputs
  <2>3. out'.mem.hdr = [OutHeader' EXCEPT !.edited = FALSE]
    BY <1>1, <1>2, <2>1, <2>2 DEF Fresh
  <2> QED BY <1>1, <1>2, <1>5, <1>6, <2>3 DEF Result, Fresh, IsFileOf
<1>8. NameMeansWhole'
  BY <1>6 DEF NameMeansWhole
<1> QED BY <1>1, <1>2, <1>7, <1>8, ResultStays

\* The flush and the edited header leave the data as they are.
LEMMA SameDataResult ==
  ASSUME UNCHANGED <<inputs, kill>>, tmp' = tmp, NEW edited, NEW now \in BOOLEAN,
         Result(edited), Ready, out'.mem.data = out.mem.data, IsFileOf(out)',
         out'.mem.hdr = [OutHeader EXCEPT !.edited = now]
  PROVE  Result(now)' /\ NameMeansWhole'
<1>1. DataRight(out)'
  BY DataStays DEF Result
<1>2. WholeFile(out)'
  BY HeadersTyped, HoleIsNoValue DEF Result, WholeFile
<1> QED BY <1>1, <1>2, SameInputs DEF Result, NameMeansWhole

LEMMA CloseOutputOut == ASSUME OutInv, CloseOutput PROVE OutInv'
<1>1. /\ UNCHANGED <<inputs, kill, b, f, tmp>> /\ pc = "close"
      /\ out' = Fsync(out) /\ pc' = IF job.edit THEN "edit" ELSE "done"
  BY DEF CloseOutput, work
<1>2. Result(FALSE) /\ Ready /\ ~job.oneFile /\ DoProcessing /\ job \in Jobs
  BY <1>1 DEF OutInv, Control, Files, Common
<1>3. job.edit \in BOOLEAN
  BY <1>2, PrepfilAssumption
<1>4. out'.mem = out.mem /\ IsFileOf(out')
  BY <1>1, <1>2 DEF Result, IsFileOf, Fsync
<1>5. Result(FALSE)' /\ NameMeansWhole'
  BY <1>1, <1>2, <1>4, SameDataResult DEF Result, IsFileOf
<1>6. pc' = "done" => Result(job.edit)'
  <2>1. pc' = "done" => job.edit = FALSE /\ job' = job
    BY <1>1, <1>3, SameInputs
  <2> QED BY <1>5, <2>1 DEF Result
<1> QED BY <1>1, <1>2, <1>5, <1>6, ResultStays

\* The header asked for, when nothing else is.
LEMMA HeaderOnly ==
  ASSUME inp \in Inputs, job \in Jobs, ~DoProcessing
  PROVE  [OutHeader EXCEPT !.edited = TRUE] =
           Hdr(inp.nifs, inp.nchans, inp.nsamples, inp.barycentric, TRUE, TRUE)
<1>1. ~DoAvg /\ ~job.obs
  BY DEF DoProcessing
<1>2. OutHeader.nsamples = inp.nsamples /\ OutHeader.barycentric = inp.barycentric
  <2>1. ~Correcting
    BY <1>1 DEF Correcting
  <2>2. /\ OutHeader.barycentric = IF Correcting THEN 1 ELSE inp.barycentric
        /\ OutHeader.nsamples = IF DoAvg THEN OutN ELSE inp.nsamples
    BY OutHeaderFields, Zenon
  <2> QED BY <1>1, <2>1, <2>2
<1>3. [OutHeader EXCEPT !.edited = TRUE] =
        Hdr(inp.nifs, inp.nchans, OutHeader.nsamples, OutHeader.barycentric, TRUE, TRUE)
  BY OutHeaderFields, Zenon
<1> QED BY <1>2, <1>3, Zenon

\* Editing a header in place, once more or for the first time.
EditedFile(file, e) == [file EXCEPT !.mem.hdr.edited = e]

LEMMA EditedFileIs ==
  ASSUME NEW file, IsFileOf(file), NEW e
  PROVE  /\ IsFileOf(EditedFile(file, e))
         /\ EditedFile(file, e).mem.hdr = Edited(file.mem.hdr, e)
         /\ EditedFile(file, e).mem.data = file.mem.data
         /\ EditedFile(file, e).disk = file.disk
BY DEF IsFileOf, EditedFile, Edited

LEMMA EditedAgain ==
  ASSUME NEW h \in {InputHeader, [InputHeader EXCEPT !.edited = TRUE]}
  PROVE  /\ Edited(h, TRUE) = [InputHeader EXCEPT !.edited = TRUE]
         /\ h.padded = inp.padded
<1>1. PICK T : T = TRUE
  OBVIOUS
<1>2. PICK F : F = FALSE
  OBVIOUS
<1> DEFINE g(e) == Hdr(inp.nifs, inp.nchans, inp.nsamples, inp.barycentric, inp.padded, e)
<1>3. InputHeader = g(F)
  BY <1>2, InputHeaderFields, Zenon
<1>4. [InputHeader EXCEPT !.edited = TRUE] = g(T)
  <2>1. [InputHeader EXCEPT !.edited = TRUE] = g(TRUE)
    BY InputHeaderFields, Zenon
  <2> QED BY <1>1, <2>1, Zenon
<1>5. h = g(F) \/ h = g(T)
  BY <1>3, <1>4, Zenon
<1>6. Edited(g(F), T) = g(T) /\ Edited(g(T), T) = g(T)
  BY EditedHeader
<1>7. g(F).padded = inp.padded /\ g(T).padded = inp.padded
  BY DEF Hdr
<1> HIDE DEF g
<1>8. Edited(h, T) = g(T)
  BY <1>5, <1>6, Zenon
<1>9. h.padded = inp.padded
  <2>1. CASE h = g(F)
    BY <1>7, <2>1
  <2>2. CASE h = g(T)
    BY <1>7, <2>2
  <2> QED BY <1>5, <2>1, <2>2
<1> QED BY <1>1, <1>4, <1>8, <1>9, Zenon

LEMMA KeptIsWhole == ASSUME inp \in Inputs, InputKept PROVE WholeFile(out)
<1>1. out.mem.hdr # Hole
  BY InputTyped, HoleIsNoValue DEF InputKept
<1>2. \A o \in DOMAIN InputFile.mem.data : InputFile.mem.data[o] # Hole
  BY InputIsWhole DEF WholeFile
<1> QED BY <1>1, <1>2 DEF InputKept, WholeFile

LEMMA EditOut == ASSUME OutInv, EditInPlace PROVE OutInv'
<1>1. /\ UNCHANGED <<inputs, kill, b, f, tmp>> /\ pc = "edit" /\ InPlace /\ job.edit
      /\ ~(DoProcessing /\ job.oneFile) /\ inp \in Inputs /\ job \in Jobs
  BY DEF EditInPlace, work, OutInv, Control, Common
<1>2. job.edit = TRUE
  BY <1>1, PrepfilAssumption
<1>3. CASE ~out.mem.hdr.padded
  BY <1>1, <1>3, EndStays DEF EditInPlace, OutInv, Common
<1>4. CASE out.mem.hdr.padded
  <2>1. out' = EditedFile(out, TRUE) /\ pc' = "closeEdited"
    BY <1>4 DEF EditInPlace, EditedFile
  <2>2. CASE DoProcessing
    <3>1. Result(FALSE) /\ Ready /\ ~job.oneFile
      BY <1>1, <2>2 DEF OutInv, Files, Control
    <3>2. /\ IsFileOf(out') /\ out'.mem.data = out.mem.data
          /\ out'.mem.hdr = Edited(out.mem.hdr, TRUE)
      BY <2>1, <3>1, EditedFileIs DEF Result
    <3>3. out'.mem.hdr = [OutHeader EXCEPT !.edited = TRUE]
      <4>1. out.mem.hdr = OutHeader
        BY <3>1, OutHeaderFields DEF Result
      <4> QED BY <3>2, <4>1 DEF Edited
    <3>4. Result(TRUE)' /\ NameMeansWhole'
      BY <1>1, <3>1, <3>2, <3>3, SameDataResult DEF IsFileOf
    <3>5. Result(job.edit)'
      <4>1. job'.edit = TRUE
        BY <1>1, <1>2, SameInputs
      <4> QED BY <3>4, <4>1 DEF Result
    <3> QED BY <1>1, <2>1, <3>1, <3>4, <3>5, ResultStays
  <2>3. CASE ~DoProcessing
    <3>1. job.oneFile /\ InputKept /\ tmp = NoFile
      BY <1>1, <2>3 DEF InPlace, OutInv, Common
    <3>2. /\ IsFileOf(out') /\ out'.mem.data = out.mem.data /\ out'.disk = out.disk
          /\ out'.mem.hdr = Edited(out.mem.hdr, TRUE)
      <4>1. IsFileOf(out)
        BY <3>1 DEF InputKept
      <4> QED BY <2>1, <4>1, EditedFileIs
    <3>3. out'.mem.hdr = [InputHeader EXCEPT !.edited = TRUE] /\ inp.padded = TRUE
      <4>1. out.mem.hdr \in {InputHeader, [InputHeader EXCEPT !.edited = TRUE]}
        BY <3>1 DEF InputKept
      <4>2. Edited(out.mem.hdr, TRUE) = [InputHeader EXCEPT !.edited = TRUE]
            /\ out.mem.hdr.padded = inp.padded
        BY <4>1, EditedAgain
      <4>3. inp.padded \in BOOLEAN
        BY <1>1, InputTyped
      <4> QED BY <1>4, <3>2, <4>2, <4>3
    <3>4. out'.mem.hdr = [OutHeader EXCEPT !.edited = TRUE]
      <4>1. [InputHeader EXCEPT !.edited = TRUE] =
              Hdr(inp.nifs, inp.nchans, inp.nsamples, inp.barycentric, inp.padded, TRUE)
        BY InputHeaderFields, Zenon
      <4>2. [OutHeader EXCEPT !.edited = TRUE] =
              Hdr(inp.nifs, inp.nchans, inp.nsamples, inp.barycentric, TRUE, TRUE)
        BY <1>1, <2>3, HeaderOnly
      <4> QED BY <3>3, <4>1, <4>2, Zenon
    <3>5. InputKept'
      <4>1. InputFile' = InputFile /\ InputHeader' = InputHeader
        BY <1>1, SameInputs
      <4> QED BY <3>1, <3>2, <3>3, <4>1 DEF InputKept, IsFileOf
    <3>6. DataRight(out)
      BY <1>1, <2>3, <3>1, InputRight DEF DataRight, InputKept
    <3>7. DataRight(out)'
      BY <1>1, <3>2, <3>6, DataStays
    <3>8. WholeFile(out)'
      <4>1. WholeFile(out)
        BY <1>1, <3>1, KeptIsWhole
      <4>2. out'.mem.hdr # Hole
        BY <1>1, <3>3, InputTyped, HoleIsNoValue
      <4> QED BY <3>2, <4>1, <4>2 DEF WholeFile
    <3>9. Result(job.edit)'
      <4>1. job'.edit = TRUE /\ OutHeader' = OutHeader
        BY <1>1, <1>2, SameInputs
      <4> QED BY <1>1, <3>1, <3>2, <3>4, <3>7, <3>8, <4>1 DEF Result, IsFileOf
    <3>10. NameMeansWhole'
      BY <3>8 DEF NameMeansWhole
    <3> QED BY <1>1, <2>1, <2>3, <3>1, <3>5, <3>9, <3>10, ResultStays
  <2> QED BY <2>2, <2>3
<1> QED BY <1>3, <1>4

\* The copy with a new header.
LEMMA StartCopyOut == ASSUME OutInv, StartCopy PROVE OutInv'
<1>1. /\ UNCHANGED <<inputs, kill, b, f, out>> /\ pc = "edit" /\ ~InPlace /\ job.edit
      /\ inp \in Inputs /\ job \in Jobs /\ pc' = "copy" /\ copied' = 0
      /\ tmp' = NewFile([InputHeader EXCEPT !.padded = TRUE, !.edited = TRUE])
  BY DEF StartCopy, OutInv, Control, Common, InputHeader
<1>2. ~job.oneFile /\ ~DoProcessing
  BY <1>1 DEF InPlace
<1>3. DataSize \in Nat /\ DataSize' = DataSize /\ inp' = inp
  <2>1. inp.nsamples * inp.nifs \in Nat
    BY <1>1, InputTyped, MulPositive DEF HeaderShape
  <2>2. DataSize \in Nat
    BY <1>1, <2>1, InputTyped, MulPositive DEF HeaderShape, DataSize
  <2> QED BY <1>1, <2>2, SameInputs
<1>4. Copying'
  <2>1. PICK h : h = [InputHeader EXCEPT !.padded = TRUE, !.edited = TRUE]
    OBVIOUS
  <2>2. IsFileOf(tmp') /\ tmp'.mem.hdr = h /\ DOMAIN tmp'.mem.data = Positions(h)
    BY <1>1, <2>1 DEF NewFile, IsFileOf
  <2>3. Positions(h) = Positions(inp)
    <3>1. h.nifs = inp.nifs /\ h.nchans = inp.nchans /\ h.nsamples = inp.nsamples
      <4>1. PICK T : T = TRUE
        OBVIOUS
      <4> DEFINE g == Hdr(inp.nifs, inp.nchans, inp.nsamples, inp.barycentric, T, T)
      <4>2. g.nifs = inp.nifs /\ g.nchans = inp.nchans /\ g.nsamples = inp.nsamples
        BY DEF Hdr
      <4>3. h = g
        BY <2>1, <4>1, InputHeaderFields, Zenon
      <4> HIDE DEF g
      <4> QED BY <4>2, <4>3
    <3> QED BY <3>1 DEF Positions
  <2>4. InputHeader' = InputHeader /\ Positions(inp)' = Positions(inp)
    BY <1>1, <1>3, SameInputs DEF Positions
  <2>5. copied' \in 0..DataSize' /\ ~(\E o : o \in 0..(copied' - 1))
    BY <1>1, <1>3
  <2> QED BY <2>1, <2>2, <2>3, <2>4, <2>5 DEF Copying, IsFileOf
<1>5. Common'
  BY <1>1, <1>2, CommonStays DEF OutInv
<1>6. Control' /\ Files'
  BY <1>1, <1>2, <1>4, SameInputs DEF Control, Files
<1> QED BY <1>5, <1>6 DEF OutInv

\* The chunk and what was copied before it are what the input holds there.
LEMMA CopyOut == ASSUME OutInv, CopyChunk PROVE OutInv'
<1> DEFINE now == LesserOf(copied + CopyCells, DataSize)
<1>1. /\ UNCHANGED <<inputs, kill, b, f, out>> /\ pc = "copy" /\ pc' = "copy"
      /\ copied < DataSize /\ copied' = now
      /\ tmp' = [tmp EXCEPT !.mem.data = [o \in DOMAIN @ |->
           IF o \in copied..(now - 1) THEN InputFile.mem.data[o] ELSE @[o]]]
  BY DEF CopyChunk
<1>2. /\ Copying /\ ~InPlace /\ ~job.oneFile /\ ~DoProcessing /\ job.edit
      /\ inp \in Inputs /\ job \in Jobs
  BY <1>1 DEF OutInv, Control, Files, Common, InPlace
<1>3. /\ DataSize \in Nat /\ copied \in 0..DataSize /\ CopyCells \in Nat \ {0}
      /\ Positions(inp) = 0..(DataSize - 1)
  <2>1. inp.nsamples * inp.nifs \in Nat
    BY <1>2, InputTyped, MulPositive DEF HeaderShape
  <2>2. DataSize \in Nat
    BY <1>2, <2>1, InputTyped, MulPositive DEF HeaderShape, DataSize
  <2> QED BY <1>2, <2>2, PrepfilAssumption DEF Copying, Positions, DataSize
<1>4. now \in 0..DataSize /\ copied <= now
  BY <1>1, <1>3 DEF LesserOf
<1> HIDE DEF now
<1>5. /\ IsFileOf(tmp') /\ tmp'.mem.hdr = tmp.mem.hdr
      /\ tmp'.mem.data = [o \in DOMAIN tmp.mem.data |->
           IF o \in copied..(now - 1) THEN InputFile.mem.data[o] ELSE tmp.mem.data[o]]
  BY <1>1, <1>2 DEF Copying, IsFileOf
<1>6. \A o \in 0..(now - 1) : tmp'.mem.data[o] = InputFile.mem.data[o]
  <2>1. \A o \in 0..(now - 1) : o \in Positions(inp) /\ (o \in 0..(copied - 1) \/ o \in copied..(now - 1))
    BY <1>3, <1>4
  <2> QED BY <1>2, <1>5, <2>1 DEF Copying
<1>7. Copying'
  <2>1. /\ InputHeader' = InputHeader /\ InputFile' = InputFile /\ DataSize' = DataSize
        /\ Positions(inp)' = Positions(inp)
    BY <1>1, SameInputs DEF Positions
  <2> QED BY <1>1, <1>2, <1>4, <1>5, <1>6, <2>1 DEF Copying, IsFileOf
<1>8. Common'
  BY <1>1, <1>2, CommonStays DEF OutInv
<1>9. Control' /\ Files'
  BY <1>1, <1>2, <1>7, SameInputs DEF Control, Files
<1> QED BY <1>8, <1>9 DEF OutInv

LEMMA PublishCopyOut == ASSUME OutInv, PublishCopy PROVE OutInv'
<1>1. /\ UNCHANGED <<inputs, kill, b, f>> /\ pc = "copy" /\ pc' = "closeEdited"
      /\ copied = DataSize /\ out' = tmp /\ tmp' = NoFile
  BY DEF PublishCopy, Rename, work
<1>2. /\ Copying /\ ~job.oneFile /\ ~DoProcessing /\ job.edit = TRUE
      /\ inp \in Inputs /\ job \in Jobs
  <2>1. job.edit /\ job \in Jobs
    BY <1>1 DEF OutInv, Control, Common
  <2>2. job.edit = TRUE
    BY <2>1, PrepfilAssumption
  <2> QED BY <1>1, <2>2 DEF OutInv, Control, Files, Common, InPlace
<1>3. tmp.mem.hdr = [OutHeader EXCEPT !.edited = TRUE]
  <2>1. [OutHeader EXCEPT !.edited = TRUE] =
          Hdr(inp.nifs, inp.nchans, inp.nsamples, inp.barycentric, TRUE, TRUE)
    BY <1>2, HeaderOnly
  <2>2. [InputHeader EXCEPT !.padded = TRUE, !.edited = TRUE] =
          Hdr(inp.nifs, inp.nchans, inp.nsamples, inp.barycentric, TRUE, TRUE)
    BY InputHeaderFields, Zenon
  <2>3. tmp.mem.hdr = [InputHeader EXCEPT !.padded = TRUE, !.edited = TRUE]
    BY <1>2 DEF Copying
  <2> QED BY <2>1, <2>2, <2>3, Zenon
<1>4. \A o \in Positions(inp) : tmp.mem.data[o] = InputFile.mem.data[o]
  BY <1>1, <1>2 DEF Copying, Positions, DataSize
<1>5. WholeFile(tmp)
  <2>1. tmp.mem.hdr # Hole
    <3>1. Ready
      BY <1>2, InputRight
    <3> QED BY <1>3, <3>1, HeadersTyped, HoleIsNoValue
  <2>2. \A o \in DOMAIN tmp.mem.data : tmp.mem.data[o] # Hole
    BY <1>2, <1>4, InputValues, HoleIsNoValue DEF Copying
  <2> QED BY <2>1, <2>2 DEF WholeFile
<1>6. DataRight(tmp)
  <2>1. ASSUME NEW n \in OutTimes, NEW i \in IFs, NEW c \in Channels
        PROVE  Belongs(n, i, c, tmp.mem.data[Offset(inp, n, i, c)])
    <3>1. HeaderShape(inp) /\ OutN = inp.nsamples
      <4>1. Ready /\ ~DoAvg
        BY <1>2, InputRight DEF DoProcessing
      <4> QED BY <4>1, ReadyTypes
    <3>2. Offset(inp, n, i, c) \in Positions(inp)
      BY <3>1, OffsetInside DEF OutTimes, IFs, Channels
    <3>3. tmp.mem.data[Offset(inp, n, i, c)] = InputFile.mem.data[Offset(inp, n, i, c)]
      BY <1>4, <3>2
    <3> QED BY <1>2, <3>3, InputRight
  <2> QED BY <2>1 DEF DataRight
<1>7. DataRight(out)'
  <2>1. inp' = inp /\ OutTimes' = OutTimes /\ IFs' = IFs /\ Channels' = Channels
    BY <1>1, SameInputs
  <2>2. ASSUME NEW n \in OutTimes, NEW i \in IFs, NEW c \in Channels
        PROVE  Belongs(n, i, c, out.mem.data[Offset(inp, n, i, c)])'
    <3>1. PICK v : v = tmp.mem.data[Offset(inp, n, i, c)]
      OBVIOUS
    <3>2. out.mem.data[Offset(inp, n, i, c)]' = v
      BY <1>1, <2>1, <3>1 DEF Offset
    <3>3. Belongs(n, i, c, v)'
      BY <1>1, <1>6, <3>1, BelongsStays DEF DataRight
    <3> QED BY <3>2, <3>3 DEF Belongs, Asked
  <2> QED BY <2>1, <2>2 DEF DataRight
<1>8. Result(job.edit)'
  <2>1. job'.edit = TRUE /\ OutHeader' = OutHeader
    BY <1>1, <1>2, SameInputs
  <2> QED BY <1>1, <1>2, <1>3, <1>5, <1>7, <2>1 DEF Result, Copying, IsFileOf, WholeFile
<1>9. NameMeansWhole'
  BY <1>1, <1>5 DEF NameMeansWhole, WholeFile
<1> QED BY <1>1, <1>2, <1>8, <1>9, ResultStays

\* The destructor flushes what is complete already.
LEMMA CloseEditedOut == ASSUME OutInv, CloseEdited PROVE OutInv'
<1>1. /\ UNCHANGED <<inputs, kill, b, f, tmp>> /\ pc = "closeEdited"
      /\ out' = Fsync(out) /\ pc' = "done"
  BY DEF CloseEdited, work
<1>2. /\ Result(job.edit) /\ ~(DoProcessing /\ job.oneFile)
      /\ job \in Jobs /\ inp \in Inputs
  BY <1>1 DEF OutInv, Control, Files, Common
<1>3. job.edit \in BOOLEAN /\ Ready
  <2>1. DoProcessing => Ready
    BY <1>1 DEF OutInv, Control
  <2> QED BY <1>2, <2>1, PrepfilAssumption, InputRight
<1>4. out'.mem = out.mem /\ out'.disk = out.mem /\ IsFileOf(out')
  BY <1>1, <1>2 DEF Result, IsFileOf, Fsync
<1>5. Result(job.edit)' /\ NameMeansWhole'
  <2>1. PICK e : e = job.edit
    OBVIOUS
  <2>2. Result(e)' /\ NameMeansWhole'
    BY <1>1, <1>2, <1>3, <1>4, <2>1, SameDataResult DEF Result, IsFileOf
  <2>3. job'.edit = e
    BY <1>1, <2>1, SameInputs
  <2> QED BY <2>2, <2>3 DEF Result
<1>6. job.oneFile => InputKept'
  <2>1. InputFile' = InputFile /\ InputHeader' = InputHeader
    BY <1>1, SameInputs
  <2>2. job.oneFile => InputKept
    BY DEF OutInv, Common
  <2> QED BY <1>4, <2>1, <2>2 DEF InputKept, IsFileOf
<1>7. tmp' = NoFile
  BY <1>1, <1>2 DEF Result
<1> QED BY <1>1, <1>2, <1>3, <1>5, <1>6, <1>7, ResultStays

-----------------------------------------------------------------------------
(* The rest of the steps.                                                  *)

LEMMA ParseOut == ASSUME OutInv, Parse PROVE OutInv'
<1>1. UNCHANGED <<inputs, b, f, kill, tmp, out>> /\ pc = "parse"
  BY DEF Parse, work
<1>2. Common'
  BY <1>1, CommonStays DEF OutInv, Common
<1>3. b' = 0 /\ f' = 0
  BY <1>1 DEF OutInv, Control
<1>4. /\ pc' \in {"done", "failed", "setup", "edit"}
      /\ pc' = "done" => Nothing
      /\ pc' = "setup" => DoProcessing /\ ~job.oneFile
      /\ pc' = "edit" => job.edit /\ ~DoProcessing
  BY DEF Parse, Nothing
<1>5. Control'
  BY <1>1, <1>3, <1>4, SameInputs DEF Control, Nothing
<1>6. Files'
  <2>1. /\ pc' \in {"done", "failed", "setup", "edit"}
        /\ pc' = "done" => Nothing'
        /\ pc' = "edit" => ~DoProcessing'
    BY <1>1, <1>4, SameInputs
  <2> QED BY ONLY <2>1 DEF Files
<1> QED BY <1>2, <1>5, <1>6 DEF OutInv

\* A process that is gone leaves its files.
LEMMA DownStays ==
  ASSUME OutInv, UNCHANGED inputs, Common', b' = 0, f' = 0,
         pc' \in {"down", "parse"}
  PROVE  OutInv'
BY DEF OutInv, Control, Files

\* Of an input that is edited in place, a power failure takes at most the edit.
LEMMA InputSurvives ==
  ASSUME InputKept, NEW lost, NEW header \in BOOLEAN,
         out' = Surviving(out, lost, header), UNCHANGED inputs, out # NoFile
  PROVE  InputKept'
<1> DEFINE c == [hdr  |-> IF header THEN out.mem.hdr ELSE out.disk.hdr,
                 data |-> [o \in DOMAIN out.mem.data |->
                             IF o \in lost THEN out.disk.data[o]
                             ELSE out.mem.data[o]]]
<1>1. out' = [mem |-> c, disk |-> c]
  BY DEF Surviving
<1>2. c.data = InputFile.mem.data
  BY InputFileShape DEF InputKept
<1>3. c.hdr \in {InputHeader, [InputHeader EXCEPT !.edited = TRUE]} /\ DOMAIN c = {"hdr", "data"}
  BY DEF InputKept
<1> HIDE DEF c
<1>4. InputFile' = InputFile /\ InputHeader' = InputHeader
  BY SameInputs
<1> QED BY <1>1, <1>2, <1>3, <1>4 DEF InputKept, IsFileOf

LEMMA PowerOut == ASSUME OutInv, PowerFailure PROVE OutInv'
<1>1. UNCHANGED inputs /\ b' = 0 /\ f' = 0 /\ pc' = "down" /\ failure = "power"
  BY DEF PowerFailure, Failing, Idle
<1>2. PICK lost \in Losses, header \in BOOLEAN :
        tmp' = Surviving(tmp, lost, header) /\ out' = Surviving(out, lost, header)
  BY DEF PowerFailure
<1>3. job.oneFile => tmp' = NoFile /\ InputKept'
  <2> SUFFICES ASSUME job.oneFile PROVE tmp' = NoFile /\ InputKept'
    OBVIOUS
  <2>1. tmp = NoFile /\ InputKept
    BY DEF OutInv, Common
  <2>2. tmp' = NoFile
    BY <1>2, <2>1 DEF Surviving
  <2>3. CASE out = NoFile
    <3>1. out' = out
      BY <1>2, <2>3 DEF Surviving
    <3> QED BY <1>1, <2>1, <2>2, <3>1, SameInputs DEF InputKept, IsFileOf
  <2>4. CASE out # NoFile
    BY <1>1, <1>2, <2>1, <2>2, <2>4, InputSurvives
  <2> QED BY <2>3, <2>4
<1>4. Common'
  BY <1>1, <1>3, SameInputs DEF OutInv, Common
<1> QED BY <1>1, <1>4, DownStays

LEMMA SameOut == ASSUME OutInv, UNCHANGED vars PROVE OutInv'
<1>1. UNCHANGED <<inputs, pc, batchSize, b, f, chunk, counts, kill, buf, t, copied, tmp, out>>
  BY DEF vars, work
<1>2. Common'
  BY <1>1, CommonStays DEF OutInv, Common
<1>3. Control'
  BY <1>1, SameInputs DEF OutInv, Control, ZappedChannels, Channel
<1>4. /\ inp' = inp /\ InputFile' = InputFile /\ InputHeader' = InputHeader
      /\ OutHeader' = OutHeader /\ DataSize' = DataSize /\ OutTimes' = OutTimes
      /\ IFs' = IFs /\ Channels' = Channels /\ OutN' = OutN /\ NumBatches' = NumBatches
      /\ Positions(OutHeader)' = Positions(OutHeader) /\ Positions(inp)' = Positions(inp)
  BY <1>1, SameInputs DEF NumBatches, Positions
<1>5. Fresh' = Fresh /\ Copying' = Copying
  BY <1>1, <1>4 DEF Fresh, IsFileOf, Copying
<1>6. Progress => Progress'
  <2>1. Written => Written'
    <3>1. \A n \in OutTimes, i \in IFs, c \in Channels :
            Done(n, i, c)' = Done(n, i, c) /\ Row(i, c)' = Row(i, c)
      BY <1>1, <1>4, RowStays DEF Done
    <3>2. \A n \in OutTimes, i \in IFs, c \in Channels :
            Offset(inp, n, i, c)' = Offset(inp, n, i, c)
      BY <1>4 DEF Offset
    <3> QED BY <1>1, <1>4, <3>1, <3>2 DEF Written
  <2>2. InBatch => InBatch'
    <3>1. \A c \in Piece(inp.nchans, b, batchSize) : Row(f, c)' = Row(f, c)
      BY <1>1, RowStays
    <3> QED BY <1>1, <1>4, <3>1 DEF InBatch
  <2> QED BY <1>1, <1>4, <1>5, <2>1, <2>2 DEF Progress
<1>7. ASSUME NEW e, Result(e) PROVE Result(e)'
  <2>1. DataRight(out)'
    BY <1>1, <1>7, DataStays DEF Result
  <2> QED BY <1>1, <1>4, <1>7, <2>1 DEF Result, IsFileOf, WholeFile
<1>8. Result(job.edit) => Result(job.edit)'
  <2>1. PICK e : e = job.edit
    OBVIOUS
  <2>2. job'.edit = e
    BY <1>1, <2>1, SameInputs
  <2> QED BY <1>7, <2>1, <2>2 DEF Result
<1>9. Files'
  <2>1. Result(FALSE) => Result(FALSE)'
    <3>1. PICK e : e = FALSE
      BY Zenon
    <3>2. Result(e) => Result(e)'
      BY <1>7
    <3> QED BY <3>1, <3>2 DEF Result
  <2>2. Files /\ pc' = pc /\ DoProcessing' = DoProcessing /\ Nothing' = Nothing
    BY <1>1, SameInputs DEF OutInv
  <2> QED BY ONLY <1>5, <1>6, <1>8, <2>1, <2>2 DEF Files
<1> QED BY <1>2, <1>3, <1>9 DEF OutInv

LEMMA StepOut == ASSUME OutInv, BatchInv, [Next]_vars PROVE OutInv'
<1>1. CASE Process
  <2>1. CASE SetupThrows \/ SetupDies \/ BandpassDies \/ BatchDies
    <3>1. UNCHANGED <<inputs, out, tmp>> /\ pc' \in {"failed", "sigfpe", "sigsegv"}
      BY <2>1 DEF SetupThrows, SetupDies, BandpassDies, BatchDies
    <3> QED BY <3>1, EndStays DEF OutInv, Common
  <2> QED BY <1>1, <2>1, CreateOut, MeasureOut, KillOut, ProcessOut, WriteOut, NextOut,
         PublishOut, CloseOutputOut DEF Process
<1>2. CASE ModifyHeader
  BY <1>2, EditOut, StartCopyOut, CopyOut, PublishCopyOut, CloseEditedOut DEF ModifyHeader
<1>3. CASE WriteFails
  <2>1. UNCHANGED <<inputs, out>> /\ pc' = "failed" /\ pc \in {"write", "copy"}
    BY <1>3 DEF WriteFails
  <2>2. ~job.oneFile
    BY <2>1 DEF OutInv, Control, InPlace
  <2> QED BY <2>1, <2>2, EndStays
<1>4. CASE Kill
  <2>1. UNCHANGED <<inputs, out, tmp>> /\ b' = 0 /\ f' = 0 /\ pc' = "down"
    BY <1>4 DEF Kill, Failing, Idle
  <2>2. Common'
    BY <2>1, CommonStays DEF OutInv, Common
  <2> QED BY <2>1, <2>2, DownStays
<1>5. CASE Rerun
  <2>1. UNCHANGED <<inputs, out, tmp, b, f>> /\ pc = "down" /\ pc' = "parse"
    BY <1>5 DEF Rerun, work
  <2>2. Common' /\ b' = 0 /\ f' = 0
    BY <2>1, CommonStays DEF OutInv, Common, Control
  <2> QED BY <2>1, <2>2, DownStays
<1>6. CASE UNCHANGED vars
  BY <1>6, SameOut
<1> QED BY <1>1, <1>2, <1>3, <1>4, <1>5, <1>6, ParseOut, PowerOut DEF Next

LEMMA OutHolds == Spec => []OutInv
<1>1. BatchInv /\ OutInv /\ [Next]_vars => BatchInv' /\ OutInv'
  BY NextBatchInv, StepOut
<1> QED BY <1>1, InitBatch, InitOut, PTL DEF Spec

\* Wherever prepfil is killed and however often, whatever file it works on: a
\* file under the output's own name is whole, since a result is renamed when the
\* last of its samples is written, and edited only where headers are as long.
THEOREM AlwaysPublishedWhole == Spec => []PublishedWhole
<1>1. OutInv => PublishedWhole
  BY DEF OutInv, Common, PublishedWhole
<1> QED BY <1>1, OutHolds, PTL

LEMMA ResultIsRight ==
  ASSUME Ready, Result(job.edit), NEW o \in Positions(OutHeader)
  PROVE  LET s == SampleAt(OutHeader, o)
             n == s[1] + (IF Correcting THEN job.drop ELSE 0)
             v == out.mem.data[o]
         IN  IF n < OutN THEN Asked(n, s[2], s[3], v) ELSE v = Zero
<1>1. PICK n \in 0..(OutHeader.nsamples - 1), i \in 0..(OutHeader.nifs - 1),
           c \in 0..(OutHeader.nchans - 1) :
        o = Offset(OutHeader, n, i, c) /\ SampleAt(OutHeader, o) = <<n, i, c>>
  BY OutShape, PositionOfSample
<1>2. n \in OutTimes /\ i \in IFs /\ c \in Channels /\ o = Offset(inp, n, i, c)
  BY <1>1, OutShape DEF OutTimes, IFs, Channels, Offset
<1>3. Belongs(n, i, c, out.mem.data[o])
  BY <1>2 DEF Result, DataRight
<1>4. SampleAt(OutHeader, o)[1] = n /\ SampleAt(OutHeader, o)[2] = i
      /\ SampleAt(OutHeader, o)[3] = c
  BY <1>1
<1> QED BY <1>3, <1>4 DEF Belongs

\* Whatever the file, the mask, the memory and the number of averaged samples,
\* and wherever earlier runs were killed: when prepfil has ended well, each
\* place of its output holds the input samples that belong there, processed as
\* asked, under the header asked for, and nothing is left in progress.
THEOREM AlwaysOutputRight == Spec => []OutputRight
<1>1. OutInv => OutputRight
  <2> SUFFICES ASSUME OutInv, pc = "done", DoProcessing \/ job.edit PROVE
         /\ tmp = NoFile
         /\ out.mem.hdr = [OutHeader EXCEPT !.edited = job.edit]
         /\ \A o \in Positions(OutHeader) :
              LET s == SampleAt(OutHeader, o)
                  n == s[1] + (IF Correcting THEN job.drop ELSE 0)
                  v == out.mem.data[o]
              IN  IF n < OutN THEN Asked(n, s[2], s[3], v) ELSE v = Zero
    BY DEF OutputRight
  <2>1. Result(job.edit)
    BY DEF OutInv, Files, Nothing
  <2>2. Ready
    <3>1. DoProcessing => Ready
      BY DEF OutInv, Control
    <3>2. ~DoProcessing => Ready
      BY InputRight DEF OutInv, Common
    <3> QED BY <3>1, <3>2
  <2> QED BY <2>1, <2>2, ResultIsRight DEF Result
<1> QED BY <1>1, OutHolds, PTL

-----------------------------------------------------------------------------
(* The bandpass counts each sample once.                                   *)

\* What has been counted when the samples before m have been seen.
Counts(m) ==
  [c \in Channels |-> [n \in 0..(inp.nsamples - 1) |->
     IF n < m /\ n < BpSamples /\ Counted(c, n) THEN 1 ELSE 0]]

CountInv ==
  /\ pc \in {"parse", "setup", "down"} => chunk = 0
  /\ pc \in {"bandpass", "batch", "write"} =>
       Ready /\ (DoBp => BpSamples \in Nat \ {0})
  /\ pc = "bandpass" =>
       /\ DoBp /\ counts = Counts(First(chunk, ChunkLen))
       /\ chunk \in Nat /\ ChunkLen \in Nat
       /\ IF ChunkLen = 0 THEN chunk = 0 ELSE chunk <= NumChunks
  /\ DoBp /\ pc \in {"batch", "write"} => counts = Counts(BpSamples)

LEMMA BpTypes ==
  ASSUME BatchInv, Ready, ~TooSmall, DoBp
  PROVE  BpSamples \in Nat \ {0} /\ BpSamples <= inp.nsamples
<1>1. inp.nsamples \in Nat /\ job.bp \in Nat \ {0}
  BY InputTypes DEF DoBp, Ready, Refused
<1>2. inp.nsamples # 0
  <2>1. SUFFICES ASSUME inp.nsamples = 0 PROVE FALSE
    OBVIOUS
  <2>2. OutN = 0
    BY <1>1, <2>1, ReadyTypes
  <2> QED BY <2>1, <2>2 DEF TooSmall, FloatsPerChannel
<1> QED BY <1>1, <1>2 DEF BpSamples, LesserOf

\* A sample is counted when the mask leaves it: neither its channel nor its
\* channel in its interval is zapped.
LEMMA CountedIsLeft ==
  ASSUME Ready, NEW c \in Channels, NEW n \in 0..(inp.nsamples - 1)
  PROVE  Counted(c, n) <=>
           /\ ~MaskKills(c)
           /\ ~(Masked /\ \E d \in job.mask.perInt[n \div job.mask.size] : SameChannel(d, c))
<1>1. CASE ~Masked
  BY <1>1 DEF Counted, MaskKills
<1>2. CASE Masked
  <2> DEFINE k == n \div job.mask.size
  <2>1. k \in Intervals(job.mask)
    BY <1>2, IntervalOf
  <2> HIDE DEF k
  <2>2. \A d \in job.mask.chans \cup job.mask.perInt[k] :
          Channel(job.mask, d) = c <=> SameChannel(d, c)
    BY <1>2, <2>1, MaskShape, ChannelIsSame
  <2>3. c \in ZappedChannelsPerInterval(job.mask, k) <=>
          \E d \in job.mask.chans \cup job.mask.perInt[k] : Channel(job.mask, d) = c
    BY DEF ZappedChannelsPerInterval, ZappedChannels
  <2>4. Counted(c, n) <=> c \notin ZappedChannelsPerInterval(job.mask, k)
    BY <1>2 DEF Counted, k
  <2>5. MaskKills(c) <=> \E d \in job.mask.chans : SameChannel(d, c)
    BY <1>2 DEF MaskKills
  <2> QED BY <1>2, <2>2, <2>3, <2>4, <2>5 DEF k
<1> QED BY <1>1, <1>2

LEMMA CountsStay ==
  ASSUME UNCHANGED <<inputs, batchSize>>
  PROVE  /\ Ready' = Ready /\ DoBp' = DoBp /\ BpSamples' = BpSamples
         /\ ChunkLen' = ChunkLen /\ NumChunks' = NumChunks /\ inp' = inp
         /\ Channels' = Channels
         /\ \A c, n : Counted(c, n)' = Counted(c, n)
BY DEF inputs, Ready, Refused, DoBp, Masked, BpSamples, LesserOf, ChunkLen, NumChunks,
  NumPieces, CeilDiv, TimeChunk, Channels, Counted, ZappedChannelsPerInterval,
  ZappedChannels, Channel

LEMMA SameCounts ==
  ASSUME UNCHANGED inputs, NEW m
  PROVE  Counts(m)' = Counts(m)
<1>1. inp' = inp /\ job' = job
  BY DEF inputs
<1> QED
  BY <1>1 DEF Counts, BpSamples, LesserOf, Channels, Counted, Masked,
    ZappedChannelsPerInterval, ZappedChannels, Channel

\* After the last chunk the samples of all chunks are the samples measured.
LEMMA ChunksCover ==
  ASSUME BpSamples \in Nat \ {0}, ChunkLen \in Nat \ {0}
  PROVE  Counts(First(NumChunks, ChunkLen)) = Counts(BpSamples)
<1>1. NumChunks \in Nat \ {0} /\ BpSamples <= ChunkLen * NumChunks
  BY CeilCovers DEF NumChunks, NumPieces
<1>2. First(NumChunks, ChunkLen) = ChunkLen * NumChunks /\ ChunkLen * NumChunks \in Nat
  BY <1>1, MulPositive DEF First
<1>3. \A n \in 0..(inp.nsamples - 1) :
        (n < First(NumChunks, ChunkLen) /\ n < BpSamples) <=> (n < BpSamples /\ n < BpSamples)
  <2> DEFINE x == First(NumChunks, ChunkLen)
  <2>1. x \in Nat /\ BpSamples <= x
    BY <1>1, <1>2
  <2> HIDE DEF x
  <2>2. \A n \in 0..(inp.nsamples - 1) : n \in Int
    OBVIOUS
  <2>3. \A n \in Int : (n < x /\ n < BpSamples) <=> n < BpSamples
    BY <2>1
  <2> QED BY <2>2, <2>3 DEF x
<1> QED BY <1>3 DEF Counts

LEMMA CreateCounts == ASSUME BatchInv, BatchInv', CountInv, Create PROVE CountInv'
<1>1. /\ UNCHANGED <<inputs, chunk>> /\ pc = "setup" /\ ~Refused /\ ~TooSmall
      /\ counts' = [c \in Channels |-> [n \in 0..(inp.nsamples - 1) |-> 0]]
      /\ pc' = IF DoBp THEN "bandpass" ELSE "batch"
      /\ batchSize' = BatchSize(buffer, FloatsPerChannel, inp.nchans)
  BY DEF Create
<1>2. Ready /\ Ready' /\ chunk' = 0 /\ BatchInv
  BY <1>1, SameInputs DEF Ready, BatchInv, CountInv
<1>3. DoBp => BpSamples' \in Nat \ {0}
  BY <1>1, <1>2, BpTypes DEF BpSamples, inputs
<1>4. CASE ~DoBp
  BY <1>1, <1>2, <1>4 DEF CountInv, DoBp, inputs
<1>5. CASE DoBp
  <2>1. ChunkLen' \in Nat
    <3>1. PICK p : p = batchSize'
      OBVIOUS
    <3>2. p \in 1..inp.nchans /\ inp.nchans \in Nat \ {0} /\ inp.nsamples \in Nat
          /\ ChunkFloats \in Nat /\ BpSamples \in Nat
      BY <1>1, <1>2, <1>5, <3>1, BatchSizeFits, InputTypes, BpTypes
    <3>3. TimeChunk(p, inp.nsamples, inp.nchans, ChunkFloats, BpSamples) \in Nat
      <4>1. p \in Nat /\ p * inp.nsamples \in Nat
        BY <3>2, MulPositive
      <4>2. (p * inp.nsamples) \div inp.nchans \in Nat /\ ChunkFloats \div inp.nchans \in Nat
        BY <3>2, <4>1, DivBounds
      <4> QED BY <3>2, <4>2 DEF TimeChunk, LesserOf
    <3>4. ChunkLen' = TimeChunk(p, inp.nsamples, inp.nchans, ChunkFloats, BpSamples)
      BY <1>1, <3>1 DEF ChunkLen, TimeChunk, BpSamples, LesserOf, inputs
    <3> QED BY <3>3, <3>4
  <2>2. ChunkLen' # 0 => NumChunks' \in Nat
    <3>1. PICK l : l = ChunkLen'
      OBVIOUS
    <3>2. l # 0 => CeilDiv(BpSamples', l) \in Nat
      BY <1>3, <1>5, <2>1, <3>1, CeilCovers
    <3>3. NumChunks' = CeilDiv(BpSamples', l)
      BY <3>1 DEF NumChunks, NumPieces, CeilDiv
    <3> QED BY <3>1, <3>2, <3>3
  <2>3. First(chunk, ChunkLen)' = 0
    <3>1. PICK l : l = ChunkLen'
      OBVIOUS
    <3>2. l \in Nat
      BY <2>1, <3>1
    <3>3. 0 * l = 0
      BY <3>2
    <3> QED BY <1>2, <3>1, <3>3 DEF First
  <2>4. counts' = Counts(First(chunk, ChunkLen))'
    <3>1. \A n \in 0..(inp.nsamples - 1) : ~(n < 0)
      BY InputTypes
    <3>2. inp' = inp /\ Channels' = Channels
      BY <1>1, SameInputs
    <3> QED BY <1>1, <2>3, <3>1, <3>2 DEF Counts
  <2>5. pc' = "bandpass" /\ DoBp'
    BY <1>1, <1>5, SameInputs DEF DoBp
  <2>6. IF ChunkLen' = 0 THEN chunk' = 0 ELSE chunk' <= NumChunks'
    BY <1>2, <2>2
  <2>7. chunk' \in Nat /\ BpSamples' \in Nat \ {0}
    BY <1>2, <1>3, <1>5
  <2> QED BY <1>2, <2>1, <2>4, <2>5, <2>6, <2>7 DEF CountInv
<1> QED BY <1>4, <1>5

LEMMA ChunkCounts == ASSUME BatchInv, CountInv, MeasureChunk PROVE CountInv'
<1>1. /\ UNCHANGED <<inputs, pc, batchSize>> /\ pc = "bandpass" /\ ChunkLen > 0
      /\ chunk < NumChunks /\ chunk' = chunk + 1
      /\ counts' = [c \in Channels |-> [n \in DOMAIN counts[c] |->
           IF n \in Piece(BpSamples, chunk, ChunkLen) /\ Counted(c, n)
           THEN counts[c][n] + 1 ELSE counts[c][n]]]
  BY DEF MeasureChunk
<1>2. /\ Ready /\ BpSamples \in Nat \ {0} /\ DoBp /\ chunk \in Nat
      /\ ChunkLen \in Nat \ {0} /\ counts = Counts(First(chunk, ChunkLen))
  BY <1>1 DEF CountInv
<1>3. inp.nsamples \in Nat
  BY InputTypes
<1>4. ASSUME NEW n \in 0..(inp.nsamples - 1)
      PROVE  /\ n \in Piece(BpSamples, chunk, ChunkLen) =>
                  ~(n < First(chunk, ChunkLen)) /\ n < First(chunk + 1, ChunkLen)
                  /\ n < BpSamples
             /\ n < First(chunk + 1, ChunkLen) /\ n < BpSamples =>
                  n < First(chunk, ChunkLen) \/ n \in Piece(BpSamples, chunk, ChunkLen)
             /\ n < First(chunk, ChunkLen) => n < First(chunk + 1, ChunkLen)
  <2> DEFINE p == ChunkLen
             x == chunk * p
             B == BpSamples
  <2>1. /\ x \in Nat /\ First(chunk, p) = x /\ First(chunk + 1, p) = x + p
        /\ p \in Nat \ {0} /\ B \in Nat /\ n \in Nat
        /\ Piece(B, chunk, p) = x..(x + LesserOf(p, B - x) - 1)
    BY <1>2, <1>3, MulPositive, Distribute DEF First, Piece, Length
  <2> HIDE DEF x, p, B
  <2>2. /\ n \in Piece(B, chunk, p) => ~(n < x) /\ n < x + p /\ n < B
        /\ n < x + p /\ n < B => n < x \/ n \in Piece(B, chunk, p)
        /\ n < x => n < x + p
    BY <2>1 DEF LesserOf
  <2> QED BY <2>1, <2>2 DEF p, B
<1>5. counts' = Counts(First(chunk + 1, ChunkLen))
  <2>1. ASSUME NEW c \in Channels
        PROVE  [n \in DOMAIN counts[c] |->
                 IF n \in Piece(BpSamples, chunk, ChunkLen) /\ Counted(c, n)
                 THEN counts[c][n] + 1 ELSE counts[c][n]]
               = [n \in 0..(inp.nsamples - 1) |->
                   IF n < First(chunk + 1, ChunkLen) /\ n < BpSamples /\ Counted(c, n)
                   THEN 1 ELSE 0]
    <3>1. DOMAIN counts[c] = 0..(inp.nsamples - 1)
      BY <1>2 DEF Counts
    <3>2. \A n \in 0..(inp.nsamples - 1) :
            counts[c][n] = IF n < First(chunk, ChunkLen) /\ n < BpSamples /\ Counted(c, n)
                           THEN 1 ELSE 0
      BY <1>2 DEF Counts
    <3>3. \A n \in 0..(inp.nsamples - 1) :
            (IF n \in Piece(BpSamples, chunk, ChunkLen) /\ Counted(c, n)
             THEN counts[c][n] + 1 ELSE counts[c][n])
            = (IF n < First(chunk + 1, ChunkLen) /\ n < BpSamples /\ Counted(c, n)
               THEN 1 ELSE 0)
      BY <1>4, <3>2
    <3> QED BY <3>1, <3>3
  <2> QED BY <1>1, <2>1 DEF Counts
<1>6. /\ NumChunks \in Nat /\ chunk' \in Nat /\ chunk' <= NumChunks
  <2>1. NumChunks \in Nat \ {0}
    BY <1>2, CeilCovers DEF NumChunks, NumPieces
  <2> QED BY <1>1, <1>2, <2>1
<1>7. counts' = Counts(First(chunk, ChunkLen))'
  <2>1. PICK m : m = First(chunk + 1, ChunkLen)
    OBVIOUS
  <2>2. First(chunk, ChunkLen)' = m
    BY <1>1, <2>1, CountsStay DEF First
  <2>3. Counts(m)' = Counts(m)
    BY <1>1, SameCounts
  <2>4. counts' = Counts(m)'
    BY <1>5, <2>1, <2>3
  <2> QED BY <2>2, <2>4 DEF Counts
<1>8. /\ Ready' /\ BpSamples' \in Nat \ {0} /\ DoBp' /\ ChunkLen' = ChunkLen
      /\ NumChunks' = NumChunks /\ pc' = "bandpass"
  BY <1>1, <1>2, CountsStay
<1> QED BY <1>2, <1>6, <1>7, <1>8 DEF CountInv

LEMMA KillCounts == ASSUME CountInv, KillChannels PROVE CountInv'
<1>1. /\ UNCHANGED <<inputs, batchSize, chunk, counts>> /\ pc = "bandpass"
      /\ ChunkLen > 0 /\ chunk = NumChunks /\ pc' = "batch"
  BY DEF KillChannels
<1>2. /\ Ready /\ DoBp /\ BpSamples \in Nat \ {0} /\ ChunkLen \in Nat \ {0}
      /\ counts = Counts(First(chunk, ChunkLen))
  BY <1>1 DEF CountInv
<1>3. counts = Counts(BpSamples)
  BY <1>1, <1>2, ChunksCover
<1>4. counts' = Counts(BpSamples)'
  <2>1. PICK m : m = BpSamples
    OBVIOUS
  <2>2. BpSamples' = m
    BY <1>1, <2>1, CountsStay
  <2>3. Counts(m)' = Counts(m)
    BY <1>1, SameCounts
  <2> QED BY <1>1, <1>3, <2>1, <2>2, <2>3 DEF Counts
<1> QED BY <1>1, <1>2, <1>4, CountsStay DEF CountInv

\* A step among the batches counts nothing any more.
LEMMA BatchCounts ==
  ASSUME CountInv, UNCHANGED <<inputs, batchSize, counts>>,
         pc \in {"batch", "write"}, pc' \in {"batch", "write"}
  PROVE  CountInv'
<1>1. DoBp' = DoBp /\ Ready' = Ready /\ BpSamples' = BpSamples
  BY CountsStay
<1>2. ASSUME DoBp PROVE counts' = Counts(BpSamples)'
  <2>1. PICK m : m = BpSamples
    OBVIOUS
  <2>2. Counts(m)' = Counts(m)
    BY SameCounts
  <2> QED BY <1>1, <1>2, <2>1, <2>2 DEF CountInv, Counts
<1> QED BY <1>1, <1>2 DEF CountInv

LEMMA OtherCounts ==
  ASSUME CountInv, UNCHANGED inputs, pc' \notin {"bandpass", "batch", "write"},
         pc' \in {"parse", "setup", "down"} => chunk' = 0
  PROVE  CountInv'
BY DEF CountInv

LEMMA StutterCounts == ASSUME CountInv, UNCHANGED vars PROVE CountInv'
<1>1. UNCHANGED <<inputs, pc, batchSize, chunk, counts>>
  BY DEF vars, work
<1>2. \A m : Counts(m)' = Counts(m)
  BY <1>1, SameCounts
<1>3. /\ Ready' = Ready /\ DoBp' = DoBp /\ BpSamples' = BpSamples
      /\ ChunkLen' = ChunkLen /\ NumChunks' = NumChunks
  BY <1>1, CountsStay
<1>4. Counts(BpSamples)' = Counts(BpSamples)
  <2>1. PICK m : m = BpSamples
    OBVIOUS
  <2>2. Counts(m)' = Counts(m)
    BY <1>2
  <2> QED BY <1>3, <2>1, <2>2 DEF Counts
<1>5. Counts(First(chunk, ChunkLen))' = Counts(First(chunk, ChunkLen))
  <2>1. PICK m : m = First(chunk, ChunkLen)
    OBVIOUS
  <2>2. First(chunk, ChunkLen)' = m
    BY <1>1, <1>3, <2>1 DEF First
  <2>3. Counts(m)' = Counts(m)
    BY <1>2
  <2> QED BY <2>1, <2>2, <2>3 DEF Counts
<1> QED BY <1>1, <1>3, <1>4, <1>5 DEF CountInv

LEMMA StepCounts == ASSUME BatchInv, BatchInv', CountInv, [Next]_vars PROVE CountInv'
<1>1. CASE Process
  <2>1. CASE SetupThrows \/ SetupDies \/ BandpassDies \/ BatchDies \/ Publish \/ CloseOutput
    BY <2>1, OtherCounts DEF SetupThrows, SetupDies, BandpassDies, BatchDies, Publish,
      CloseOutput
  <2>2. CASE ProcessBatch \/ WriteSample \/ NextBatch
    BY <2>2, BatchCounts DEF ProcessBatch, WriteSample, NextBatch
  <2> QED BY <1>1, <2>1, <2>2, CreateCounts, ChunkCounts, KillCounts DEF Process
<1>2. CASE ModifyHeader \/ WriteFails
  BY <1>2, OtherCounts DEF ModifyHeader, EditInPlace, StartCopy, CopyChunk, PublishCopy,
    CloseEdited, WriteFails
<1>3. CASE Parse
  <2>1. UNCHANGED <<inputs, work>> /\ pc = "parse" /\ pc' \in {"done", "failed", "setup", "edit"}
    BY <1>3 DEF Parse
  <2> QED BY <2>1, OtherCounts DEF work, CountInv
<1>4. CASE Kill \/ PowerFailure
  BY <1>4, OtherCounts DEF Kill, PowerFailure, Failing, Idle
<1>5. CASE Rerun
  BY <1>5, OtherCounts DEF Rerun, work, CountInv
<1> QED BY <1>1, <1>2, <1>3, <1>4, <1>5, StutterCounts DEF Next

LEMMA CountInvCounts == ASSUME CountInv PROVE CountedOnce
<1> SUFFICES ASSUME DoBp,
                    pc \in {"batch", "write"} \/ (pc = "bandpass" /\ ChunkLen > 0 /\ chunk = NumChunks),
                    NEW c \in Channels, NEW n \in DOMAIN counts[c]
             PROVE  counts[c][n] =
                      IF n < BpSamples /\ ~MaskKills(c)
                         /\ ~(Masked /\ \E d \in job.mask.perInt[n \div job.mask.size] : SameChannel(d, c))
                      THEN 1 ELSE 0
  BY DEF CountedOnce
<1>1. Ready /\ counts = Counts(BpSamples)
  BY ChunksCover DEF CountInv
<1>2. n \in 0..(inp.nsamples - 1)
      /\ counts[c][n] = IF n < BpSamples /\ Counted(c, n) THEN 1 ELSE 0
  BY <1>1 DEF Counts
<1> QED BY <1>1, <1>2, CountedIsLeft

LEMMA CountHolds == Spec => []CountInv
<1>1. Init => CountInv
  BY DEF Init, CountInv
<1>2. BatchInv /\ CountInv /\ [Next]_vars => BatchInv' /\ CountInv'
  BY NextBatchInv, StepCounts
<1> QED BY <1>1, <1>2, InitBatch, PTL DEF Spec

\* However the measured samples are cut into chunks and whatever the mask: when
\* the bandpass is used, each of the first samples that the mask leaves has been
\* counted once in its channel, and no other.
THEOREM AlwaysCountedOnce == Spec => []CountedOnce
<1> QED BY CountHolds, CountInvCounts, PTL

-----------------------------------------------------------------------------
(* The type invariant.                                                     *)

\* What a power failure may fall back on is typed, too.
TypedFile(file) ==
  /\ \A o \in DOMAIN file.mem.data : IsValue(file.mem.data[o])
  /\ \A o \in DOMAIN file.disk.data : IsValue(file.disk.data[o])
  /\ DOMAIN file.mem.data = DOMAIN file.disk.data
  /\ \A hdr \in {file.mem.hdr, file.disk.hdr} :
       hdr # Hole => DOMAIN file.mem.data = Positions(hdr)
Absent(file) == file = NoFile \/ TypedFile(file)

LEMMA TypedStays ==
  ASSUME UNCHANGED inputs, NEW file
  PROVE  /\ TypedFile(file)' = TypedFile(file)
         /\ Absent(file)' = Absent(file)
         /\ \A v : IsValue(v)' = IsValue(v)
<1>1. Samples' = Samples
  BY DEF inputs, Samples, SampleAt, Positions
<1>2. \A v : IsValue(v)' = IsValue(v)
  BY <1>1 DEF IsValue
<1>3. TypedFile(file)' = TypedFile(file)
  BY <1>2 DEF TypedFile
<1> QED BY <1>2, <1>3 DEF Absent

LEMMA FsyncTyped ==
  ASSUME NEW file, TypedFile(file), IsFileOf(file)
  PROVE  TypedFile(Fsync(file))
<1>1. Fsync(file).mem = file.mem /\ Fsync(file).disk = file.mem
  BY DEF Fsync, IsFileOf
<1> QED BY <1>1 DEF TypedFile

LEMMA NewTyped == ASSUME NEW hdr PROVE TypedFile(NewFile(hdr))
<1>1. /\ NewFile(hdr).mem.hdr = hdr /\ NewFile(hdr).disk.hdr = Hole
      /\ NewFile(hdr).mem.data = [o \in Positions(hdr) |-> Hole]
      /\ NewFile(hdr).disk.data = [o \in Positions(hdr) |-> Hole]
  BY DEF NewFile
<1>2. IsValue(Hole)
  BY DEF IsValue
<1> QED BY <1>1, <1>2 DEF TypedFile

LEMMA SurvivingTyped ==
  ASSUME NEW file, Absent(file), NEW lost, NEW header \in BOOLEAN
  PROVE  /\ Absent(Surviving(file, lost, header))
         /\ TypedFile(file) => TypedFile(Surviving(file, lost, header))
<1>1. CASE file = NoFile
  BY <1>1 DEF Surviving, Absent
<1>2. CASE file # NoFile
  <2> DEFINE hdr  == IF header THEN file.mem.hdr ELSE file.disk.hdr
             data == [o \in DOMAIN file.mem.data |->
                        IF o \in lost THEN file.disk.data[o] ELSE file.mem.data[o]]
             g == Surviving(file, lost, header)
  <2>1. g.mem.hdr = hdr /\ g.mem.data = data /\ g.disk.hdr = hdr /\ g.disk.data = data
    BY <1>2 DEF Surviving
  <2>2. TypedFile(file)
    BY <1>2 DEF Absent
  <2>3. DOMAIN data = DOMAIN file.mem.data /\ DOMAIN file.mem.data = DOMAIN file.disk.data
    BY <2>2 DEF TypedFile
  <2>4. \A o \in DOMAIN data : IsValue(data[o])
    BY <2>2, <2>3 DEF TypedFile
  <2>5. hdr # Hole => DOMAIN data = Positions(hdr)
    BY <2>2, <2>3 DEF TypedFile
  <2> HIDE DEF g, hdr, data
  <2>6. TypedFile(g)
    BY <2>1, <2>4, <2>5 DEF TypedFile
  <2> QED BY <2>6 DEF g, Absent
<1> QED BY <1>1, <1>2

LEMMA InputFileTyped == TypedFile(InputFile)
<1>1. \A o \in Positions(inp) : IsValue(Value({SampleAt(inp, o)}, {}))
  BY DEF IsValue, Value, Samples
<1>2. \A o \in Positions(inp) : IsValue(InputFile.mem.data[o])
  BY <1>1, InputFileShape
<1>3. DOMAIN InputFile.mem.data = Positions(inp)
  BY InputFileShape
<1>4. Positions(InputHeader) = Positions(inp)
  <2>1. InputHeader.nifs = inp.nifs /\ InputHeader.nchans = inp.nchans
        /\ InputHeader.nsamples = inp.nsamples
    BY DEF InputHeader, InputFile
  <2> QED BY <2>1 DEF Positions
<1> QED BY <1>2, <1>3, <1>4, InputFileShape DEF TypedFile

\* A row is made of samples of the file.
LEMMA RowValues ==
  ASSUME Ready, NEW i \in IFs, NEW c \in Channels, NEW n \in OutTimes
  PROVE  IsValue(Row(i, c)[n])
<1>1. IsValue(Zero)
  BY DEF IsValue
<1>2. ASSUME NEW m \in OutTimes PROVE IsValue(RowBefore(i, c)[m])
  <2>1. SamplesOf(m, i, c) \subseteq Samples
    <3>1. ASSUME NEW k \in 0..(job.avg - 1)
          PROVE  <<m * job.avg + k, i, c>> \in Samples
      <4>1. PICK x : x = m * job.avg + k
        OBVIOUS
      <4>2. x \in 0..(inp.nsamples - 1) /\ HeaderShape(inp) /\ x \in Nat
        BY <4>1, SamplesInside, ReadyTypes DEF HeaderShape
      <4>3. i \in 0..(inp.nifs - 1) /\ c \in 0..(inp.nchans - 1)
        BY DEF IFs, Channels
      <4>4. Offset(inp, x, i, c) \in Positions(inp)
            /\ SampleAt(inp, Offset(inp, x, i, c)) = <<x, i, c>>
        BY <4>2, <4>3, OffsetInside, SampleAtOffset
      <4> QED BY <4>1, <4>4 DEF Samples
    <3> QED BY <3>1 DEF SamplesOf
  <2>2. IsValue(Value(SamplesOf(m, i, c), Bp \cup Base))
    BY <2>1 DEF IsValue, Value, Bp, Base
  <2>3. RowBefore(i, c)[m] \in {Zero, Value(SamplesOf(m, i, c), Bp \cup Base)}
    <3> DEFINE row == WithoutBaseline(IF c \in kill /\ (DoBp \/ DoAvg) THEN ZeroRow
                                      ELSE Averaged(i, c))
    <3>1. row[m] \in {Zero, Value(SamplesOf(m, i, c), Bp \cup Base)}
      BY BaselineRight DEF IFs
    <3>2. RowBefore(i, c)[m] \in {Zero, row[m]}
      BY DEF RowBefore, WithoutRFI
    <3> QED BY <3>1, <3>2
  <2> QED BY <1>1, <2>2, <2>3
<1>3. CASE ~Correcting
  BY <1>2, <1>3 DEF Row, RowBefore, Corrected
<1>4. CASE Correcting
  <2> DEFINE m == n + job.drop
  <2>1. Row(i, c)[n] = IF m < OutN THEN RowBefore(i, c)[m] ELSE Zero
    BY <1>4 DEF Row, RowBefore, Corrected
  <2>2. m < OutN => m \in OutTimes
    BY ReadyTypes DEF OutTimes
  <2> QED BY <1>1, <1>2, <2>1, <2>2
<1> QED BY <1>3, <1>4

\* The tables of a mask name channels of its file.  rfifind sees to that, the
\* class does not look.
MasksName ==
  \A j \in Jobs : j.mask # NoMask => j.mask.chans \subseteq 0..(j.mask.nchans - 1)

Scalars ==
  /\ inp \in Inputs /\ job \in Jobs /\ buffer \in Buffers
  /\ failure \in Failures
  /\ pc \in Final \cup {"parse", "setup", "bandpass", "batch", "write", "close",
                        "edit", "copy", "closeEdited", "down"}
  /\ batchSize \in 0..inp.nchans /\ b \in 0..inp.nchans /\ f \in 0..inp.nifs
  /\ kill \subseteq Channels /\ chunk \in 0..inp.nsamples
  /\ t \in 0..inp.nsamples /\ copied \in 0..DataSize
  /\ crashes \in 0..MaxCrashes

\* Where the code holds a file open, or edits one, it is there.
TypedFiles ==
  /\ Absent(tmp) /\ Absent(out)
  /\ pc \in {"bandpass", "batch", "write", "copy"} => TypedFile(tmp)
  /\ pc \in {"close", "closeEdited"} \/ (pc = "edit" /\ DoProcessing) => TypedFile(out)
  /\ job.oneFile => TypedFile(out)

LEMMA DataSizeNat == ASSUME inp \in Inputs PROVE DataSize \in Nat
<1>1. inp.nsamples * inp.nifs \in Nat /\ inp.nchans \in Nat
  BY InputTyped, MulPositive DEF HeaderShape
<1> QED BY <1>1, MulPositive DEF DataSize

LEMMA KillsNamed ==
  ASSUME MasksName, Ready, Masked PROVE ZappedChannels(job.mask) \subseteq Channels
<1>1. inp.nchans \in Nat /\ job.mask.nchans = inp.nchans
  BY ReadyTypes, MaskShape DEF HeaderShape
<1>2. job.mask.chans \subseteq 0..(inp.nchans - 1)
  BY <1>1 DEF MasksName, Ready, Masked
<1>3. ASSUME NEW d \in job.mask.chans PROVE Channel(job.mask, d) \in 0..(inp.nchans - 1)
  BY <1>1, <1>2 DEF Channel
<1> QED BY <1>3 DEF ZappedChannels, Channels

\* A step that moves on and counts nothing.
LEMMA ScalarsStay ==
  ASSUME Scalars, UNCHANGED <<inputs, work, crashes>>,
         pc' \in Final \cup {"parse", "setup", "bandpass", "batch", "write", "close",
                             "edit", "copy", "closeEdited", "down"}
  PROVE  Scalars'
BY SameInputs DEF Scalars, inputs, work, Final

LEMMA StepScalars ==
  ASSUME MasksName, Scalars, OutInv, BatchInv, CountInv, [Next]_vars
  PROVE  Scalars'
<1>1. /\ inp.nchans \in Nat \ {0} /\ inp.nifs \in Nat \ {0} /\ inp.nsamples \in Nat
      /\ DataSize \in Nat
  BY InputTyped, DataSizeNat DEF HeaderShape, OutInv, Common
<1>2. ASSUME UNCHANGED inputs
      PROVE  /\ inp' = inp /\ job' = job /\ buffer' = buffer /\ failure' = failure
             /\ Channels' = Channels /\ DataSize' = DataSize
  BY <1>2, SameInputs DEF inputs
<1>3. CASE SetupThrows \/ SetupDies \/ BandpassDies \/ BatchDies \/ Publish \/ CloseOutput
           \/ EditInPlace \/ PublishCopy \/ CloseEdited \/ WriteFails \/ Parse \/ Rerun
  <2>1. /\ UNCHANGED <<inputs, work, crashes>>
        /\ pc' \in {"failed", "sigfpe", "sigsegv", "close", "edit", "done",
                    "closeEdited", "setup", "parse"}
    BY <1>3 DEF SetupThrows, SetupDies, BandpassDies, BatchDies, Publish, CloseOutput,
      EditInPlace, PublishCopy, CloseEdited, WriteFails, Parse, Rerun
  <2> QED BY <2>1, ScalarsStay DEF Final
<1>4. CASE Create
  <2>1. ~Refused /\ ~TooSmall
        /\ batchSize' = BatchSize(buffer, FloatsPerChannel, inp.nchans)
    BY <1>4 DEF Create
  <2>2. batchSize' \in 0..inp.nchans
    <3>1. batchSize' \in 1..inp.nchans
      BY <2>1, BatchSizeFits
    <3> QED BY <1>1, <3>1
  <2>3. kill' \subseteq Channels
    <3>1. Ready
      BY <2>1 DEF Ready, BatchInv
    <3> QED BY <1>4, <3>1, KillsNamed DEF Create
  <2> QED BY <1>2, <1>4, <2>2, <2>3 DEF Create, Scalars
<1>5. CASE MeasureChunk
  <2>1. /\ chunk \in Nat /\ ChunkLen \in Nat \ {0} /\ BpSamples \in Nat \ {0}
        /\ DoBp /\ Ready /\ chunk < NumChunks /\ ~TooSmall /\ chunk' = chunk + 1
    BY <1>5 DEF MeasureChunk, CountInv, BatchInv
  <2>2. NumChunks \in Nat /\ NumChunks <= BpSamples /\ BpSamples <= inp.nsamples
    BY <2>1, CeilCovers, BpTypes DEF NumChunks, NumPieces
  <2>3. chunk' \in 0..inp.nsamples
    BY <1>1, <2>1, <2>2
  <2> QED BY <1>2, <1>5, <2>3 DEF MeasureChunk, Scalars
<1>6. CASE KillChannels
  <2>1. kill' \subseteq Channels
    BY <1>6 DEF KillChannels, Scalars
  <2> QED BY <1>2, <1>6, <2>1 DEF KillChannels, Scalars
<1>7. CASE ProcessBatch
  BY <1>1, <1>2, <1>7 DEF ProcessBatch, Scalars
<1>8. CASE WriteSample
  <2>1. t' \in 0..inp.nsamples
    <3>1. t < OutN /\ t' = t + 1 /\ Ready
      BY <1>8, BatchTypes DEF WriteSample
    <3> QED BY <1>1, <3>1, ReadyTypes DEF Scalars
  <2> QED BY <1>2, <1>8, <2>1 DEF WriteSample, Scalars
<1>9. CASE NextBatch
  <2>1. /\ NumBatches \in Nat \ {0} /\ NumBatches <= inp.nchans
        /\ b \in 0..(NumBatches - 1) /\ f \in 0..inp.nifs /\ f < inp.nifs
    <3>1. pc = "write"
      BY <1>9 DEF NextBatch
    <3>2. batchSize \in Nat \ {0} /\ Progress /\ NumBatches \in Nat \ {0}
      BY <3>1, BatchTypes
    <3> QED BY <1>1, <3>1, <3>2, CeilCovers DEF Progress, InBatch, NumBatches, NumPieces
  <2>2. b' \in 0..inp.nchans /\ f' \in 0..inp.nifs
    BY <1>1, <1>9, <2>1 DEF NextBatch
  <2> QED BY <1>1, <1>2, <1>9, <2>2 DEF NextBatch, Scalars
<1>10. CASE StartCopy
  BY <1>1, <1>2, <1>10 DEF StartCopy, Scalars
<1>11. CASE CopyChunk
  <2>1. copied' \in 0..DataSize
    BY <1>1, <1>11, PrepfilAssumption DEF CopyChunk, Scalars, LesserOf
  <2> QED BY <1>2, <1>11, <2>1 DEF CopyChunk, Scalars
<1>12. CASE Kill \/ PowerFailure
  <2>1. UNCHANGED inputs /\ Idle /\ pc' = "down" /\ crashes < MaxCrashes /\ crashes' = crashes + 1
    BY <1>12 DEF Kill, PowerFailure, Failing
  <2>2. crashes' \in 0..MaxCrashes
    BY <2>1, PrepfilAssumption DEF Scalars
  <2> QED BY <1>1, <1>2, <2>1, <2>2 DEF Idle, Scalars
<1>13. CASE UNCHANGED vars
  BY <1>13, ScalarsStay DEF vars, Scalars
<1> QED BY <1>3, <1>4, <1>5, <1>6, <1>7, <1>8, <1>9, <1>10, <1>11, <1>12, <1>13
  DEF Next, Process, ModifyHeader

LEMMA FilesAre ==
  ASSUME UNCHANGED inputs, NEW x, NEW y, tmp' = x, out' = y, Absent(x), Absent(y),
         pc' \in {"bandpass", "batch", "write", "copy"} => TypedFile(x),
         pc' \in {"close", "closeEdited"} \/ (pc' = "edit" /\ DoProcessing) => TypedFile(y),
         job.oneFile => TypedFile(y)
  PROVE  TypedFiles'
<1>1. /\ Absent(x)' = Absent(x) /\ Absent(y)' = Absent(y)
      /\ TypedFile(x)' = TypedFile(x) /\ TypedFile(y)' = TypedFile(y)
      /\ job' = job /\ DoProcessing' = DoProcessing
  BY TypedStays, SameInputs
<1>2. /\ Absent(tmp)' = Absent(x)' /\ TypedFile(tmp)' = TypedFile(x)'
      /\ Absent(out)' = Absent(y)' /\ TypedFile(out)' = TypedFile(y)'
  BY DEF Absent, TypedFile
<1> QED BY <1>1, <1>2 DEF TypedFiles

LEMMA SameFiles ==
  ASSUME TypedFiles, UNCHANGED <<inputs, tmp, out>>,
         pc' \in {"bandpass", "batch", "write", "copy"} => TypedFile(tmp),
         pc' \in {"close", "closeEdited"} \/ (pc' = "edit" /\ DoProcessing) => TypedFile(out)
  PROVE  TypedFiles'
<1>1. PICK x : x = tmp
  OBVIOUS
<1>2. PICK y : y = out
  OBVIOUS
<1> QED BY <1>1, <1>2, FilesAre DEF TypedFiles

LEMMA WriteTyped ==
  ASSUME OutInv, BatchInv, TypedFiles, WriteSample PROVE TypedFile(tmp')
<1> DEFINE P == Piece(inp.nchans, b, batchSize)
           D == tmp.mem.data
<1>1. /\ pc = "write" /\ t < OutN /\ Progress /\ Ready /\ Fresh /\ InBatch
      /\ TypedFile(tmp)
  BY BatchTypes DEF WriteSample, Progress, TypedFiles
<1>2. f \in IFs /\ t \in OutTimes
  BY <1>1, ReadyTypes DEF Progress, InBatch, IFs, OutTimes, HeaderShape
<1>3. P \subseteq Channels
  BY <1>1, BatchTypes, PiecesPartition DEF Progress, NumBatches, Channels
<1>4. buf = [c \in P |-> Row(f, c)] /\ DOMAIN buf = P
  BY <1>1 DEF InBatch
<1>5. /\ tmp'.mem.data = [o \in DOMAIN D |->
           IF \E c \in P : o = Offset(inp, t, f, c)
           THEN buf[CHOOSE c \in P : o = Offset(inp, t, f, c)][t] ELSE D[o]]
      /\ tmp'.mem.hdr = tmp.mem.hdr /\ tmp'.disk = tmp.disk
  BY <1>1, <1>4 DEF WriteSample, Fresh, IsFileOf
<1> HIDE DEF P
<1>6. \A c \in P : IsValue(buf[c][t])
  BY <1>1, <1>2, <1>3, <1>4, RowValues
<1>7. \A o \in DOMAIN D : (\E c \in P : o = Offset(inp, t, f, c)) =>
        (CHOOSE c \in P : o = Offset(inp, t, f, c)) \in P
  OBVIOUS
<1>8. \A o \in DOMAIN D : IsValue(tmp'.mem.data[o])
  BY <1>1, <1>5, <1>6, <1>7 DEF TypedFile
<1>9. DOMAIN tmp'.mem.data = DOMAIN D
  BY <1>5
<1> QED BY <1>1, <1>5, <1>8, <1>9 DEF TypedFile

LEMMA CopyTyped == ASSUME OutInv, TypedFiles, CopyChunk PROVE TypedFile(tmp')
<1> DEFINE now == LesserOf(copied + CopyCells, DataSize)
<1>1. pc = "copy" /\ Copying /\ TypedFile(tmp)
  BY DEF CopyChunk, OutInv, Files, TypedFiles
<1>2. /\ tmp'.mem.data = [o \in DOMAIN tmp.mem.data |->
           IF o \in copied..(now - 1) THEN InputFile.mem.data[o] ELSE tmp.mem.data[o]]
      /\ tmp'.mem.hdr = tmp.mem.hdr /\ tmp'.disk = tmp.disk
  BY <1>1 DEF CopyChunk, Copying, IsFileOf
<1> HIDE DEF now
<1>3. DOMAIN InputFile.mem.data = Positions(inp) /\ DOMAIN tmp.mem.data = Positions(inp)
  BY <1>1, InputFileShape DEF Copying
<1>4. \A o \in Positions(inp) : IsValue(InputFile.mem.data[o]) /\ IsValue(tmp.mem.data[o])
  BY <1>1, <1>3, InputFileTyped DEF TypedFile
<1>5. DOMAIN tmp'.mem.data = Positions(inp)
  BY <1>2, <1>3
<1>6. \A o \in Positions(inp) : IsValue(tmp'.mem.data[o])
  BY <1>2, <1>3, <1>4
<1> QED BY <1>1, <1>2, <1>3, <1>5, <1>6 DEF TypedFile

\* An edited header speaks of as many values as before.
LEMMA EditTyped ==
  ASSUME OutInv, TypedFiles, EditInPlace, out.mem.hdr.padded PROVE TypedFile(out')
<1>1. /\ pc = "edit" /\ InPlace /\ inp \in Inputs /\ job \in Jobs
      /\ out' = EditedFile(out, TRUE)
  BY DEF EditInPlace, EditedFile, OutInv, Common
<1>2. TypedFile(out) /\ IsFileOf(out)
  BY <1>1 DEF TypedFiles, InPlace, OutInv, Files, Common, Result, InputKept
<1>3. /\ out'.mem.hdr = Edited(out.mem.hdr, TRUE) /\ out'.mem.data = out.mem.data
      /\ out'.disk = out.disk
  BY <1>1, <1>2, EditedFileIs
<1>4. \E n, y, p, e : out.mem.hdr = Hdr(inp.nifs, inp.nchans, n, y, p, e)
  <2>1. CASE DoProcessing
    <3>1. out.mem.hdr = [OutHeader EXCEPT !.edited = FALSE]
      BY <1>1, <2>1 DEF OutInv, Files, Result
    <3>2. PICK F : F = FALSE
      OBVIOUS
    <3>3. PICK T : T = TRUE
      OBVIOUS
    <3>4. out.mem.hdr = Hdr(inp.nifs, inp.nchans, OutHeader.nsamples,
                            OutHeader.barycentric, T, F)
      BY <3>1, <3>2, <3>3, OutHeaderFields, Zenon
    <3> QED BY <3>4, Zenon
  <2>2. CASE ~DoProcessing
    <3>1. out.mem.hdr \in {InputHeader, [InputHeader EXCEPT !.edited = TRUE]}
      BY <1>1, <2>2 DEF InPlace, OutInv, Common, InputKept
    <3>2. PICK F : F = FALSE
      OBVIOUS
    <3>3. PICK T : T = TRUE
      OBVIOUS
    <3> DEFINE g(e) == Hdr(inp.nifs, inp.nchans, inp.nsamples, inp.barycentric,
                           inp.padded, e)
    <3>4. InputHeader = g(F) /\ [InputHeader EXCEPT !.edited = TRUE] = g(T)
      BY <3>2, <3>3, InputHeaderFields, Zenon
    <3>5. out.mem.hdr = g(F) \/ out.mem.hdr = g(T)
      BY <3>1, <3>4, Zenon
    <3> QED BY <3>5, Zenon
  <2> QED BY <2>1, <2>2
<1>5. PICK n, y, p, e : out.mem.hdr = Hdr(inp.nifs, inp.nchans, n, y, p, e)
  BY <1>4
<1>6. PICK T : T = TRUE
  OBVIOUS
<1>7. Edited(Hdr(inp.nifs, inp.nchans, n, y, p, e), T) = Hdr(inp.nifs, inp.nchans, n, y, p, T)
  BY EditedHeader
<1>8. out'.mem.hdr = Hdr(inp.nifs, inp.nchans, n, y, p, T)
  BY <1>3, <1>5, <1>6, <1>7, Zenon
<1>9. Positions(Hdr(inp.nifs, inp.nchans, n, y, p, e))
        = Positions(Hdr(inp.nifs, inp.nchans, n, y, p, T))
  BY DEF Positions, Hdr
<1>10. Positions(out'.mem.hdr) = Positions(out.mem.hdr)
  BY <1>5, <1>8, <1>9, Zenon
<1>11. out.mem.hdr # Hole
  <2>1. CASE DoProcessing
    BY <1>1, <2>1 DEF OutInv, Files, Result, WholeFile
  <2>2. CASE ~DoProcessing
    BY <1>1, <2>2, KeptIsWhole DEF InPlace, OutInv, Common, WholeFile
  <2> QED BY <2>1, <2>2
<1>12. DOMAIN out.mem.data = Positions(out.mem.hdr)
  BY <1>2, <1>11 DEF TypedFile
<1> QED BY <1>2, <1>3, <1>10, <1>12 DEF TypedFile

LEMMA StepFiles ==
  ASSUME TypedFiles, OutInv, BatchInv, [Next]_vars PROVE TypedFiles'
<1>1. PICK x : x = tmp'
  OBVIOUS
<1>2. PICK y : y = out'
  OBVIOUS
<1>3. CASE SetupThrows \/ SetupDies \/ BandpassDies \/ BatchDies \/ MeasureChunk
           \/ KillChannels \/ ProcessBatch \/ NextBatch
  <2>1. /\ UNCHANGED <<inputs, tmp, out>>
        /\ \/ pc' \in {"failed", "sigfpe", "sigsegv"}
           \/ pc \in {"bandpass", "batch", "write"} /\ pc' \in {"bandpass", "batch", "write"}
    BY <1>3 DEF SetupThrows, SetupDies, BandpassDies, BatchDies, MeasureChunk,
      KillChannels, ProcessBatch, NextBatch
  <2> QED BY <2>1, SameFiles DEF TypedFiles
<1>4. CASE Parse \/ Kill \/ Rerun
  <2>1. UNCHANGED <<inputs, tmp, out>> /\ pc' \in {"failed", "done", "setup", "edit", "parse", "down"}
        /\ (pc' = "edit" => ~DoProcessing)
    BY <1>4 DEF Parse, Kill, Rerun, Failing
  <2> QED BY <2>1, SameFiles
<1>5. CASE Create
  <2>1. UNCHANGED <<inputs, out>> /\ tmp' = NewFile(OutHeader)
        /\ pc' \in {"bandpass", "batch"}
    BY <1>5 DEF Create
  <2>2. TypedFile(x)
    BY <1>1, <2>1, NewTyped
  <2> QED BY <1>1, <1>2, <2>1, <2>2, FilesAre DEF TypedFiles, Absent
<1>6. CASE WriteSample
  <2>1. UNCHANGED <<inputs, out>> /\ pc' = "write"
    BY <1>6 DEF WriteSample
  <2>2. TypedFile(x)
    BY <1>1, <1>6, WriteTyped
  <2> QED BY <1>1, <1>2, <2>1, <2>2, FilesAre DEF TypedFiles, Absent
<1>7. CASE Publish \/ PublishCopy
  <2>1. UNCHANGED inputs /\ out' = tmp /\ tmp' = NoFile /\ pc \in {"batch", "copy"}
        /\ pc' \in {"close", "closeEdited"}
    BY <1>7 DEF Publish, PublishCopy, Rename
  <2>2. TypedFile(y) /\ Absent(x)
    BY <1>1, <1>2, <2>1 DEF TypedFiles, Absent
  <2> QED BY <1>1, <1>2, <2>1, <2>2, FilesAre DEF Absent
<1>8. CASE CloseOutput \/ CloseEdited
  <2>1. UNCHANGED <<inputs, tmp>> /\ out' = Fsync(out) /\ pc \in {"close", "closeEdited"}
        /\ pc' \in {"edit", "done"}
    BY <1>8 DEF CloseOutput, CloseEdited
  <2>2. TypedFile(out) /\ IsFileOf(out)
    BY <2>1 DEF TypedFiles, OutInv, Files, Result
  <2>3. TypedFile(y)
    BY <1>2, <2>1, <2>2, FsyncTyped
  <2> QED BY <1>1, <1>2, <2>1, <2>3, FilesAre DEF TypedFiles, Absent
<1>9. CASE EditInPlace
  <2>1. CASE out.mem.hdr.padded
    <3>1. UNCHANGED <<inputs, tmp>> /\ pc' = "closeEdited" /\ TypedFile(y)
      BY <1>2, <1>9, <2>1, EditTyped DEF EditInPlace
    <3> QED BY <1>1, <1>2, <3>1, FilesAre DEF TypedFiles, Absent
  <2>2. CASE ~out.mem.hdr.padded
    BY <1>9, <2>2, SameFiles DEF EditInPlace
  <2> QED BY <2>1, <2>2
<1>10. CASE StartCopy
  <2>1. PICK h : tmp' = NewFile(h)
    BY <1>10 DEF StartCopy
  <2>2. UNCHANGED <<inputs, out>> /\ pc' = "copy" /\ TypedFile(x)
    BY <1>1, <1>10, <2>1, NewTyped DEF StartCopy
  <2> QED BY <1>1, <1>2, <2>2, FilesAre DEF TypedFiles, Absent
<1>11. CASE CopyChunk
  <2>1. UNCHANGED <<inputs, out>> /\ pc' = "copy" /\ TypedFile(x)
    BY <1>1, <1>11, CopyTyped DEF CopyChunk, OutInv, Control
  <2> QED BY <1>1, <1>2, <2>1, FilesAre DEF TypedFiles, Absent
<1>12. CASE WriteFails
  <2>1. UNCHANGED <<inputs, out>> /\ tmp' \in {tmp, Fsync(tmp)} /\ pc \in {"write", "copy"}
        /\ pc' = "failed"
    BY <1>12 DEF WriteFails
  <2>2. TypedFile(tmp) /\ IsFileOf(tmp)
    BY <2>1 DEF TypedFiles, OutInv, Files, Progress, Fresh, Copying
  <2>3. TypedFile(x)
    BY <1>1, <2>1, <2>2, FsyncTyped
  <2> QED BY <1>1, <1>2, <2>1, <2>3, FilesAre DEF TypedFiles, Absent
<1>13. CASE PowerFailure
  <2>1. PICK lost \in Losses, header \in BOOLEAN :
          tmp' = Surviving(tmp, lost, header) /\ out' = Surviving(out, lost, header)
    BY <1>13 DEF PowerFailure
  <2>2. UNCHANGED inputs /\ pc' = "down"
    BY <1>13 DEF PowerFailure, Failing
  <2>3. Absent(x) /\ Absent(y) /\ (TypedFile(out) => TypedFile(y))
    BY <1>1, <1>2, <2>1, SurvivingTyped DEF TypedFiles
  <2> QED BY <1>1, <1>2, <2>2, <2>3, FilesAre DEF TypedFiles
<1>14. CASE UNCHANGED vars
  BY <1>14, SameFiles DEF vars, TypedFiles
<1> QED BY <1>3, <1>4, <1>5, <1>6, <1>7, <1>8, <1>9, <1>10, <1>11, <1>12, <1>13, <1>14
  DEF Next, Process, ModifyHeader

\* Whatever files, command lines and memory, and wherever it is killed or fails,
\* prepfil's variables and files stay within their types, if the masks name
\* channels of their files.
THEOREM TypeCorrect == ASSUME MasksName PROVE Spec => []TypeOK
<1>1. Init => Scalars /\ TypedFiles
  <2> SUFFICES ASSUME Init PROVE Scalars /\ TypedFiles
    OBVIOUS
  <2>1. /\ inp \in Inputs /\ pc = "parse" /\ tmp = NoFile
        /\ out = IF job.oneFile THEN InputFile ELSE NoFile
    BY DEF Init
  <2>2. inp.nchans \in Nat /\ inp.nifs \in Nat /\ inp.nsamples \in Nat /\ DataSize \in Nat
    BY <2>1, InputTyped, DataSizeNat DEF HeaderShape
  <2>3. Scalars
    BY <2>2, PrepfilAssumption DEF Init, Scalars
  <2>4. TypedFiles
    BY <2>1, InputFileTyped DEF TypedFiles, Absent
  <2> QED BY <2>3, <2>4
<1>2. Scalars /\ TypedFiles /\ OutInv /\ BatchInv /\ CountInv /\ [Next]_vars
        => Scalars' /\ TypedFiles'
  BY StepScalars, StepFiles
<1>3. Scalars /\ TypedFiles => TypeOK
  BY DEF Scalars, TypedFiles, Absent, TypedFile, IsFile, TypeOK
<1> QED BY <1>1, <1>2, <1>3, OutHolds, BatchHolds, CountHolds, PTL DEF Spec
=============================================================================
