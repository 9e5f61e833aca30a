------------------------- MODULE GpuBaseline_proofs -------------------------
(***************************************************************************)
(* The GPU does what Baseline promises, for files of any shape, batches of   *)
(* any size and any number of streams, in whatever order they run.          *)
(*                                                                         *)
(* A stream goes through a script of six operations: three on a channel     *)
(* whose sum the host has, three on the one it waits for.  The invariant    *)
(* says how far each stream is and what is in its buffer at that point      *)
(* (At), and that each channel handed out is filtered or in the script of   *)
(* one stream (Pipe).                                                      *)
(***************************************************************************)
EXTENDS GpuBaseline, Batches_proofs

Contents == Signals \cup {Stale, Zeros, Garbage}
Ops      == [op : {"subtract", "filter", "copyBack", "clear", "copyIn", "reduce"},
             chan : Chans, mean : Contents]

Typed ==
  /\ job \in JobArgs /\ fit \in FitArgs /\ call \in Nat
  /\ pc \in {"init", "ready", "submit", "reduce", "sync", "done", "failed"}
  /\ sum \in Contents
  /\ queue \in [Streams -> Seq(Ops)]
  /\ dev \in [Streams -> [signal : Contents, clean : BOOLEAN]]
  /\ data \in [Chans -> Signals]

Working == pc \in {"submit", "reduce", "sync"}

\* Where the host is in its loops.
Place ==
  /\ pc \in {"ready", "submit", "reduce", "sync", "done"} => slots \in 1..MaxStreams
  /\ Working => call # 0
  /\ pc \in {"submit", "reduce"} =>
       i \in 0..(NumStreamBatches - 1) /\ s \in 0..(NumStreams - 1)
  /\ pc = "sync" => s \in 0..(slots - 1)
  /\ pc \in {"init", "ready", "done"} => \A t \in Streams : queue[t] = <<>>

\* Channels handed out to a stream for good.
Pos == IF pc = "sync" THEN NumChannels ELSE ChannelIdx

Form(c, stage) == [call |-> call, chan |-> c, stage |-> stage]
Holds(t, c, stage) == dev[t] = [signal |-> Form(c, stage), clean |-> TRUE]

\* The k-th operation of a script with channel c.
Script(c, k) ==
  IF k = 1 THEN Op("subtract", c, Form(c, "raw"))
  ELSE IF k = 2 THEN Op("filter", c, Zeros)
  ELSE IF k = 3 THEN Op("copyBack", c, Zeros)
  ELSE IF k = 4 THEN Op("clear", ChannelIdx, Zeros)
  ELSE IF k = 5 THEN Op("copyIn", ChannelIdx, Zeros)
  ELSE Op("reduce", ChannelIdx, Zeros)

WaitedFor(t) == pc = "reduce" /\ t = s
LastOp(t)    == IF WaitedFor(t) THEN 6 ELSE 3

\* Stream t, with channel c, has the k-th operation ahead.
At(t, c, k) ==
  /\ k \in 1..(LastOp(t) + 1) /\ Len(queue[t]) = LastOp(t) + 1 - k
  /\ \A j \in 1..Len(queue[t]) : queue[t][j] = Script(c, k + j - 1)
  /\ k <= 3 => t < slots /\ c < Pos /\ data[c] = Form(c, "raw")
  /\ k = 1 => Holds(t, c, "raw")
  /\ k = 2 => Holds(t, c, "centred")
  /\ k = 3 => dev[t].signal = Form(c, "filtered")
  /\ k = 5 => dev[t].clean = TRUE
  /\ k \in {6, 7} => Holds(t, ChannelIdx, "raw")
  /\ k = 7 => sum = Form(ChannelIdx, "raw")

Pipe(cur, at) ==
  /\ \A t \in Streams : At(t, cur[t], at[t])
  /\ \A t, u \in Streams : t # u /\ at[t] <= 3 /\ at[u] <= 3 => cur[t] # cur[u]
  /\ \A c \in Chans : c < Pos =>
       data[c].stage = "filtered" \/ \E t \in Streams : at[t] <= 3 /\ cur[t] = c
  /\ \A c \in Chans : Pos <= c /\ c < NumChannels => data[c] = Form(c, "raw")
  /\ pc = "sync" => \A t \in Streams : t < s => at[t] = 4

Piped == \E cur \in [Streams -> Chans], at \in [Streams -> 1..7] : Pipe(cur, at)

Inv == Typed /\ Place /\ (Working => Piped)

-----------------------------------------------------------------------------
(* Counting.                                                               *)

\* A piece of the work, and that only the last one is short.
LEMMA PieceLength ==
  ASSUME NEW n \in Nat \ {0}, NEW p \in Nat \ {0}, NEW k \in 0..(NumPieces(n, p) - 1)
  PROVE  /\ k * p \in Nat /\ Length(n, k, p) \in 1..p /\ k * p + Length(n, k, p) <= n
         /\ k + 1 < NumPieces(n, p) => Length(n, k, p) = p
         /\ k + 1 = NumPieces(n, p) => k * p + Length(n, k, p) = n
<1> DEFINE m == NumPieces(n, p)
           o == k * p
<1>1. m \in Nat \ {0} /\ n <= p * m /\ p * m <= n + p - 1 /\ p * m \in Nat
  BY CeilCovers, MulPositive DEF NumPieces
<1>2. k \in Nat /\ k + 1 \in Nat /\ k + 1 <= m
  BY <1>1
<1>3. o \in Nat /\ Length(n, k, p) = LesserOf(p, n - o)
  BY <1>2, MulPositive DEF Length, First
<1> HIDE DEF m
<1>4. p * (k + 1) <= p * m /\ p * (k + 1) = o + p
  BY <1>1, <1>2, MulMonotone
<1>5. k + 1 < m => o + p + p <= p * m
  <2> SUFFICES ASSUME k + 1 < m PROVE o + p + p <= p * m
    OBVIOUS
  <2>1. k + 2 \in Nat /\ k + 2 <= m
    BY <1>1, <1>2
  <2>2. p * (k + 2) <= p * m /\ p * (k + 2) = o + p + p
    BY <1>1, <1>2, <2>1, MulMonotone
  <2> QED BY <2>2
<1>6. k + 1 = m => n <= o + p
  BY <1>1, <1>4
<1> HIDE DEF o
<1> QED BY <1>1, <1>3, <1>4, <1>5, <1>6 DEF LesserOf, m, o

LEMMA JobTypes ==
  ASSUME Typed
  PROVE  /\ job.nchans \in 1..NumChans /\ job.hold \in 1..NumChans
         /\ NumChans \in Nat \ {0} /\ MaxStreams \in Nat \ {0}
<1>1. job \in [nchans : 1..NumChans, nifs : Nat \ {0}, hold : 1..NumChans]
  BY GpuBaselineAssumption DEF Typed
<1> QED BY <1>1, GpuBaselineAssumption

\* A call is given at least one channel, and no more than there is room for.
LEMMA ChannelsOfBatch ==
  ASSUME Typed, NEW k \in Nat \ {0}
  PROVE  ChannelsOf(k) \in 1..NumChans
<1>1. job.nchans \in Nat \ {0} /\ job.hold \in Nat \ {0} /\ job.nchans <= NumChans
  BY JobTypes
<1>2. PerBatch \in 1..job.nchans
  <2>1. 1 \in Nat \ {0} /\ 1 <= job.hold
    BY <1>1
  <2>2. BatchSize(job.hold, 1, job.nchans) \in 1..job.nchans
    BY ONLY <1>1, <2>1, BatchFits
  <2> QED BY <2>2 DEF PerBatch
<1>3. NumBatches \in Nat \ {0}
  <2>1. PerBatch \in Nat \ {0}
    BY <1>1, <1>2
  <2> QED BY <1>1, <2>1, CeilCovers DEF NumBatches, NumPieces
<1>4. (k - 1) % NumBatches \in 0..(NumBatches - 1)
  BY <1>3
<1>5. Length(job.nchans, (k - 1) % NumBatches, PerBatch) \in 1..PerBatch
  BY <1>1, <1>2, <1>4, PieceLength DEF NumBatches
<1> QED BY <1>1, <1>2, <1>5, JobTypes DEF ChannelsOf

LEMMA Same ==
  ASSUME UNCHANGED <<job, call, slots>>
  PROVE  /\ UNCHANGED <<NumChannels, NumStreamBatches>>
         /\ UNCHANGED i => UNCHANGED NumStreams
         /\ UNCHANGED <<i, s>> => UNCHANGED ChannelIdx
BY DEF NumChannels, ChannelsOf, NumBatches, PerBatch, NumStreamBatches, NumStreams,
  ChannelIdx

\* Where the loops are, in numbers.
LEMMA Counts ==
  ASSUME Typed, Place, Working
  PROVE  /\ NumChannels \in 1..NumChans /\ slots \in 1..MaxStreams /\ slots \in Nat
         /\ NumStreamBatches \in Nat \ {0} /\ s \in Nat /\ s \in Streams
         /\ pc # "sync" =>
              /\ i \in Nat /\ ChannelIdx \in Nat /\ ChannelIdx < NumChannels
              /\ ChannelIdx \in Chans
              /\ s + 1 = NumStreams /\ i + 1 < NumStreamBatches =>
                   (i + 1) * slots = ChannelIdx + 1
              /\ s + 1 = NumStreams /\ i + 1 = NumStreamBatches =>
                   ChannelIdx + 1 = NumChannels
<1>1. NumChannels \in 1..NumChans /\ slots \in 1..MaxStreams
      /\ NumChans \in Nat /\ MaxStreams \in Nat
  BY ChannelsOfBatch, JobTypes DEF Place, Working, NumChannels, Typed
<1>2. slots \in Nat \ {0} /\ NumChannels \in Nat \ {0}
  BY <1>1
<1>3. NumStreamBatches \in Nat \ {0}
  BY <1>2, CeilCovers DEF NumStreamBatches, NumPieces
<1>4. CASE pc = "sync"
  BY <1>1, <1>2, <1>3, <1>4 DEF Place, Streams
<1>5. CASE pc # "sync"
  <2>1. i \in 0..(NumStreamBatches - 1) /\ s \in 0..(NumStreams - 1)
    BY <1>5 DEF Place, Working
  <2>2. /\ i * slots \in Nat /\ NumStreams \in 1..slots
        /\ i * slots + NumStreams <= NumChannels
        /\ i + 1 < NumStreamBatches => NumStreams = slots
        /\ i + 1 = NumStreamBatches => i * slots + NumStreams = NumChannels
    BY <1>2, <2>1, PieceLength DEF NumStreams, NumStreamBatches
  <2>3. (i + 1) * slots = i * slots + slots
    BY <1>2, <1>3, <2>1
  <2>4. s \in Nat /\ s < slots /\ s < NumStreams /\ i \in Nat
    BY <1>2, <1>3, <2>1, <2>2
  <2> DEFINE o == i * slots
  <2>5. ChannelIdx = o + s
    BY DEF ChannelIdx
  <2>6. /\ o \in Nat /\ o + NumStreams <= NumChannels /\ (i + 1) * slots = o + slots
        /\ i + 1 < NumStreamBatches => NumStreams = slots
        /\ i + 1 = NumStreamBatches => o + NumStreams = NumChannels
    BY <2>2, <2>3
  <2> HIDE DEF o
  <2>7. ChannelIdx \in Nat /\ ChannelIdx < NumChannels /\ ChannelIdx \in Chans
    BY <1>1, <1>2, <2>2, <2>4, <2>5, <2>6 DEF Chans
  <2>8. s \in Streams
    BY <1>1, <2>4 DEF Streams
  <2> QED BY <1>1, <1>2, <1>3, <1>5, <2>2, <2>4, <2>5, <2>6, <2>7, <2>8
<1> QED BY <1>4, <1>5

-----------------------------------------------------------------------------
(* Queues.                                                                 *)

LEMMA EmptySeq == ASSUME NEW S PROVE <<>> \in Seq(S)
OBVIOUS

LEMMA EmptyIsShort ==
  ASSUME NEW S, NEW q \in Seq(S)
  PROVE  Len(q) \in Nat /\ (q = <<>> <=> Len(q) = 0)
BY EmptySeq

LEMMA FirstOut ==
  ASSUME NEW S, NEW q \in Seq(S), q # <<>>
  PROVE  /\ Tail(q) \in Seq(S) /\ Len(Tail(q)) = Len(q) - 1 /\ Len(q) \in Nat \ {0}
         /\ Head(q) = q[1] /\ Head(q) \in S
         /\ \A j \in 1..Len(Tail(q)) : Tail(q)[j] = q[j + 1]
<1>1. Len(q) \in Nat \ {0}
  OBVIOUS
<1> QED BY <1>1

LEMMA ThreeIn ==
  ASSUME NEW S, NEW q \in Seq(S), NEW x \in S, NEW y \in S, NEW z \in S
  PROVE  /\ q \o <<x, y, z>> \in Seq(S) /\ Len(q \o <<x, y, z>>) = Len(q) + 3
         /\ \A j \in 1..Len(q) : (q \o <<x, y, z>>)[j] = q[j]
         /\ (q \o <<x, y, z>>)[Len(q) + 1] = x
         /\ (q \o <<x, y, z>>)[Len(q) + 2] = y
         /\ (q \o <<x, y, z>>)[Len(q) + 3] = z
<1>1. <<x, y, z>> \in Seq(S) /\ Len(<<x, y, z>>) = 3
  OBVIOUS
<1> QED BY <1>1

-----------------------------------------------------------------------------
(* The initial states, and the steps that begin or end something.           *)

LEMMA InitInv == Init => Inv
<1> SUFFICES ASSUME Init PROVE Inv
  OBVIOUS
<1>1. Typed
  <2>1. queue \in [Streams -> Seq(Ops)]
    BY EmptySeq, Zenon DEF Init
  <2>2. dev \in [Streams -> [signal : Contents, clean : BOOLEAN]] /\ sum \in Contents
    BY DEF Init, Contents
  <2>3. data \in [Chans -> Signals]
    BY DEF Init, Signals, Raw
  <2> QED BY <2>1, <2>2, <2>3 DEF Init, Typed
<1>2. Place
  BY DEF Init, Place, Working
<1> QED BY <1>1, <1>2 DEF Init, Inv, Working

\* With no stream at work.
LEMMA RestInv ==
  ASSUME Typed', pc' \in {"init", "ready", "done", "failed"},
         pc' \in {"ready", "done"} => slots' \in 1..MaxStreams,
         pc' \in {"init", "ready", "done"} => \A t \in Streams : queue'[t] = <<>>
  PROVE  Inv'
BY DEF Inv, Place, Working

LEMMA Init1Inv == ASSUME Inv, Init1 PROVE Inv'
<1>1. Typed'
  BY DEF Inv, Typed, Init1, inputs
<1>2. slots' \in 0..MaxStreams
  <2>1. fit \in Nat /\ job.nchans \in Nat /\ MaxStreams \in Nat
    BY JobTypes, GpuBaselineAssumption DEF Inv, Typed
  <2> QED BY <2>1 DEF Init1, LesserOf
<1> QED BY <1>1, <1>2, RestInv, GpuBaselineAssumption DEF Init1, Inv, Place

LEMMA DestroyInv == ASSUME Inv, Destroy PROVE Inv'
<1>1. Typed'
  BY DEF Inv, Typed, Destroy, inputs
<1> QED BY <1>1, RestInv DEF Destroy, Inv, Place

LEMMA CudaErrorInv == ASSUME Inv, CudaError PROVE Inv'
<1>1. Typed'
  BY DEF Inv, Typed, CudaError, inputs
<1> QED BY <1>1, RestInv DEF CudaError

\* What is still there when nothing is queued.
LEMMA EmptyAt ==
  ASSUME NEW q \in Seq(Ops), q = <<>>
  PROVE  Len(q) = 0 /\ \A j \in 1..Len(q) : FALSE
OBVIOUS

LEMMA BeginInv == ASSUME Inv, Begin PROVE Inv'
<1>1. /\ pc' = "submit" /\ call' = call + 1 /\ i' = 0 /\ s' = 0
      /\ UNCHANGED <<job, fit, slots, sum, queue, dev>>
      /\ data' = [c \in Chans |-> IF c < ChannelsOf(call') THEN Raw(call', c) ELSE data[c]]
      /\ call \in Nat /\ call' \in Nat \ {0} /\ slots \in Nat \ {0}
      /\ slots \in 1..MaxStreams /\ \A t \in Streams : queue[t] = <<>>
  BY JobTypes DEF Begin, inputs, Inv, Typed, Place
<1>2. Typed'
  <2>1. \A c \in Chans : Raw(call', c) \in Signals
    BY <1>1 DEF Raw, Signals
  <2>2. data' \in [Chans -> Signals]
    BY <1>1, <2>1 DEF Inv, Typed
  <2> QED BY <1>1, <2>2 DEF Inv, Typed
<1>3. NumChannels' = ChannelsOf(call') /\ NumChannels' \in Nat \ {0}
  <2>1. (ChannelsOf(call))' = ChannelsOf(call')
    BY <1>1 DEF ChannelsOf, NumBatches, PerBatch
  <2>2. ChannelsOf(call') \in Nat \ {0}
    BY <1>1, ChannelsOfBatch, JobTypes DEF Inv
  <2> QED BY <2>1, <2>2 DEF NumChannels
<1>4. Place'
  <2>1. NumStreamBatches' = NumPieces(NumChannels', slots)
        /\ NumStreams' = Length(NumChannels', 0, slots)
    BY <1>1 DEF NumStreamBatches, NumStreams
  <2>2. NumStreamBatches' \in Nat \ {0}
    BY <1>1, <1>3, <2>1, CeilCovers DEF NumPieces
  <2>3. NumStreams' \in Nat \ {0}
    BY <1>1, <1>3, <2>1, <2>2, PieceLength
  <2> QED BY <1>1, <2>2, <2>3 DEF Place, Working
<1>5. Piped'
  <2> DEFINE cur == [t \in Streams |-> 0]
             at  == [t \in Streams |-> 4]
  <2>1. cur \in [Streams -> Chans] /\ at \in [Streams -> 1..7]
    BY GpuBaselineAssumption DEF Chans
  <2>2. Pos' = 0
    BY <1>1 DEF Pos, ChannelIdx
  <2>3. ASSUME NEW t \in Streams PROVE At(t, cur[t], at[t])'
    <3>1. queue'[t] \in Seq(Ops) /\ queue'[t] = <<>>
      BY <1>1, <2>3 DEF Inv, Typed
    <3>2. Len(queue'[t]) = 0 /\ \A j \in 1..Len(queue'[t]) : FALSE
      BY <3>1, EmptyAt
    <3>3. at[t] = 4 /\ LastOp(t)' = 3
      BY <1>1 DEF LastOp, WaitedFor
    <3> QED BY <3>2, <3>3 DEF At
  <2>4. \A c \in Chans : c < NumChannels' => data'[c] = Form(c, "raw")'
    BY <1>1, <1>3 DEF Raw, Form
  <2>5. \A c \in Chans : ~(c < Pos')
    BY <2>2 DEF Chans
  <2>6. \A t \in Streams : at[t] = 4
    OBVIOUS
  <2> HIDE DEF cur, at
  <2>7. Pipe(cur, at)'
    BY <1>1, <2>3, <2>4, <2>5, <2>6 DEF Pipe
  <2> QED BY <2>1, <2>7 DEF Piped
<1> QED BY <1>2, <1>4, <1>5 DEF Inv

-----------------------------------------------------------------------------
(* A stream.                                                               *)

\* The k-th operation of a script is known by its name.
LEMMA ScriptOp ==
  ASSUME NEW c, NEW k \in 1..6
  PROVE  /\ Script(c, k).op = "subtract" <=> k = 1
         /\ Script(c, k).op = "filter" <=> k = 2
         /\ Script(c, k).op = "copyBack" <=> k = 3
         /\ Script(c, k).op = "clear" <=> k = 4
         /\ Script(c, k).op = "copyIn" <=> k = 5
         /\ Script(c, k).op = "reduce" <=> k = 6
         /\ Script(c, k).chan = IF k <= 3 THEN c ELSE ChannelIdx
         /\ k = 1 => Script(c, k).mean = Form(c, "raw")
BY DEF Script, Op

\* A channel is no other content of the device.
LEMMA Forms ==
  ASSUME Typed, NEW c \in Chans, NEW stage \in {"raw", "centred", "filtered"}
  PROVE  /\ Form(c, stage) \in Signals /\ Form(c, stage) \in Contents
         /\ Form(c, stage).stage = stage /\ IsChannel(Form(c, stage), stage)
         /\ [Form(c, stage) EXCEPT !.stage = "centred"] = Form(c, "centred")
         /\ [Form(c, stage) EXCEPT !.stage = "filtered"] = Form(c, "filtered")
<1>1. Form(c, stage) \in Signals
  BY DEF Typed, Form, Signals
<1>2. Form(c, stage).stage = stage
  BY DEF Form
<1>3. Form(c, stage) \notin {Stale, Zeros, Garbage}
  BY <1>1, NamesDiffer
<1> QED BY <1>1, <1>2, <1>3 DEF Contents, IsChannel, Form

\* What the k-th operation of stream t with channel c changes.
Effect(t, c, k) ==
  /\ \A u \in Streams : u # t => dev'[u] = dev[u]
  /\ k = 1 => dev'[t] = [signal |-> Form(c, "centred"), clean |-> TRUE]
  /\ k = 2 => dev'[t].signal = Form(c, "filtered")
  /\ k = 3 => data' = [data EXCEPT ![c] = Form(c, "filtered")]
  /\ k = 4 => dev'[t].clean = TRUE
  /\ k = 5 => dev'[t] = [signal |-> Form(ChannelIdx, "raw"), clean |-> TRUE]
  /\ k = 6 => sum' = Form(ChannelIdx, "raw") /\ UNCHANGED dev
  /\ k # 6 => UNCHANGED sum
  /\ k # 3 => UNCHANGED data

\* What a device step is: the operation ahead of stream t, and what it does.
LEMMA DeviceStep ==
  ASSUME Inv, NEW t \in Streams, Device(t),
         NEW cur \in [Streams -> Chans], NEW at \in [Streams -> 1..7], Pipe(cur, at)
  PROVE  /\ Working /\ UNCHANGED <<job, fit, pc, slots, call, i, s>>
         /\ at[t] \in 1..6 /\ at[t] <= LastOp(t)
         /\ queue' \in [Streams -> Seq(Ops)]
         /\ \A u \in Streams : u # t => queue'[u] = queue[u]
         /\ Len(queue'[t]) = Len(queue[t]) - 1
         /\ \A j \in 1..Len(queue'[t]) : queue'[t][j] = queue[t][j + 1]
         /\ Effect(t, cur[t], at[t])
         /\ Typed'
<1> DEFINE o == Head(queue[t])
           c == cur[t]
           k == at[t]
<1>1. /\ queue[t] \in Seq(Ops) /\ queue[t] # <<>> /\ pc # "failed"
      /\ queue' = [queue EXCEPT ![t] = Tail(queue[t])]
      /\ UNCHANGED <<job, fit, pc, slots, call, i, s>>
      /\ Typed /\ Place /\ c \in Chans /\ k \in 1..7
  BY DEF Device, inputs, Inv, Typed
<1>2. Working
  BY <1>1 DEF Place, Working, Typed
<1>3. /\ Tail(queue[t]) \in Seq(Ops) /\ Len(Tail(queue[t])) = Len(queue[t]) - 1
      /\ Len(queue[t]) \in Nat \ {0} /\ o = queue[t][1]
      /\ \A j \in 1..Len(Tail(queue[t])) : Tail(queue[t])[j] = queue[t][j + 1]
  BY <1>1, FirstOut
<1>4. /\ queue'[t] = Tail(queue[t]) /\ queue' \in [Streams -> Seq(Ops)]
      /\ \A u \in Streams : u # t => queue'[u] = queue[u]
  BY <1>1, <1>3 DEF Typed
<1>5. At(t, c, k)
  BY DEF Pipe
<1> HIDE DEF o, c, k
<1>6. k \in 1..6 /\ k <= LastOp(t) /\ o = Script(c, k)
  <2>1. LastOp(t) \in {3, 6} /\ Len(queue[t]) = LastOp(t) + 1 - k
    BY <1>5 DEF At, LastOp
  <2>2. k <= LastOp(t) /\ k \in 1..6 /\ 1 \in 1..Len(queue[t])
    BY <1>1, <1>3, <2>1
  <2>3. queue[t][1] = Script(c, k + 1 - 1)
    BY <1>5, <2>2 DEF At
  <2> QED BY <1>3, <2>2, <2>3
<1>7. k <= 3 => c < Pos /\ data[c] = Form(c, "raw")
  BY <1>5 DEF At
<1>8. k \in {4, 5, 6} =>
        /\ ChannelIdx \in Chans /\ ChannelIdx < NumChannels
        /\ data[ChannelIdx] = Form(ChannelIdx, "raw")
  <2> SUFFICES ASSUME k \in {4, 5, 6}
               PROVE  /\ ChannelIdx \in Chans /\ ChannelIdx < NumChannels
                      /\ data[ChannelIdx] = Form(ChannelIdx, "raw")
    OBVIOUS
  <2>1. pc = "reduce"
    BY <1>6 DEF LastOp, WaitedFor
  <2>2. ChannelIdx \in Chans /\ ChannelIdx < NumChannels /\ ChannelIdx \in Nat
    BY <1>1, <1>2, <2>1, Counts
  <2>3. Pos = ChannelIdx
    BY <2>1 DEF Pos
  <2> QED BY <2>2, <2>3 DEF Pipe
<1> DEFINE Named(name) == o.op = name
<1>9. /\ Named("subtract") <=> k = 1
      /\ Named("filter") <=> k = 2
      /\ Named("copyBack") <=> k = 3
      /\ Named("clear") <=> k = 4
      /\ Named("copyIn") <=> k = 5
      /\ Named("reduce") <=> k = 6
      /\ o.chan = IF k <= 3 THEN c ELSE ChannelIdx
      /\ k = 1 => o.mean = Form(c, "raw")
  BY <1>6, ScriptOp
<1>10. \/ k = 4 /\ Clear(t)
       \/ k = 5 /\ CopyChannel(t, o)
       \/ k = 6 /\ Reduce(t)
       \/ k = 1 /\ Subtract(t, o)
       \/ k = 2 /\ HighPass(t)
       \/ k = 3 /\ CopyOut(t, o)
  BY <1>9 DEF Device, o
<1> HIDE DEF Named
<1>11. \A stage \in {"raw", "centred", "filtered"} :
         /\ Form(c, stage) \in Contents /\ IsChannel(Form(c, stage), stage)
         /\ [Form(c, stage) EXCEPT !.stage = "centred"] = Form(c, "centred")
         /\ [Form(c, stage) EXCEPT !.stage = "filtered"] = Form(c, "filtered")
         /\ Form(c, stage) \in Signals
  BY <1>1, Forms DEF c
<1>12. dev \in [Streams -> [signal : Contents, clean : BOOLEAN]]
  BY <1>1 DEF Typed
<1> DEFINE Becomes(x) == dev' = [dev EXCEPT ![t] = x]
<1>13. ASSUME k = 1 PROVE Effect(t, c, k) /\ Typed'
  <2>1. Subtract(t, o) /\ o.mean = Form(c, "raw")
    BY <1>9, <1>10, <1>13
  <2>2. dev[t].signal = Form(c, "raw") /\ dev[t].clean = TRUE
    BY <1>5, <1>13 DEF At, Holds
  <2>3. /\ IsChannel(Form(c, "raw"), "raw")
        /\ [Form(c, "raw") EXCEPT !.stage = "centred"] = Form(c, "centred")
    BY <1>11
  <2>4. /\ Becomes([signal |-> Form(c, "centred"), clean |-> TRUE])
        /\ UNCHANGED <<sum, data>>
    BY <2>1, <2>2, <2>3 DEF Subtract, Change
  <2>5. [signal |-> Form(c, "centred"), clean |-> TRUE] \in [signal : Contents, clean : BOOLEAN]
    BY <1>11
  <2>6. /\ dev' \in [Streams -> [signal : Contents, clean : BOOLEAN]]
        /\ dev'[t] = [signal |-> Form(c, "centred"), clean |-> TRUE]
        /\ \A u \in Streams : u # t => dev'[u] = dev[u]
    BY <1>12, <2>4, <2>5
  <2>7. Typed'
    BY <1>1, <1>4, <2>4, <2>6 DEF Typed
  <2> QED BY <1>13, <2>4, <2>6, <2>7 DEF Effect
<1>14. ASSUME k = 2 PROVE Effect(t, c, k) /\ Typed'
  <2>1. HighPass(t)
    BY <1>10, <1>14
  <2>2. dev[t].signal = Form(c, "centred") /\ dev[t].clean = TRUE
    BY <1>5, <1>14 DEF At, Holds
  <2>3. /\ IsChannel(Form(c, "centred"), "centred")
        /\ [Form(c, "centred") EXCEPT !.stage = "filtered"] = Form(c, "filtered")
    BY <1>11
  <2>4. /\ Becomes([signal |-> Form(c, "filtered"), clean |-> FALSE])
        /\ UNCHANGED <<sum, data>>
    BY <2>1, <2>2, <2>3 DEF HighPass, Change
  <2>5. [signal |-> Form(c, "filtered"), clean |-> FALSE] \in [signal : Contents, clean : BOOLEAN]
    BY <1>11
  <2>6. /\ dev' \in [Streams -> [signal : Contents, clean : BOOLEAN]]
        /\ dev'[t] = [signal |-> Form(c, "filtered"), clean |-> FALSE]
        /\ \A u \in Streams : u # t => dev'[u] = dev[u]
    BY <1>12, <2>4, <2>5
  <2>7. Typed'
    BY <1>1, <1>4, <2>4, <2>6 DEF Typed
  <2>8. dev'[t].signal = Form(c, "filtered")
    BY <2>6
  <2> QED BY <1>14, <2>4, <2>6, <2>7, <2>8 DEF Effect
<1>15. ASSUME k = 3 PROVE Effect(t, c, k) /\ Typed'
  <2>1. CopyOut(t, o) /\ o.chan = c
    BY <1>9, <1>10, <1>15
  <2>2. dev[t].signal = Form(c, "filtered")
    BY <1>5, <1>15 DEF At
  <2>3. data' = [data EXCEPT ![c] = Form(c, "filtered")] /\ UNCHANGED <<sum, dev>>
    BY <2>1, <2>2 DEF CopyOut
  <2>4. Typed'
    BY <1>1, <1>4, <1>11, <2>3 DEF Typed
  <2> QED BY <1>15, <2>3, <2>4 DEF Effect
<1>16. ASSUME k = 4 PROVE Effect(t, c, k) /\ Typed'
  <2>1. Becomes([signal |-> Zeros, clean |-> TRUE]) /\ UNCHANGED <<sum, data>>
    BY <1>10, <1>16 DEF Clear, Change
  <2>2. [signal |-> Zeros, clean |-> TRUE] \in [signal : Contents, clean : BOOLEAN]
    BY DEF Contents
  <2>3. /\ dev' \in [Streams -> [signal : Contents, clean : BOOLEAN]]
        /\ dev'[t] = [signal |-> Zeros, clean |-> TRUE]
        /\ \A u \in Streams : u # t => dev'[u] = dev[u]
    BY <1>12, <2>1, <2>2
  <2>4. Typed'
    BY <1>1, <1>4, <2>1, <2>3 DEF Typed
  <2>5. dev'[t].clean = TRUE
    BY <2>3
  <2> QED BY <1>16, <2>1, <2>3, <2>4, <2>5 DEF Effect
<1>17. ASSUME k = 5 PROVE Effect(t, c, k) /\ Typed'
  <2>1. CopyChannel(t, o) /\ o.chan = ChannelIdx
    BY <1>9, <1>10, <1>17
  <2>2. dev[t].clean = TRUE /\ data[ChannelIdx] = Form(ChannelIdx, "raw")
    BY <1>5, <1>8, <1>17 DEF At
  <2>3. /\ Becomes([signal |-> Form(ChannelIdx, "raw"), clean |-> TRUE])
        /\ UNCHANGED <<sum, data>>
    BY <2>1, <2>2 DEF CopyChannel, Change
  <2>4. [signal |-> Form(ChannelIdx, "raw"), clean |-> TRUE] \in [signal : Contents, clean : BOOLEAN]
    BY <1>1, <1>8, <1>17, Forms
  <2>5. /\ dev' \in [Streams -> [signal : Contents, clean : BOOLEAN]]
        /\ dev'[t] = [signal |-> Form(ChannelIdx, "raw"), clean |-> TRUE]
        /\ \A u \in Streams : u # t => dev'[u] = dev[u]
    BY <1>12, <2>3, <2>4
  <2>6. Typed'
    BY <1>1, <1>4, <2>3, <2>5 DEF Typed
  <2> QED BY <1>17, <2>3, <2>5, <2>6 DEF Effect
<1>18. ASSUME k = 6 PROVE Effect(t, c, k) /\ Typed'
  <2>1. dev[t].signal = Form(ChannelIdx, "raw")
    BY <1>5, <1>18 DEF At, Holds
  <2>2. sum' = Form(ChannelIdx, "raw") /\ UNCHANGED <<dev, data>>
    BY <1>10, <1>18, <2>1 DEF Reduce
  <2>3. Form(ChannelIdx, "raw") \in Contents
    BY <1>1, <1>8, <1>18, Forms
  <2>4. Typed'
    BY <1>1, <1>4, <2>2, <2>3 DEF Typed
  <2> QED BY <1>18, <2>2, <2>4 DEF Effect
<1>19. Effect(t, c, k) /\ Typed'
  BY <1>6, <1>13, <1>14, <1>15, <1>16, <1>17, <1>18
<1>20. Len(queue'[t]) = Len(queue[t]) - 1
       /\ \A j \in 1..Len(queue'[t]) : queue'[t][j] = queue[t][j + 1]
  BY <1>3, <1>4
<1> QED BY <1>1, <1>2, <1>4, <1>6, <1>19, <1>20 DEF c, k

LEMMA DeviceInv == ASSUME Inv, NEW t \in Streams, Device(t) PROVE Inv'
<1>1. Working
  BY DEF Device, Inv, Typed, Place, Working
<1>2. PICK cur \in [Streams -> Chans], at \in [Streams -> 1..7] : Pipe(cur, at)
  BY <1>1 DEF Inv, Piped
<1> DEFINE next == [at EXCEPT ![t] = at[t] + 1]
<1>3. /\ UNCHANGED <<job, fit, pc, slots, call, i, s>>
      /\ at[t] \in 1..6 /\ at[t] <= LastOp(t)
      /\ queue' \in [Streams -> Seq(Ops)]
      /\ \A u \in Streams : u # t => queue'[u] = queue[u]
      /\ Len(queue'[t]) = Len(queue[t]) - 1
      /\ \A j \in 1..Len(queue'[t]) : queue'[t][j] = queue[t][j + 1]
      /\ Typed'
  BY <1>2, DeviceStep
<1>4. Effect(t, cur[t], at[t])
  BY <1>2, DeviceStep
<1>5. /\ next \in [Streams -> 1..7] /\ next[t] = at[t] + 1
      /\ \A u \in Streams : u # t => next[u] = at[u]
  BY <1>3
<1> HIDE DEF next
<1>6. /\ UNCHANGED <<NumChannels, NumStreamBatches, NumStreams, ChannelIdx>>
      /\ Pos' = Pos /\ Working'
      /\ \A u \in Streams : LastOp(u)' = LastOp(u)
      /\ \A c, stage : Form(c, stage)' = Form(c, stage)
      /\ \A c, k : Script(c, k)' = Script(c, k)
  <2>1. UNCHANGED <<NumChannels, NumStreamBatches, NumStreams, ChannelIdx>>
    BY <1>3, Same
  <2> QED BY <1>1, <1>3, <2>1 DEF Pos, Working, LastOp, WaitedFor, Form, Script, Op
<1>7. Place'
  BY <1>1, <1>3, <1>6 DEF Inv, Place, Working
<1>8. /\ \A u \in Streams : cur[u] \in Chans /\ at[u] \in 1..7
      /\ data \in [Chans -> Signals] /\ cur[t] \in Chans
      /\ NumChannels \in Nat
  BY <1>1, <1>2, Counts DEF Inv, Typed
<1>9. ASSUME at[t] = 3
      PROVE  /\ data'[cur[t]] = Form(cur[t], "filtered")
             /\ \A c \in Chans : c # cur[t] => data'[c] = data[c]
  BY <1>4, <1>8, <1>9 DEF Effect
<1>10. ASSUME NEW u \in Streams PROVE At(u, cur[u], next[u])'
  <2>1. At(u, cur[u], at[u])
    BY <1>2 DEF Pipe
  <2>2. CASE u # t
    <3>1. /\ queue'[u] = queue[u] /\ dev'[u] = dev[u] /\ next[u] = at[u]
          /\ LastOp(u)' = LastOp(u)
      BY <1>3, <1>4, <1>5, <1>6, <2>2 DEF Effect
    <3>2. at[u] <= 3 => data'[cur[u]] = data[cur[u]]
      <4>1. CASE at[t] = 3
        <5>1. at[u] <= 3 => cur[u] # cur[t]
          BY <1>2, <2>2, <4>1 DEF Pipe
        <5> QED BY <1>8, <1>9, <4>1, <5>1
      <4> QED BY <1>4, <4>1 DEF Effect
    <3>3. at[u] = 7 => sum' = sum
      <4>1. at[u] = 7 => u = s
        BY <2>1 DEF At, LastOp, WaitedFor
      <4>2. at[t] = 6 => t = s
        BY <1>3 DEF LastOp, WaitedFor
      <4> QED BY <1>4, <2>2, <4>1, <4>2 DEF Effect
    <3> QED BY <1>3, <1>6, <2>1, <3>1, <3>2, <3>3 DEF At, Holds
  <2>3. CASE u = t
    <3> DEFINE c == cur[t]
               k == at[t]
               m == Len(queue[t])
    <3>1. /\ k \in 1..6 /\ k + 1 \in 1..(LastOp(t) + 1) /\ LastOp(t)' = LastOp(t)
          /\ next[t] = k + 1 /\ LastOp(t) \in {3, 6} /\ m = LastOp(t) + 1 - k
      BY <1>3, <1>5, <1>6, <2>1, <2>3 DEF At, LastOp
    <3>2. Len(queue'[t]) = LastOp(t) + 1 - (k + 1)
      BY <1>3, <3>1, SMTT(30)
    <3>3. \A j \in 1..Len(queue'[t]) : queue'[t][j] = Script(c, (k + 1) + j - 1)
      <4>1. ASSUME NEW j \in 1..Len(queue'[t])
            PROVE  queue'[t][j] = Script(c, (k + 1) + j - 1)
        <5>1. j + 1 \in 1..m /\ k + (j + 1) - 1 = (k + 1) + j - 1
          BY <1>3, <3>1, SMTT(30)
        <5>2. queue[t][j + 1] = Script(c, k + (j + 1) - 1)
          BY <2>1, <2>3, <5>1 DEF At
        <5> QED BY <1>3, <5>1, <5>2
      <4> QED BY <4>1
    <3>4. k + 1 <= 3 => t < slots /\ c < Pos /\ data'[c] = Form(c, "raw")
      BY <1>4, <2>1, <2>3, <3>1 DEF At, Effect
    <3>5. /\ k + 1 = 2 => dev'[t] = [signal |-> Form(c, "centred"), clean |-> TRUE]
          /\ k + 1 = 3 => dev'[t].signal = Form(c, "filtered")
          /\ k + 1 = 5 => dev'[t].clean = TRUE
          /\ k + 1 = 6 => dev'[t] = [signal |-> Form(ChannelIdx, "raw"), clean |-> TRUE]
          /\ k + 1 # 1
      BY <1>4, <3>1 DEF Effect
    <3>6. k + 1 = 7 => /\ dev'[t] = [signal |-> Form(ChannelIdx, "raw"), clean |-> TRUE]
                       /\ sum' = Form(ChannelIdx, "raw")
      BY <1>4, <2>1, <2>3, <3>1 DEF At, Holds, Effect
    <3> HIDE DEF c, k, m
    <3>7. At(t, c, k + 1)'
      BY <1>3, <1>6, <3>1, <3>2, <3>3, <3>4, <3>5, <3>6 DEF At, Holds
    <3> QED BY <2>3, <3>1, <3>7 DEF c
  <2> QED BY <2>2, <2>3
<1>11. \A u, v \in Streams : u # v /\ next[u] <= 3 /\ next[v] <= 3 => cur[u] # cur[v]
  <2>1. \A u \in Streams : next[u] <= 3 => at[u] <= 3
    <3>1. next[t] <= 3 => at[t] <= 3
      BY <1>3, <1>5
    <3> QED BY <1>5, <3>1
  <2> QED BY <1>2, <2>1 DEF Pipe
<1>12. ASSUME NEW c \in Chans, c < Pos
       PROVE  data'[c].stage = "filtered" \/ \E u \in Streams : next[u] <= 3 /\ cur[u] = c
  <2>1. data[c].stage = "filtered" \/ \E u \in Streams : at[u] <= 3 /\ cur[u] = c
    BY <1>2, <1>12 DEF Pipe
  <2>2. CASE at[t] = 3
    <3>1. CASE c = cur[t]
      BY <1>9, <2>2, <3>1 DEF Form
    <3>2. CASE c # cur[t]
      BY <1>5, <1>9, <2>1, <2>2, <3>2
    <3> QED BY <3>1, <3>2
  <2>3. CASE at[t] # 3
    <3>1. UNCHANGED data
      BY <1>4, <2>3 DEF Effect
    <3>2. at[t] <= 3 => next[t] <= 3
      BY <1>3, <1>5, <2>3
    <3> QED BY <1>5, <2>1, <3>1, <3>2
  <2> QED BY <2>2, <2>3
<1>13. ASSUME NEW c \in Chans, Pos <= c, c < NumChannels PROVE data'[c] = Form(c, "raw")
  <2>1. data[c] = Form(c, "raw")
    BY <1>2, <1>13 DEF Pipe
  <2>2. at[t] = 3 => c # cur[t]
    <3>1. at[t] = 3 => cur[t] < Pos
      BY <1>2 DEF Pipe, At
    <3>2. Pos \in Int /\ c \in Int /\ cur[t] \in Int
      BY <1>1, <1>8, Counts DEF Pos, Chans, Inv
    <3> QED BY <1>13, <3>1, <3>2
  <2> QED BY <1>4, <1>9, <2>1, <2>2 DEF Effect
<1>14. pc = "sync" => \A u \in Streams : u < s => next[u] = 4
  <2>1. pc = "sync" => \A u \in Streams : u < s => at[u] = 4
    BY <1>2 DEF Pipe
  <2>2. pc = "sync" => at[t] <= 3
    BY <1>3 DEF LastOp, WaitedFor
  <2>3. pc = "sync" => \A u \in Streams : u < s => u # t
    BY <1>8, <2>1, <2>2
  <2> QED BY <1>5, <2>1, <2>3
<1>15. Pipe(cur, next)'
  BY <1>3, <1>6, <1>10, <1>11, <1>12, <1>13, <1>14 DEF Pipe
<1>16. Piped'
  BY <1>2, <1>5, <1>15 DEF Piped
<1> QED BY <1>3, <1>7, <1>16 DEF Inv

-----------------------------------------------------------------------------
(* The host at work.                                                       *)

LEMMA OpsTyped ==
  ASSUME Typed, NEW c \in Chans, NEW mean \in Contents,
         NEW name \in {"subtract", "filter", "copyBack", "clear", "copyIn", "reduce"}
  PROVE  Op(name, c, mean) \in Ops
BY DEF Op, Ops

\* A stream that is given no work, or three more operations, is where it was.
LEMMA AtStays ==
  ASSUME NEW u \in Streams, NEW c, NEW k \in 1..4, At(u, c, k),
         NEW m \in {3, 6}, LastOp(u)' = m, Len(queue'[u]) = m + 1 - k,
         \A j \in 1..Len(queue'[u]) : queue'[u][j] = Script(c, k + j - 1)',
         UNCHANGED <<dev, data, slots, call>>, k <= 3 => c < Pos'
  PROVE  At(u, c, k)'
<1>1. k \in 1..(LastOp(u)' + 1) /\ Len(queue'[u]) = LastOp(u)' + 1 - k
  OBVIOUS
<1>2. \A stage : Form(c, stage)' = Form(c, stage)
  BY DEF Form
<1>3. k # 5 /\ k # 6 /\ k # 7
  OBVIOUS
<1>4. /\ k <= 3 => u < slots /\ data[c] = Form(c, "raw")
      /\ k = 1 => Holds(u, c, "raw")
      /\ k = 2 => Holds(u, c, "centred")
      /\ k = 3 => dev[u].signal = Form(c, "filtered")
  BY DEF At
<1> QED BY <1>1, <1>2, <1>3, <1>4 DEF At, Holds

LEMMA CopyInInv == ASSUME Inv, CopyIn PROVE Inv'
<1> DEFINE x == Op("clear", ChannelIdx, Zeros)
           y == Op("copyIn", ChannelIdx, Zeros)
           z == Op("reduce", ChannelIdx, Zeros)
<1>1. /\ pc = "submit" /\ pc' = "reduce"
      /\ queue' = [queue EXCEPT ![s] = queue[s] \o <<x, y, z>>]
      /\ UNCHANGED <<job, fit, slots, call, i, s, sum, dev, data>>
      /\ Working /\ Typed /\ Place
  BY DEF CopyIn, Submit, inputs, Inv, Working
<1>2. /\ s \in Streams /\ ChannelIdx \in Chans
  BY <1>1, Counts
<1>3. x \in Ops /\ y \in Ops /\ z \in Ops
  BY <1>1, <1>2, OpsTyped DEF Contents
<1>4. PICK cur \in [Streams -> Chans], at \in [Streams -> 1..7] : Pipe(cur, at)
  BY <1>1 DEF Inv, Piped
<1>5. queue[s] \in Seq(Ops)
  BY <1>1, <1>2 DEF Typed
<1> DEFINE q == queue[s] \o <<x, y, z>>
           n == Len(queue[s])
<1>6. /\ q \in Seq(Ops) /\ Len(q) = n + 3 /\ n \in Nat
      /\ \A j \in 1..n : q[j] = queue[s][j]
      /\ q[n + 1] = x /\ q[n + 2] = y /\ q[n + 3] = z
  <2> HIDE DEF x, y, z
  <2> QED BY <1>3, <1>5, ThreeIn
<1>7. /\ queue' \in [Streams -> Seq(Ops)] /\ queue'[s] = q
      /\ \A u \in Streams : u # s => queue'[u] = queue[u]
  <2> HIDE DEF x, y, z
  <2> QED BY <1>1, <1>2, <1>6 DEF Typed
<1> HIDE DEF q
<1>8. /\ UNCHANGED <<NumChannels, NumStreamBatches, NumStreams, ChannelIdx>>
      /\ Pos' = Pos /\ Working'
      /\ \A u \in Streams : LastOp(u) = 3 /\ LastOp(u)' = IF u = s THEN 6 ELSE 3
      /\ \A c, stage : Form(c, stage)' = Form(c, stage)
      /\ \A c, k : Script(c, k)' = Script(c, k)
  <2>1. UNCHANGED <<NumChannels, NumStreamBatches, NumStreams, ChannelIdx>>
    BY <1>1, Same
  <2> QED BY <1>1, <2>1 DEF Pos, Working, LastOp, WaitedFor, Form, Script, Op
<1>9. Typed'
  BY <1>1, <1>7 DEF Typed
<1>10. Place'
  BY <1>1, <1>8 DEF Place, Working
<1>11. ASSUME NEW u \in Streams PROVE At(u, cur[u], at[u])'
  <2>1. At(u, cur[u], at[u]) /\ LastOp(u) = 3
    BY <1>4, <1>8 DEF Pipe
  <2>2. CASE u # s
    BY <1>1, <1>7, <1>8, <2>1, <2>2 DEF At, Holds
  <2>3. CASE u = s
    <3> DEFINE k == at[u]
               c == cur[u]
    <3>1. k \in 1..4 /\ n = 4 - k
      BY <2>1, <2>3 DEF At
    <3>2. Len(queue'[u]) = 7 - k /\ LastOp(u)' = 6
      BY <1>6, <1>7, <1>8, <2>3, <3>1
    <3>3. ASSUME NEW j \in 1..Len(queue'[u]) PROVE queue'[u][j] = Script(c, k + j - 1)
      <4>1. CASE j \in 1..n
        <5>1. queue[s][j] = Script(c, k + j - 1)
          BY <2>1, <2>3, <4>1 DEF At
        <5> QED BY <1>6, <1>7, <2>3, <4>1, <5>1
      <4>2. CASE j = n + 1
        <5>1. k + j - 1 = 4
          BY <3>1, <4>2
        <5> QED BY <1>6, <1>7, <2>3, <4>2, <5>1 DEF Script
      <4>3. CASE j = n + 2
        <5>1. k + j - 1 = 5
          BY <3>1, <4>3
        <5> QED BY <1>6, <1>7, <2>3, <4>3, <5>1 DEF Script
      <4>4. CASE j = n + 3
        <5>1. k + j - 1 = 6
          BY <3>1, <4>4
        <5> QED BY <1>6, <1>7, <2>3, <4>4, <5>1 DEF Script
      <4>5. j \in 1..n \/ j = n + 1 \/ j = n + 2 \/ j = n + 3
        BY <3>1, <3>2
      <4> QED BY <4>1, <4>2, <4>3, <4>4, <4>5
    <3>4. At(u, c, k)
      BY <2>1
    <3>5. \A j \in 1..Len(queue'[u]) : queue'[u][j] = Script(c, k + j - 1)'
      BY <1>8, <3>3
    <3>6. UNCHANGED <<dev, data, slots, call>> /\ (k <= 3 => c < Pos')
      BY <1>1, <1>8, <3>4 DEF At
    <3> HIDE DEF x, y, z
    <3>7. 6 \in {3, 6} /\ LastOp(u)' = 6 /\ Len(queue'[u]) = 6 + 1 - k
      BY <3>1, <3>2
    <3> QED BY <3>1, <3>4, <3>5, <3>6, <3>7, AtStays
  <2> QED BY <2>2, <2>3
<1>12. Pipe(cur, at)'
  BY <1>1, <1>4, <1>8, <1>11 DEF Pipe
<1>13. Piped'
  BY <1>4, <1>12 DEF Piped
<1> QED BY <1>9, <1>10, <1>13 DEF Inv

LEMMA CopyBackInv == ASSUME Inv, CopyBack PROVE Inv'
<1>0. PICK P, r : P = ChannelIdx /\ r = s
  OBVIOUS
<1> DEFINE x == Op("subtract", P, sum)
           y == Op("filter", P, Zeros)
           z == Op("copyBack", P, Zeros)
<1>1. /\ pc = "reduce" /\ queue[r] = <<>> /\ Advance
      /\ queue' = [queue EXCEPT ![r] = queue[r] \o <<x, y, z>>]
      /\ UNCHANGED <<job, fit, slots, call, sum, dev, data>>
      /\ Working /\ Typed /\ Place
  BY <1>0 DEF CopyBack, Submit, inputs, Inv, Working
<1>2. /\ r \in Streams /\ r = s /\ P \in Chans /\ P < NumChannels /\ P \in Nat
      /\ NumChannels \in Nat /\ slots \in Nat /\ slots \in 1..MaxStreams
      /\ NumStreamBatches \in Nat /\ s \in Nat /\ i \in Nat
  BY <1>0, <1>1, Counts
<1>3. PICK cur \in [Streams -> Chans], at \in [Streams -> 1..7] : Pipe(cur, at)
  BY <1>1 DEF Inv, Piped
<1>4. queue[r] \in Seq(Ops) /\ Len(queue[r]) = 0
  <2>1. queue[r] \in Seq(Ops)
    BY <1>1, <1>2 DEF Typed
  <2> QED BY <1>1, <2>1, EmptyAt
<1>5. at[r] = 7 /\ sum = Form(P, "raw") /\ Holds(r, P, "raw")
  <2>1. At(r, cur[r], at[r]) /\ LastOp(r) = 6
    BY <1>1, <1>2, <1>3 DEF Pipe, LastOp, WaitedFor
  <2>2. at[r] = 7
    BY <1>4, <2>1 DEF At
  <2> QED BY <1>0, <2>1, <2>2 DEF At
<1>6. x \in Ops /\ y \in Ops /\ z \in Ops
  BY <1>1, <1>2, OpsTyped DEF Contents, Typed
<1> DEFINE q == queue[r] \o <<x, y, z>>
<1>7. /\ q \in Seq(Ops) /\ Len(q) = 3 /\ q[1] = x /\ q[2] = y /\ q[3] = z
  <2> HIDE DEF x, y, z
  <2>1. /\ q \in Seq(Ops) /\ Len(q) = 0 + 3
        /\ q[0 + 1] = x /\ q[0 + 2] = y /\ q[0 + 3] = z
    BY <1>4, <1>6, ThreeIn
  <2> QED BY <2>1
<1>8. /\ queue' \in [Streams -> Seq(Ops)] /\ queue'[r] = q
      /\ \A u \in Streams : u # r => queue'[u] = queue[u]
  <2> HIDE DEF x, y, z
  <2> QED BY <1>1, <1>2, <1>7 DEF Typed
<1>9. /\ UNCHANGED <<NumChannels, NumStreamBatches>> /\ Working'
      /\ \A u \in Streams : u # r => LastOp(u) = 3
      /\ \A u \in Streams : LastOp(u)' = 3
      /\ \A c, stage : Form(c, stage)' = Form(c, stage)
      /\ \A c, k : k \in 1..3 => Script(c, k)' = Script(c, k)
      /\ pc' \in {"submit", "sync"}
  <2>1. UNCHANGED <<NumChannels, NumStreamBatches>>
    BY <1>1, Same
  <2>2. pc' \in {"submit", "sync"}
    BY <1>1 DEF Advance
  <2>3. \A c, stage : Form(c, stage)' = Form(c, stage)
    BY <1>1 DEF Form
  <2>4. ASSUME NEW c, NEW k \in 1..3 PROVE Script(c, k)' = Script(c, k)
    BY <2>3 DEF Script, Op
  <2>5. /\ \A u \in Streams : u # r => LastOp(u) = 3
        /\ \A u \in Streams : LastOp(u)' = 3
    BY <1>0, <2>2 DEF LastOp, WaitedFor
  <2> QED BY <2>1, <2>2, <2>3, <2>4, <2>5 DEF Working
<1>10. Typed'
  BY <1>1, <1>8, <1>9 DEF Typed
<1>11. Place' /\ Pos' = P + 1 /\ Pos = P /\ (pc' = "sync" => s' = 0)
  <2>1. Pos = P
    BY <1>0, <1>1 DEF Pos
  <2>2. CASE s + 1 < NumStreams
    <3>1. s' = s + 1 /\ i' = i /\ pc' = "submit"
      BY <1>1, <2>2 DEF Advance
    <3>2. NumStreams' = NumStreams /\ NumStreams \in Int
      <4>1. NumStreams \in 1..slots
        BY <1>1, <1>2, PieceLength DEF NumStreams, Place, NumStreamBatches
      <4> QED BY <1>1, <1>2, <3>1, <4>1, Same
    <3>3. ChannelIdx' = P + 1
      <4> DEFINE o == i * slots
      <4>1. o \in Nat /\ P = o + s
        BY <1>0, <1>2, MulPositive DEF ChannelIdx
      <4>2. ChannelIdx' = o + (s + 1)
        BY <1>1, <3>1 DEF ChannelIdx
      <4> HIDE DEF o
      <4> QED BY <1>2, <4>1, <4>2
    <3>4. Place'
      BY <1>1, <1>2, <1>9, <2>2, <3>1, <3>2 DEF Place, Working
    <3> QED BY <2>1, <3>1, <3>3, <3>4 DEF Pos
  <2>3. s + 1 = NumStreams \/ s + 1 < NumStreams
    <3>1. s \in 0..(NumStreams - 1)
      BY <1>1 DEF Place
    <3>2. NumStreams \in Int
      <4>1. NumStreams \in 1..slots
        BY <1>1, <1>2, PieceLength DEF NumStreams, Place, NumStreamBatches
      <4> QED BY <1>2, <4>1
    <3> QED BY <3>1, <3>2
  <2>4. CASE s + 1 = NumStreams /\ i + 1 < NumStreamBatches
    <3>1. s' = 0 /\ i' = i + 1 /\ pc' = "submit"
      <4>1. ~(s + 1 < NumStreams)
        BY <1>2, <2>4
      <4> QED BY <1>1, <2>4, <4>1 DEF Advance
    <3>2. ChannelIdx' = P + 1
      <4>1. (i + 1) * slots = P + 1 /\ (i + 1) * slots \in Nat
        BY <1>0, <1>1, <1>2, <2>4, Counts
      <4>2. ChannelIdx' = (i + 1) * slots + 0
        BY <1>1, <3>1 DEF ChannelIdx
      <4> QED BY <4>1, <4>2
    <3>3. NumStreams' \in 1..slots
      <4>1. NumStreams' = Length(NumChannels, i + 1, slots)
        BY <1>1, <1>9, <3>1 DEF NumStreams
      <4>2. i + 1 \in 0..(NumStreamBatches - 1) /\ NumChannels \in Nat \ {0}
            /\ slots \in Nat \ {0}
        BY <1>2, <2>4
      <4> QED BY <4>1, <4>2, PieceLength DEF NumStreamBatches
    <3>4. i' \in 0..(NumStreamBatches' - 1) /\ s' \in 0..(NumStreams' - 1)
      <4>1. NumStreamBatches' = NumStreamBatches
        BY <1>9
      <4>2. i + 1 \in 0..(NumStreamBatches - 1)
        BY <1>2, <2>4
      <4>3. 0 \in 0..(NumStreams' - 1)
        <5> DEFINE n == NumStreams'
        <5>1. n \in 1..slots /\ slots \in Nat
          BY <1>2, <3>3
        <5> HIDE DEF n
        <5>2. 0 \in 0..(n - 1)
          BY <5>1
        <5> QED BY <5>2 DEF n
      <4> QED BY <3>1, <4>1, <4>2, <4>3
    <3>5. Place'
      BY <1>1, <1>9, <3>1, <3>4 DEF Place, Working
    <3> QED BY <2>1, <3>1, <3>2, <3>5 DEF Pos
  <2>5. CASE s + 1 = NumStreams /\ ~(i + 1 < NumStreamBatches)
    <3>1. s' = 0 /\ i' = i /\ pc' = "sync"
      <4>1. ~(s + 1 < NumStreams)
        BY <1>2, <2>5
      <4> QED BY <1>1, <2>5, <4>1 DEF Advance
    <3>2. i + 1 = NumStreamBatches
      BY <1>1, <1>2, <2>5 DEF Place
    <3>3. P + 1 = NumChannels
      BY <1>0, <1>1, <2>5, <3>2, Counts
    <3>4. Place'
      BY <1>1, <1>2, <1>9, <3>1 DEF Place, Working
    <3> QED BY <1>9, <2>1, <3>1, <3>3, <3>4 DEF Pos
  <2> QED BY <2>2, <2>3, <2>4, <2>5
<1> DEFINE cur2 == [cur EXCEPT ![r] = P]
           at2  == [at EXCEPT ![r] = 1]
<1>12. /\ cur2 \in [Streams -> Chans] /\ at2 \in [Streams -> 1..7]
       /\ cur2[r] = P /\ at2[r] = 1
       /\ \A u \in Streams : u # r => cur2[u] = cur[u] /\ at2[u] = at[u]
       /\ \A u \in Streams : cur[u] \in Chans
  BY <1>2
<1> HIDE DEF cur2, at2
<1>13. ASSUME NEW u \in Streams PROVE At(u, cur2[u], at2[u])'
  <2>1. At(u, cur[u], at[u])
    BY <1>3 DEF Pipe
  <2>2. CASE u # r
    <3> DEFINE k == at[u]
               c == cur[u]
    <3>1. k \in 1..4 /\ Len(queue[u]) = 4 - k /\ LastOp(u)' = 3
      BY <1>9, <2>1, <2>2 DEF At
    <3>2. queue'[u] = queue[u] /\ UNCHANGED <<dev, data, slots>>
      BY <1>1, <1>8, <2>2
    <3>3. ASSUME NEW j \in 1..Len(queue[u]) PROVE queue[u][j] = Script(c, k + j - 1)'
      <4>1. k + j - 1 \in 1..3
        BY <3>1
      <4>2. queue[u][j] = Script(c, k + j - 1)
        BY <2>1 DEF At
      <4> QED BY <1>9, <4>1, <4>2
    <3>4. k <= 3 => u < slots /\ c < Pos' /\ data[c] = Form(c, "raw")
      <4>1. k <= 3 => u < slots /\ c < P /\ data[c] = Form(c, "raw")
        BY <1>11, <2>1 DEF At
      <4>2. c \in Int /\ P \in Int
        BY <1>2, <1>12 DEF Chans
      <4> QED BY <1>11, <4>1, <4>2
    <3>5. At(u, c, k)
      BY <2>1
    <3> HIDE DEF x, y, z
    <3>6. \A j \in 1..Len(queue'[u]) : queue'[u][j] = Script(c, k + j - 1)'
      BY <3>2, <3>3
    <3>7. UNCHANGED <<dev, data, slots, call>> /\ (k <= 3 => c < Pos')
      BY <1>1, <3>2, <3>4
    <3>8. 3 \in {3, 6} /\ LastOp(u)' = 3 /\ Len(queue'[u]) = 3 + 1 - k
      BY <3>1, <3>2
    <3> HIDE DEF q
    <3>9. At(u, c, k)'
      BY <3>1, <3>5, <3>6, <3>7, <3>8, AtStays
    <3> QED BY <1>12, <2>2, <3>9
  <2>3. CASE u = r
    <3>1. Len(queue'[r]) = 3 /\ LastOp(r)' = 3
      <4> HIDE DEF q
      <4> QED BY <1>2, <1>7, <1>8, <1>9
    <3>2. ASSUME NEW j \in 1..3 PROVE q[j] = Script(P, 1 + j - 1)
      <4>1. 1 + j - 1 = j
        OBVIOUS
      <4>2. CASE j = 1
        BY <1>5, <1>7, <4>1, <4>2 DEF Script
      <4>3. CASE j = 2
        BY <1>7, <4>1, <4>3 DEF Script
      <4>4. CASE j = 3
        BY <1>7, <4>1, <4>4 DEF Script
      <4> QED BY <4>2, <4>3, <4>4
    <3>3. \A j \in 1..3 : queue'[r][j] = Script(P, 1 + j - 1)'
      <4>1. \A j \in 1..3 : 1 + j - 1 \in 1..3
        OBVIOUS
      <4>2. \A j \in 1..3 : Script(P, 1 + j - 1)' = Script(P, 1 + j - 1)
        BY <1>9, <4>1
      <4> HIDE DEF q
      <4> QED BY <1>8, <3>2, <4>2
    <3>4. r < slots
      <4>1. s \in 0..(NumStreams - 1) /\ NumStreams \in 1..slots
        BY <1>1, <1>2, PieceLength DEF NumStreams, Place, NumStreamBatches
      <4> QED BY <1>2, <4>1
    <3>5. P < Pos' /\ data'[P] = Form(P, "raw")
      <4>1. data[P] = Form(P, "raw")
        BY <1>2, <1>3, <1>11 DEF Pipe
      <4> QED BY <1>1, <1>2, <1>11, <4>1
    <3>6. Holds(r, P, "raw")'
      <4>1. dev' = dev /\ Form(P, "raw")' = Form(P, "raw")
        BY <1>1, <1>9
      <4> QED BY <1>5, <4>1 DEF Holds
    <3> HIDE DEF q
    <3>7. LastOp(r)' + 1 = 4 /\ 1 \in 1..4 /\ LastOp(r)' + 1 - 1 = 3
      BY <3>1
    <3>8. ASSUME NEW k, k = 1 PROVE At(r, P, k)'
      <4>1. slots' = slots /\ Form(P, "raw")' = Form(P, "raw")
        BY <1>1, <1>9
      <4> QED BY <3>1, <3>3, <3>4, <3>5, <3>6, <3>7, <3>8, <4>1 DEF At
    <3> QED BY <1>12, <2>3, <3>8
  <2> QED BY <2>2, <2>3
<1>14. \A u, v \in Streams : u # v /\ at2[u] <= 3 /\ at2[v] <= 3 => cur2[u] # cur2[v]
  <2>1. \A u \in Streams : u # r /\ at[u] <= 3 => cur[u] # P
    <3>1. ASSUME NEW u \in Streams, at[u] <= 3 PROVE cur[u] < P
      BY <1>3, <1>11, <3>1 DEF Pipe, At
    <3>2. \A u \in Streams : cur[u] \in Int
      BY <1>12 DEF Chans
    <3> QED BY <1>2, <3>1, <3>2
  <2>2. \A u, v \in Streams : u # v /\ at[u] <= 3 /\ at[v] <= 3 => cur[u] # cur[v]
    BY <1>3 DEF Pipe
  <2> QED BY <1>12, <2>1, <2>2
<1>15. ASSUME NEW c \in Chans, c < P + 1
       PROVE  data[c].stage = "filtered" \/ \E u \in Streams : at2[u] <= 3 /\ cur2[u] = c
  <2>1. CASE c = P
    BY <1>2, <1>12, <2>1
  <2>2. CASE c # P
    <3>1. c < P
      BY <1>2, <1>15, <2>2 DEF Chans
    <3>2. data[c].stage = "filtered" \/ \E u \in Streams : at[u] <= 3 /\ cur[u] = c
      BY <1>3, <1>11, <3>1 DEF Pipe
    <3> QED BY <1>5, <1>12, <3>2
  <2> QED BY <2>1, <2>2
<1>16. \A c \in Chans : P + 1 <= c /\ c < NumChannels => data[c] = Form(c, "raw")
  <2>1. \A c \in Chans : P <= c /\ c < NumChannels => data[c] = Form(c, "raw")
    BY <1>3, <1>11 DEF Pipe
  <2>2. \A c \in Chans : P + 1 <= c => P <= c
    BY <1>2 DEF Chans
  <2> QED BY <2>1, <2>2
<1>17. pc' = "sync" => \A u \in Streams : ~(u < s')
  BY <1>11 DEF Streams
<1> HIDE DEF x, y, z
<1>18. Pipe(cur2, at2)'
  BY <1>1, <1>9, <1>11, <1>13, <1>14, <1>15, <1>16, <1>17 DEF Pipe
<1>19. Piped'
  BY <1>12, <1>18 DEF Piped
<1> QED BY <1>10, <1>11, <1>19 DEF Inv

\* A stream that has been waited for has nothing ahead.
LEMMA SyncAt ==
  ASSUME Inv, Synchronize, NEW cur \in [Streams -> Chans], NEW at \in [Streams -> 1..7],
         Pipe(cur, at)
  PROVE  s \in Streams /\ \A t \in Streams : t < s \/ t = s => at[t] = 4
<1>1. /\ pc = "sync" /\ queue[s] = <<>> /\ Working
  BY DEF Synchronize, Working
<1>2. s \in Streams
  BY <1>1, Counts DEF Inv
<1>3. queue[s] \in Seq(Ops)
  BY <1>2 DEF Inv, Typed
<1>4. Len(queue[s]) = 0
  BY <1>1, <1>3, EmptyAt
<1>5. at[s] = 4
  <2>1. At(s, cur[s], at[s]) /\ LastOp(s) = 3
    BY <1>1, <1>2 DEF Pipe, LastOp, WaitedFor
  <2> QED BY <1>4, <2>1 DEF At
<1> QED BY <1>1, <1>2, <1>5 DEF Pipe

\* When all streams have been waited for, all channels are filtered.
LEMMA AllDone ==
  ASSUME Inv, Synchronize, ~(s + 1 < Waited)
  PROVE  /\ \A t \in Streams : queue[t] = <<>>
         /\ \A c \in Chans : c < NumChannels => data[c].stage = "filtered"
<1>1. pc = "sync" /\ Working
  BY DEF Synchronize, Working
<1>2. PICK cur \in [Streams -> Chans], at \in [Streams -> 1..7] : Pipe(cur, at)
  BY <1>1 DEF Inv, Piped
<1>3. s \in 0..(slots - 1) /\ slots \in Nat /\ s + 1 >= slots
  BY <1>1, Counts DEF Inv, Place, Waited
<1>4. ASSUME NEW t \in Streams PROVE at[t] = 4
  <2>1. At(t, cur[t], at[t]) /\ LastOp(t) = 3 /\ at[t] \in 1..7
    BY <1>1, <1>2 DEF Pipe, LastOp, WaitedFor
  <2>2. CASE t < s \/ t = s
    BY <1>2, <2>2, SyncAt
  <2>3. CASE ~(t < s \/ t = s)
    <3>1. ~(t < slots)
      BY <1>3, <2>3 DEF Streams
    <3> QED BY <2>1, <3>1 DEF At
  <2> QED BY <2>2, <2>3
<1>5. ASSUME NEW t \in Streams PROVE queue[t] = <<>>
  <2>1. At(t, cur[t], 4) /\ LastOp(t) = 3
    BY <1>1, <1>2, <1>4 DEF Pipe, LastOp, WaitedFor
  <2>2. Len(queue[t]) = 0
    BY <2>1 DEF At
  <2>3. queue[t] \in Seq(Ops)
    BY DEF Inv, Typed
  <2> QED BY <2>2, <2>3, EmptyIsShort
<1>6. ASSUME NEW c \in Chans, c < NumChannels PROVE data[c].stage = "filtered"
  BY <1>1, <1>2, <1>4, <1>6 DEF Pipe, Pos
<1> QED BY <1>5, <1>6

LEMMA SynchronizeInv == ASSUME Inv, Synchronize PROVE Inv'
<1>1. /\ pc = "sync" /\ Working /\ Typed /\ Place
      /\ UNCHANGED <<job, fit, slots, call, i, sum, queue, dev, data>>
  BY DEF Synchronize, inputs, Working, Inv
<1>2. CASE s + 1 < Waited
  <2>1. s' = s + 1 /\ pc' = pc
    BY <1>2 DEF Synchronize
  <2>2. PICK cur \in [Streams -> Chans], at \in [Streams -> 1..7] : Pipe(cur, at)
    BY <1>1 DEF Inv, Piped
  <2>3. UNCHANGED NumChannels /\ UNCHANGED Pos
    BY <1>1, <2>1, Same DEF Pos
  <2>4. Typed'
    BY <1>1, <2>1 DEF Typed
  <2>5. s \in 0..(slots - 1) /\ slots \in Nat /\ slots \in 1..MaxStreams /\ call # 0
    BY <1>1, Counts DEF Place
  <2>6. Place'
    BY <1>1, <1>2, <2>1, <2>5 DEF Place, Working, Waited
  <2>7. ASSUME NEW t \in Streams PROVE At(t, cur[t], at[t])'
    <3>1. At(t, cur[t], at[t]) /\ LastOp(t) = 3 /\ LastOp(t)' = 3
      BY <1>1, <2>1, <2>2 DEF Pipe, LastOp, WaitedFor
    <3>2. at[t] \in 1..4 /\ Len(queue'[t]) = 3 + 1 - at[t]
      BY <1>1, <3>1 DEF At
    <3>3. ASSUME NEW j \in 1..Len(queue'[t])
          PROVE  queue'[t][j] = Script(cur[t], at[t] + j - 1)'
      <4>1. at[t] + j - 1 \in 1..3
        BY <3>2
      <4>2. queue[t][j] = Script(cur[t], at[t] + j - 1)
        BY <1>1, <3>1 DEF At
      <4>3. ASSUME NEW c, NEW k \in 1..3 PROVE Script(c, k)' = Script(c, k)
        BY <1>1 DEF Script, Op, Form
      <4> QED BY <1>1, <4>1, <4>2, <4>3
    <3>4. at[t] <= 3 => cur[t] < Pos'
      BY <2>3, <3>1 DEF At
    <3>5. 3 \in {3, 6}
      OBVIOUS
    <3> QED BY <1>1, <3>1, <3>2, <3>3, <3>4, <3>5, AtStays
  <2>8. \A t \in Streams : t < s' => at[t] = 4
    <3>1. \A t \in Streams : t < s \/ t = s => at[t] = 4
      BY <2>2, SyncAt
    <3>2. \A t \in Streams : t < s + 1 => t < s \/ t = s
      BY <2>5 DEF Streams
    <3> QED BY <2>1, <3>1, <3>2
  <2>9. \A c : Form(c, "raw")' = Form(c, "raw")
    BY <1>1 DEF Form
  <2>10. Pipe(cur, at)'
    BY <1>1, <2>1, <2>2, <2>3, <2>7, <2>8, <2>9 DEF Pipe
  <2>11. Piped'
    BY <2>2, <2>10 DEF Piped
  <2> QED BY <2>4, <2>6, <2>11 DEF Inv
<1>3. CASE ~(s + 1 < Waited)
  <2>1. pc' = "ready"
    BY <1>3 DEF Synchronize
  <2>2. Typed'
    BY <1>1, <2>1 DEF Typed
  <2>3. \A t \in Streams : queue'[t] = <<>>
    BY <1>1, <1>3, AllDone
  <2>4. slots' \in 1..MaxStreams
    BY <1>1 DEF Place
  <2> QED BY <2>1, <2>2, <2>3, <2>4, RestInv
<1> QED BY <1>2, <1>3

LEMMA NextInv == ASSUME Inv, [Next]_vars PROVE Inv'
<1>1. CASE UNCHANGED vars
  <2>1. UNCHANGED <<job, fit, pc, slots, call, i, s, sum, queue, dev, data>>
    BY <1>1 DEF vars, inputs
  <2>2. Typed'
    BY <2>1 DEF Inv, Typed
  <2>3. UNCHANGED <<NumChannels, NumStreamBatches, NumStreams, ChannelIdx>>
    BY <2>1, Same
  <2>4. Place' /\ Working' = Working
    BY <2>1, <2>3 DEF Inv, Place, Working
  <2>5. Piped' = Piped
    BY <2>1, <2>3 DEF Piped, Pipe, At, Holds, Form, Script, Op, LastOp, WaitedFor, Pos
  <2> QED BY <2>2, <2>4, <2>5 DEF Inv
<1> QED BY <1>1, Init1Inv, BeginInv, CopyInInv, CopyBackInv, SynchronizeInv, DestroyInv,
  CudaErrorInv, DeviceInv DEF Next, Host

-----------------------------------------------------------------------------
(* The theorems.                                                           *)

\* Outside of Process_batch no stream has anything left to do: synchronising
\* all streams, also those that the last stream batch did not use, is enough.
THEOREM NeverPending == Spec => []NothingPending
<1>1. Inv => NothingPending
  BY DEF Inv, Place, NothingPending
<1> QED BY InitInv, NextInv, <1>1, PTL DEF Spec

\* A channel number that is handed to a stream lies in the caller's buffer.
LEMMA IndexFits == ASSUME Inv, pc \in {"submit", "reduce"} PROVE ChannelIdx \in Chans
BY Counts DEF Inv, Working

LEMMA BInit == Init => B!Init
<1> SUFFICES ASSUME Init PROVE B!Init
  OBVIOUS
<1> QED BY DEF Init, B!Init, Raw, B!Raw, Chans, B!Chans

LEMMA BNext == ASSUME Inv, [Next]_vars PROVE [B!Next]_B!vars
<1> DEFINE state == CASE pc \in {"init", "ready"} -> "idle"
                      [] pc \in {"submit", "reduce", "sync"} -> "busy"
                      [] OTHER -> "gone"
           n == IF call = 0 THEN 0 ELSE NumChannels
<1>1. /\ pc \in {"init", "ready"} => state = "idle"
      /\ pc \in {"submit", "reduce", "sync"} => state = "busy"
      /\ pc \in {"done", "failed"} => state = "gone"
      /\ pc' \in {"init", "ready"} => state' = "idle"
      /\ pc' \in {"submit", "reduce", "sync"} => state' = "busy"
      /\ pc' \in {"done", "failed"} => state' = "gone"
      /\ call # 0 => n = NumChannels
  OBVIOUS
<1>2. ASSUME UNCHANGED <<job, call>> PROVE UNCHANGED n
  BY <1>2 DEF NumChannels, ChannelsOf, NumBatches, PerBatch
<1> HIDE DEF state, n
<1>3. ASSUME UNCHANGED <<state, call, n, data>> PROVE [B!Next]_B!vars
  BY <1>3 DEF B!vars, state, n
<1>4. ASSUME state # "gone", state' = "gone", UNCHANGED <<call, n, data>> PROVE B!Next
  <2>1. B!Leave
    BY <1>4 DEF B!Leave, state, n
  <2> QED BY <2>1 DEF B!Next
<1>5. CASE Init1
  <2>1. pc = "init" /\ pc' \in {"ready", "failed"} /\ UNCHANGED <<job, call, data>>
    BY <1>5 DEF Init1, inputs
  <2> QED BY <1>1, <1>2, <1>3, <1>4, <2>1
<1>6. CASE Begin
  <2> DEFINE m == ChannelsOf(call')
  <2>1. /\ pc = "ready" /\ pc' = "submit" /\ call' = call + 1 /\ call' # 0
        /\ data' = [c \in Chans |-> IF c < m THEN Raw(call', c) ELSE data[c]]
        /\ UNCHANGED job /\ call \in Nat /\ call' \in Nat \ {0}
    BY <1>6 DEF Begin, inputs, Inv, Typed
  <2>2. m \in 1..NumChans
    BY <2>1, ChannelsOfBatch DEF Inv
  <2>3. n' = m
    <3>1. NumChannels' = m
      BY <2>1 DEF NumChannels, ChannelsOf, NumBatches, PerBatch
    <3> QED BY <2>1, <3>1 DEF n
  <2>4. state = "idle" /\ state' = "busy"
    BY <1>1, <2>1
  <2> HIDE DEF m
  <2>5. data' = [c \in B!Chans |-> IF c < m THEN B!Raw(call', c) ELSE data[c]]
    BY <2>1 DEF Chans, B!Chans, Raw, B!Raw
  <2>6. B!Begin(m)
    BY <2>1, <2>3, <2>4, <2>5 DEF B!Begin, state, n
  <2> QED BY <2>2, <2>6 DEF B!Next
<1>7. CASE CopyIn \/ CopyBack
  <2>1. /\ pc \in {"submit", "reduce", "sync"} /\ pc' \in {"submit", "reduce", "sync"}
        /\ UNCHANGED <<job, call, data>>
    BY <1>7 DEF CopyIn, CopyBack, Advance, inputs
  <2> QED BY <1>1, <1>2, <1>3, <2>1
<1>8. CASE Synchronize
  <2>1. pc = "sync" /\ UNCHANGED <<job, call, data>>
    BY <1>8 DEF Synchronize, inputs
  <2>2. CASE s + 1 < Waited
    <3>1. pc' = pc
      BY <1>8, <2>2 DEF Synchronize
    <3> QED BY <1>1, <1>2, <1>3, <2>1, <3>1
  <2>3. CASE ~(s + 1 < Waited)
    <3>1. pc' = "ready" /\ state = "busy" /\ state' = "idle"
      BY <1>1, <1>8, <2>1, <2>3 DEF Synchronize
    <3>2. n = NumChannels
      BY <1>1, <2>1 DEF Inv, Place, Working
    <3>3. \A c \in B!Chans : c < n => data[c].stage = "filtered"
      BY <1>8, <2>3, <3>2, AllDone DEF Chans, B!Chans
    <3>4. UNCHANGED <<call, n, data>>
      BY <1>2, <2>1
    <3>5. B!Return
      BY <3>1, <3>3, <3>4 DEF B!Return, state, n
    <3> QED BY <3>5 DEF B!Next
  <2> QED BY <2>2, <2>3
<1>9. CASE Destroy
  <2>1. pc = "ready" /\ pc' = "done" /\ UNCHANGED <<job, call, data>>
    BY <1>9 DEF Destroy, inputs
  <2> QED BY <1>1, <1>2, <1>4, <2>1
<1>10. CASE CudaError
  <2>1. /\ pc \in {"init", "ready", "submit", "reduce", "sync"} /\ pc' = "failed"
        /\ UNCHANGED <<job, call, data>>
    BY <1>10 DEF CudaError, inputs
  <2> QED BY <1>1, <1>2, <1>4, <2>1
<1>11. ASSUME NEW t \in Streams, Device(t) PROVE [B!Next]_B!vars
  <2>1. Working
    BY <1>11 DEF Device, Inv, Typed, Place, Working
  <2>2. PICK cur \in [Streams -> Chans], at \in [Streams -> 1..7] : Pipe(cur, at)
    BY <2>1 DEF Inv, Piped
  <2>3. /\ UNCHANGED <<job, pc, slots, call>> /\ Effect(t, cur[t], at[t])
    BY <1>11, <2>2, DeviceStep
  <2>4. UNCHANGED state /\ state = "busy" /\ n = NumChannels
    BY <1>1, <2>1, <2>3 DEF Working, Inv, Place
  <2>5. CASE at[t] # 3
    BY <1>2, <1>3, <2>3, <2>4, <2>5 DEF Effect
  <2>6. CASE at[t] = 3
    <3> DEFINE c == cur[t]
    <3>1. /\ data' = [data EXCEPT ![c] = Form(c, "filtered")] /\ c \in Chans
          /\ c < Pos /\ data[c] = Form(c, "raw")
      BY <2>2, <2>3, <2>6 DEF Effect, Pipe, At
    <3>2. c < n
      <4>1. Pos <= NumChannels /\ Pos \in Int /\ NumChannels \in Int
        BY <2>1, Counts DEF Pos, Inv
      <4>2. c \in Int
        BY <3>1 DEF Chans
      <4> QED BY <2>4, <3>1, <4>1, <4>2
    <3> HIDE DEF c
    <3>3. B!Filtered(data[c]) = Form(c, "filtered") /\ data[c].stage = "raw"
      BY <3>1 DEF B!Filtered, Form
    <3>4. UNCHANGED <<state, call, n>>
      BY <1>2, <2>3, <2>4
    <3>5. data' = [data EXCEPT ![c] = B!Filtered(data[c])]
      BY <3>1, <3>3
    <3>6. B!Filter(c)
      BY <2>4, <3>2, <3>3, <3>4, <3>5 DEF B!Filter, state, n
    <3>7. c \in B!Chans
      BY <3>1 DEF Chans, B!Chans
    <3> QED BY <3>6, <3>7 DEF B!Next
  <2> QED BY <2>5, <2>6
<1>12. CASE UNCHANGED vars
  <2>1. UNCHANGED <<pc, job, call, data>>
    BY <1>12 DEF vars, inputs
  <2>2. UNCHANGED state
    BY <2>1 DEF state
  <2> QED BY <1>2, <1>3, <2>1, <2>2
<1> QED BY <1>5, <1>6, <1>7, <1>8, <1>9, <1>10, <1>11, <1>12 DEF Next, Host

\* The GPU implements Baseline for any number of streams and channels: each
\* channel of a batch is replaced once, by the filtered form of itself, all of
\* them before Process_batch returns, and nothing else in the caller's buffer
\* changes, in whatever order the streams work and wherever CUDA fails.
THEOREM Implements == Spec => BaselineSpec
<1> QED BY InitInv, NextInv, BInit, BNext, PTL DEF Spec, BaselineSpec, B!Spec
=============================================================================
