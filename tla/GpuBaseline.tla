---------------------------- MODULE GpuBaseline ----------------------------
(***************************************************************************)
(* BaselineRemover on a GPU.  The host hands channel after channel to a     *)
(* number of CUDA streams, each with a buffer on the device that is used    *)
(* again for every stream batch.  A stream does its operations one after   *)
(* the other, the streams and the host run side by side, and the host       *)
(* waits twice: for the mean of a channel, and for all streams at the end. *)
(*                                                                         *)
(* The caller's buffer holds values [call, chan, stage], as in Baseline; on *)
(* the device there are also Stale memory, Zeros and Garbage, what a filter *)
(* makes of an input that is not a centred, padded channel.                *)
(***************************************************************************)
EXTENDS Integers, Sequences, Batches

CONSTANTS
  NumChans,   \* most channels of a file; a batch has no more
  MaxStreams, \* most streams (32)
  JobArgs,    \* files [nchans, nifs], and how many channels a batch may hold
  FitArgs,    \* how many buffers and plans the free memory may hold
  Stale, Zeros, Garbage

ASSUME GpuBaselineAssumption ==
  /\ NumChans \in Nat \ {0} /\ MaxStreams \in Nat \ {0} /\ FitArgs \subseteq Nat
  /\ JobArgs \subseteq [nchans : 1..NumChans, nifs : Nat \ {0}, hold : 1..NumChans]

VARIABLES
  job, fit,    \* the file and the buffer, the free memory of the device
  pc,          \* where the host is
  slots,       \* Stream_batch_size
  call,        \* number of the call to Process_batch
  i, s,        \* stream batch and stream
  sum,         \* what thrust::reduce returns
  queue,       \* the operations waiting in each stream
  dev,         \* the device buffer of each stream
  data         \* the caller's buffer

inputs == <<job, fit>>
vars == <<inputs, pc, slots, call, i, s, sum, queue, dev, data>>

Streams == 0..(MaxStreams - 1)
Chans   == 0..(NumChans - 1)

\* What the caller's buffer holds, and what is on the device besides.
Signals == [call : Nat, chan : Chans, stage : {"raw", "centred", "filtered"}]
ASSUME NamesDiffer == \A v \in {Stale, Zeros, Garbage} : v \notin Signals

Raw(k, c) == [call |-> k, chan |-> c, stage |-> "raw"]
IsChannel(v, stage) == v \notin {Stale, Zeros, Garbage} /\ v.stage = stage

-----------------------------------------------------------------------------
(* The host.                                                               *)

\* GPU_Init: as many streams as fit; none is an error.
Init1 ==
  /\ pc = "init"
  /\ slots' = LesserOf(LesserOf(fit, job.nchans), MaxStreams)
  /\ pc' = IF slots' = 0 THEN "failed" ELSE "ready"
  /\ UNCHANGED <<inputs, call, i, s, sum, queue, dev, data>>

\* DoProcess goes through all batches for each IF, and puts batch after batch
\* into its buffer.
PerBatch    == BatchSize(job.hold, 1, job.nchans)
NumBatches  == NumPieces(job.nchans, PerBatch)
ChannelsOf(k) == Length(job.nchans, (k - 1) % NumBatches, PerBatch)
NumChannels == ChannelsOf(call)

Begin ==
  /\ pc = "ready" /\ call < job.nifs * NumBatches
  /\ call' = call + 1 /\ i' = 0 /\ s' = 0 /\ pc' = "submit"
  /\ data' = [c \in Chans |-> IF c < ChannelsOf(call') THEN Raw(call', c) ELSE data[c]]
  /\ UNCHANGED <<inputs, slots, sum, queue, dev>>

NumStreamBatches == NumPieces(NumChannels, slots)
NumStreams       == Length(NumChannels, i, slots)
ChannelIdx_Short == i * NumStreams + s \* a slip: by the streams of this batch
ChannelIdx       == i * slots + s

Op(name, c, mean) == [op |-> name, chan |-> c, mean |-> mean]
Submit(ops) == queue' = [queue EXCEPT ![s] = @ \o ops]

\* The buffer is cleared, the channel copied in, and its sum asked for.
CopyIn ==
  /\ pc = "submit"
  /\ Submit(<<Op("clear", ChannelIdx, Zeros), Op("copyIn", ChannelIdx, Zeros),
              Op("reduce", ChannelIdx, Zeros)>>)
  /\ pc' = "reduce"
  /\ UNCHANGED <<inputs, slots, call, i, s, sum, dev, data>>

\* To the next stream, to the next stream batch, or to the end of both loops.
Advance_SameBatch == \* a slip: the stream batch is not counted
  IF s + 1 < NumStreams THEN s' = s + 1 /\ i' = i /\ pc' = "submit"
  ELSE IF i + 1 < NumStreamBatches THEN s' = 0 /\ i' = i /\ pc' = "submit"
  ELSE s' = 0 /\ i' = i /\ pc' = "sync"
Advance ==
  IF s + 1 < NumStreams THEN s' = s + 1 /\ i' = i /\ pc' = "submit"
  ELSE IF i + 1 < NumStreamBatches THEN s' = 0 /\ i' = i + 1 /\ pc' = "submit"
  ELSE s' = 0 /\ i' = i /\ pc' = "sync"

\* The sum has come: the rest of the work on the channel is queued.
CopyBack ==
  /\ pc = "reduce" /\ queue[s] = <<>>
  /\ Submit(<<Op("subtract", ChannelIdx, sum), Op("filter", ChannelIdx, Zeros),
              Op("copyBack", ChannelIdx, Zeros)>>)
  /\ Advance
  /\ UNCHANGED <<inputs, slots, call, sum, dev, data>>

\* Every stream is waited for, also those the last stream batch did not use.
Waited_LastBatch == NumStreams \* a slip: only the streams used last
Waited           == slots

Synchronize ==
  /\ pc = "sync" /\ queue[s] = <<>>
  /\ IF s + 1 < Waited THEN s' = s + 1 /\ pc' = pc
     ELSE s' = 0 /\ pc' = "ready"
  /\ UNCHANGED <<inputs, slots, call, i, sum, queue, dev, data>>

\* The destructor, after the last batch.
Destroy ==
  /\ pc = "ready" /\ call = job.nifs * NumBatches /\ pc' = "done"
  /\ UNCHANGED <<inputs, slots, call, i, s, sum, queue, dev, data>>

\* An error of CUDA, in the constructor, at work or in the destructor, ends the
\* process (CUCHK calls exit).
CudaError ==
  /\ \/ pc \in {"init", "submit", "reduce", "sync"}
     \/ pc = "ready" /\ call = job.nifs * NumBatches
  /\ pc' = "failed"
  /\ UNCHANGED <<inputs, slots, call, i, s, sum, queue, dev, data>>

-----------------------------------------------------------------------------
(* The device.  The transforms and the filter work in place on the whole    *)
(* buffer: the padding must be clear before, and is not clear after.       *)

Change(t, signal, clean) == dev' = [dev EXCEPT ![t] = [signal |-> signal, clean |-> clean]]

Clear(t) == Change(t, Zeros, TRUE) /\ UNCHANGED <<sum, data>>

CopyChannel(t, o) ==
  /\ Change(t, data[o.chan], dev[t].clean) /\ UNCHANGED <<sum, data>>

Reduce(t) == sum' = dev[t].signal /\ UNCHANGED <<dev, data>>

Subtract(t, o) ==
  LET v == dev[t].signal IN
  /\ Change(t, IF IsChannel(v, "raw") /\ o.mean = v
               THEN [v EXCEPT !.stage = "centred"] ELSE Garbage, dev[t].clean)
  /\ UNCHANGED <<sum, data>>

HighPass(t) ==
  LET v == dev[t].signal IN
  /\ Change(t, IF IsChannel(v, "centred") /\ dev[t].clean
               THEN [v EXCEPT !.stage = "filtered"] ELSE Garbage, FALSE)
  /\ UNCHANGED <<sum, data>>

CopyOut(t, o) ==
  /\ data' = [data EXCEPT ![o.chan] = dev[t].signal] /\ UNCHANGED <<sum, dev>>

Device(t) ==
  /\ pc # "failed" /\ queue[t] # <<>>
  /\ queue' = [queue EXCEPT ![t] = Tail(@)]
  /\ LET o == Head(queue[t]) IN
     \/ o.op = "clear" /\ Clear(t)
     \/ o.op = "copyIn" /\ CopyChannel(t, o)
     \/ o.op = "reduce" /\ Reduce(t)
     \/ o.op = "subtract" /\ Subtract(t, o)
     \/ o.op = "filter" /\ HighPass(t)
     \/ o.op = "copyBack" /\ CopyOut(t, o)
  /\ UNCHANGED <<inputs, pc, slots, call, i, s>>

-----------------------------------------------------------------------------
Init ==
  /\ job \in JobArgs /\ fit \in FitArgs
  /\ pc = "init" /\ slots = 0 /\ call = 0 /\ i = 0 /\ s = 0 /\ sum = Zeros
  /\ queue = [t \in Streams |-> <<>>]
  /\ dev = [t \in Streams |-> [signal |-> Stale, clean |-> FALSE]]
  /\ data = [c \in Chans |-> Raw(0, c)]

Host == Init1 \/ Begin \/ CopyIn \/ CopyBack \/ Synchronize \/ Destroy

Next == Host \/ CudaError \/ \E t \in Streams : Device(t)

\* The host is a running thread, and a stream does what it is given.
Spec == /\ Init /\ [][Next]_vars
        /\ WF_vars(Host) /\ \A t \in Streams : WF_vars(Device(t))

-----------------------------------------------------------------------------
(* Properties.                                                             *)

\* Whatever the order in which the streams work, the GPU does what Baseline
\* promises: each channel of the batch is replaced once, by the filtered form
\* of itself, all of them before Process_batch returns, and the rest of the
\* caller's buffer is left alone.
B == INSTANCE Baseline WITH
       state <- CASE pc \in {"init", "ready"} -> "idle"
                  [] pc \in {"submit", "reduce", "sync"} -> "busy"
                  [] OTHER -> "gone",
       count <- call,
       n <- IF call = 0 THEN 0 ELSE NumChannels

BaselineSpec == B!Spec

\* When Process_batch has returned no stream has anything left to do: the
\* caller may write to its buffer again, and the destructor may free the
\* buffers of the device.
NothingPending ==
  pc \in {"ready", "done"} => \A t \in Streams : queue[t] = <<>>

\* Every batch is finished: host and streams never wait for each other forever.
Finishes == <>(pc \in {"done", "failed"})
=============================================================================
