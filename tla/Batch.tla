------------------------------- MODULE Batch -------------------------------
(***************************************************************************)
(* mkfb in batch mode, down to the words it copies: the MakeFilterbank     *)
(* constructor, ProcessDirectory over the listed .dada files, and          *)
(* Do2ProcessDadaFile, whose parallel loop has one thread per filterbank   *)
(* file.  The main thread reads a spectrum of all files into mInBuf; thread *)
(* f reorders its slice into its slice of mOutBuf and writes the channels  *)
(* of file f; the main thread goes on when every thread is done.           *)
(*                                                                         *)
(* Sizes are counted in 16-bit words.  Word w of spectrum s of the k-th    *)
(* .dada file is the triple <<k, s, w>>; the byte order and the conversion  *)
(* to float do not change which word a value stands for.                   *)
(***************************************************************************)
EXTENDS Integers, Sequences, FiniteSets

CONSTANTS
  NumFils,      \* filterbank files, mConf.Filterbanks.size()
  NumChannels,  \* channels per file in a spectrum, mConf.NumChannels
  HeaderWords,  \* words of the DADA header (512 * 8 / 2)
  Wrap,         \* size_t arithmetic is modulo Wrap
  SizeArgs,     \* the listings: sequences of file sizes, in name order
  RangeArgs,    \* configured <<StartChannelIdx, EndChannelIdx>>
  SkipArgs, NumArgs, FlipArgs, \* --skip, --num, and the FLIP instantiation
  Failing,      \* whether a write may fail
  Stale         \* the content of memory that was never written

Fils     == 0..(NumFils - 1)
SpecSize == NumFils * NumChannels
Words    == 0..(SpecSize - 1)
Stride   == 4
Part     == NumChannels \div Stride

ASSUME BatchAssumption ==
  /\ NumFils \in Nat \ {0} /\ NumChannels \in Nat \ {0} /\ HeaderWords \in Nat
  /\ Wrap \in Nat \ {0} /\ Failing \in BOOLEAN /\ FlipArgs \subseteq BOOLEAN
  /\ SkipArgs \subseteq Nat /\ NumArgs \subseteq Nat
  /\ SizeArgs \subseteq Seq(0..(Wrap - 1)) /\ RangeArgs \subseteq Int \X Int

VARIABLES
  sizes, ranges, flip, skip, num,  \* the directory, configuration, arguments
  start, numChans,  \* mStart and mNumChans of each file
  pc,               \* where the main thread is
  k,                \* the .dada file it is at, counted from 0
  numSpec, s,       \* spectra in that file and the one being copied
  inBuf, outBuf,    \* mInBuf and mOutBuf
  tpc,              \* where each thread of the parallel loop is
  fil,              \* the words written to each filterbank file
  durable           \* how many of them HardFlush has forced to disk

inputs == <<sizes, ranges, flip, skip, num>>
vars == <<inputs, start, numChans, pc, k, numSpec, s, inBuf, outBuf, tpc,
          fil, durable>>

-----------------------------------------------------------------------------
\* A configured channel range counts if both ends lie in the spectrum;
\* otherwise the file gets all channels.
ValidRange(r) == r[1] \in 0..(NumChannels - 1) /\ r[2] \in 0..(NumChannels - 1)
StartOf(r)    == IF ValidRange(r) THEN r[1] ELSE 0
NumOf(r)      == IF ValidRange(r) THEN r[2] - r[1] + 1 ELSE NumChannels

\* The constructor; a range that ends before it starts is refused.
Construct ==
  /\ pc = "construct"
  /\ start' = [f \in Fils |-> StartOf(ranges[f])]
  /\ numChans' = [f \in Fils |-> NumOf(ranges[f])]
  /\ pc' = IF \E f \in Fils : numChans'[f] <= 0 THEN "failed" ELSE "list"
  /\ UNCHANGED <<inputs, k, numSpec, s, inBuf, outBuf, tpc, fil, durable>>

\* An empty directory ends the run before any output is made; otherwise the
\* outputs are created empty.
ListDirectory ==
  /\ pc = "list"
  /\ pc' = IF sizes = <<>> THEN "closed" ELSE "next"
  /\ UNCHANGED <<inputs, start, numChans, k, numSpec, s, inBuf, outBuf, tpc,
       fil, durable>>

LesserOf(a, b) == IF a < b THEN a ELSE b
End_NumOnly == \* a slip: the skipped files count as processed
  LesserOf(Len(sizes), IF num > 0 THEN num ELSE Len(sizes))
End == LesserOf(Len(sizes), IF num > 0 THEN skip + num ELSE Len(sizes))

SkipFile_Stays == \* a slip: the index does not advance
  /\ pc = "next" /\ k < End /\ k < skip
  /\ k' = k
  /\ UNCHANGED <<inputs, start, numChans, pc, numSpec, s, inBuf, outBuf, tpc,
       fil, durable>>

SkipFile ==
  /\ pc = "next" /\ k < End /\ k < skip
  /\ k' = k + 1
  /\ UNCHANGED <<inputs, start, numChans, pc, numSpec, s, inBuf, outBuf, tpc,
       fil, durable>>

\* Every file is done: the outputs are closed.
CloseSigProcFiles ==
  /\ pc = "next" /\ k >= End
  /\ pc' = "closed"
  /\ UNCHANGED <<inputs, start, numChans, k, numSpec, s, inBuf, outBuf, tpc,
       fil, durable>>

\* Words after the header, in size_t, and the spectra in them.
DataWords(sz)   == (sz - HeaderWords) % Wrap
SpectraOf(sz)   == DataWords(sz) \div SpecSize
WholeSpectra(sz) == SpectraOf(sz) * SpecSize = DataWords(sz)

\* Do2ProcessDadaFile takes the size of the file and checks it.
OpenFile ==
  /\ pc = "next" /\ k < End /\ k >= skip
  /\ numSpec' = SpectraOf(sizes[k + 1]) /\ s' = 0
  /\ pc' = IF WholeSpectra(sizes[k + 1]) THEN "read" ELSE "failed"
  /\ UNCHANGED <<inputs, start, numChans, k, inBuf, outBuf, tpc, fil, durable>>

\* The words spectrum n of the file really has: past the end of the file
\* read() leaves the buffer as it is.
Present(n, w) == HeaderWords + n * SpecSize + w < sizes[k + 1]

Read ==
  /\ pc = "read" /\ s < numSpec
  /\ inBuf' = [w \in Words |-> IF Present(s, w) THEN <<k, s, w>> ELSE inBuf[w]]
  /\ pc' = "parallel" /\ tpc' = [f \in Fils |-> "convert"]
  /\ UNCHANGED <<inputs, start, numChans, k, numSpec, s, outBuf, fil, durable>>

\* Thread f: word 4i + p of its slice is channel p * Part + i, counted from
\* the top of the band when FLIP.
Off(f) == f * NumChannels
Cells  == (0..(Stride - 1)) \X (0..(Part - 1))
InIdx_FlipPart(c) == \* a slip: only the position within the part is flipped
  IF flip THEN c[1] * Part + (Part - 1 - c[2]) ELSE c[1] * Part + c[2]
InIdx(c) == IF flip THEN NumChannels - 1 - (c[1] * Part + c[2])
            ELSE c[1] * Part + c[2]

Convert(f) ==
  /\ pc = "parallel" /\ tpc[f] = "convert"
  /\ outBuf' = [w \in Words |->
       IF \E c \in Cells : w = Off(f) + InIdx(c)
       THEN LET c == CHOOSE d \in Cells : w = Off(f) + InIdx(d)
            IN  inBuf[Off(f) + Stride * c[2] + c[1]]
       ELSE outBuf[w]]
  /\ tpc' = [tpc EXCEPT ![f] = "write"]
  /\ UNCHANGED <<inputs, start, numChans, pc, k, numSpec, s, inBuf, fil,
       durable>>

\* The first n channels of file f's slice of mOutBuf.
OutWords(f, n) == [i \in 1..n |-> outBuf[Off(f) + start[f] + i - 1]]

Write(f) ==
  /\ pc = "parallel" /\ tpc[f] = "write"
  /\ fil' = [fil EXCEPT ![f] = @ \o OutWords(f, numChans[f])]
  /\ tpc' = [tpc EXCEPT ![f] = "joined"]
  /\ UNCHANGED <<inputs, start, numChans, pc, k, numSpec, s, inBuf, outBuf,
       durable>>

\* A short write throws inside the parallel region, which ends the process
\* wherever the other threads are.
WriteFails(f) ==
  /\ Failing /\ pc = "parallel" /\ tpc[f] = "write"
  /\ \E n \in 0..(numChans[f] - 1) :
       fil' = [fil EXCEPT ![f] = @ \o OutWords(f, n)]
  /\ pc' = "failed"
  /\ UNCHANGED <<inputs, start, numChans, k, numSpec, s, inBuf, outBuf, tpc,
       durable>>

\* The barrier at the end of the parallel loop.
Join_First == \* a slip: the loop does not wait for every thread
  /\ pc = "parallel" /\ \E f \in Fils : tpc[f] = "joined"
  /\ s' = s + 1 /\ pc' = "read"
  /\ UNCHANGED <<inputs, start, numChans, k, numSpec, inBuf, outBuf, tpc, fil,
       durable>>
Join ==
  /\ pc = "parallel" /\ \A f \in Fils : tpc[f] = "joined"
  /\ s' = s + 1 /\ pc' = "read"
  /\ UNCHANGED <<inputs, start, numChans, k, numSpec, inBuf, outBuf, tpc, fil,
       durable>>

\* The file is copied: every output is flushed, one after the other.
HardFlush ==
  /\ pc = "read" /\ s >= numSpec
  /\ durable' = [f \in Fils |-> Len(fil[f])]
  /\ k' = k + 1 /\ pc' = "next"
  /\ UNCHANGED <<inputs, start, numChans, numSpec, s, inBuf, outBuf, tpc, fil>>

Init ==
  /\ sizes \in SizeArgs /\ ranges \in [Fils -> RangeArgs]
  /\ flip \in FlipArgs /\ skip \in SkipArgs /\ num \in NumArgs
  /\ start = [f \in Fils |-> 0] /\ numChans = [f \in Fils |-> 0]
  /\ pc = "construct" /\ k = 0 /\ numSpec = 0 /\ s = 0
  /\ inBuf = [w \in Words |-> Stale] /\ outBuf = [w \in Words |-> Stale]
  /\ tpc = [f \in Fils |-> "joined"]
  /\ fil = [f \in Fils |-> <<>>] /\ durable = [f \in Fils |-> 0]

Main == \/ Construct \/ ListDirectory \/ SkipFile \/ CloseSigProcFiles
        \/ OpenFile \/ Read \/ Join \/ HardFlush
Thread(f) == Convert(f) \/ Write(f) \/ WriteFails(f)

Next == Main \/ \E f \in Fils : Thread(f)

\* The main thread and the threads of the loop are scheduled.
Spec == /\ Init /\ [][Next]_vars
        /\ WF_vars(Main) /\ \A f \in Fils : WF_vars(Thread(f))

-----------------------------------------------------------------------------
(* Properties.                                                             *)

\* The spectra the run is to copy, and how many of them come before a given
\* one.
Wanted == {q \in (0..(Len(sizes) - 1)) \X (0..Wrap) :
             /\ skip <= q[1] /\ (num > 0 => q[1] < skip + num)
             /\ HeaderWords + (q[2] + 1) * SpecSize <= sizes[q[1] + 1]}
Rank(q) == Cardinality({r \in Wanted :
             r[1] < q[1] \/ (r[1] = q[1] /\ r[2] < q[2])})

\* The word of a spectrum that holds channel c of file f: the four streams
\* of Part channels are interleaved word by word.
Source(f, c) == LET d == IF flip THEN NumChannels - 1 - c ELSE c
                IN  Off(f) + Stride * (d % Part) + (d \div Part)

\* Whatever the order of the threads and wherever the run stops, word i of a
\* filterbank file is the right channel of the right spectrum: no slice was
\* written before it was converted, or converted from a buffer that already
\* held another spectrum (lines 472-500).
Deinterleaved ==
  \A f \in Fils : \A i \in DOMAIN fil[f] :
    LET c == start[f] + ((i - 1) % numChans[f])
        v == fil[f][i]
    IN  /\ v # Stale
        /\ v[3] = Source(f, c)
        /\ <<v[1], v[2]>> \in Wanted
        /\ Rank(<<v[1], v[2]>>) = (i - 1) \div numChans[f]

\* The filterbank files of one observation stay in step: at any moment, and
\* also after a failed write, they hold the same number of whole spectra or
\* differ by the one being written.
InStep ==
  pc \in {"next", "read", "parallel", "failed"} /\ numChans # [f \in Fils |-> 0]
  => \A f, g \in Fils : numChans[f] > 0 /\ numChans[g] > 0 =>
       Len(fil[f]) \div numChans[f] <= Len(fil[g]) \div numChans[g] + 1

\* A run that ends regularly has copied every wanted spectrum to every file
\* and left nothing in the page cache.
CompleteWhenClosed ==
  pc = "closed" => \A f \in Fils :
    /\ Len(fil[f]) = numChans[f] * Cardinality(Wanted)
    /\ durable[f] = Len(fil[f])

\* Threads and main thread never wait for each other forever.
Ends == <>(pc \in {"closed", "failed"})

\* "File '...' does not contain an integer number of spectra" (line 460): a
\* file that is read holds the header and the number of spectra found.
NoPhantomSpectra ==
  pc = "read" => sizes[k + 1] = HeaderWords + numSpec * SpecSize
=============================================================================
