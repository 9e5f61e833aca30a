# TLA+ verification of filterbank_utils

`filterbank_utils` turns the recordings of a radio telescope into filterbank
files. Two programs do the work: `mkfb` splits raw `.dada` recordings into
filterbank files, one per polarisation and band, either from a complete directory
(*batch*) or while the recorder is still writing (*monitor*); `prepfil` processes a
filterbank file (averaging, bandpass, baseline, RFI mask, barycentring) or edits
its header. Observations cannot be repeated, files are tens of gigabytes, jobs run
for hours and are killed and started again; what must be right is *which sample
ends up where, and what is on the disk when*. That is what these modules are about.
The arithmetic on a sample's value is not modelled.

Line numbers below are those of `src/filterbank_utils/src` unless a path is given.

## 1. Inventory

| component | state it keeps | operations | interacts with |
|---|---|---|---|
| `MakeFilterbank`, monitor mode | counters and the name of the last file, the file watched, its last size and unchanged polls; nothing survives a restart | `MonitorDirectory`, `GetDadaFilesInDir`, `MakeSigProcFiles`, `DoProcessDadaFile` | the recorder through the input directory; the clock; its outputs |
| `MakeFilterbank`, batch mode | channel ranges, position in the listing, `mInBuf`, `mOutBuf`, the open outputs | constructor, `ProcessDirectory`, `Do2ProcessDadaFile` with an OpenMP loop | its own threads through the two buffers |
| `SigProcUtil` | the command's parameters, one batch of channels, `kill_idxs`, the output in progress | `DoProcess`, `GetBatches`, `ModifyHeader`, `BufferSize` | `SigProc`, `RFIMask`, `Barycenter`, `BaselineRemover` |
| `SigProc` | a file descriptor, the header, its size, settled when the file is opened | open, create at final size, read and write channels, flush, close | the file system; other processes that have the file open |
| `SigProcHeader` | the header's fields | `Read`, `Write`, `Data_size`, `Get_output_size` | `SigProc` |
| `RFIMask` | three tables | the constructor | `DoProcess` |
| `Barycenter` | `mDiffbins` | the constructor, `DoBarycenterCorrection` | TEMPO (external), `DoProcess` |
| `BaselineRemover` (CPU, GPU) | FFT plans, device buffers, one stream per slot | `Process_batch` | `DoProcess`, the GPU |
| `mkfb` | command line, configuration, scans, the scan it is at | `main`, `ProcessScan` | `MakeFilterbank`, once for each scan |
| `MakeFilterbankConfig` | the configuration, with defaults | `Read`, `FromPB` | `ProcessScan`, which fills a copy up |
| `ScanFile` | a map from scan number to scan | constructor, `Scan::OutDir` | `ProcessScan` |
| `PulsarCatalog` | a map from name to position | constructor, look-up | `ProcessScan` |
| `utils` | none | `MakeMJD`, `ToUpper`, comparisons for the tests | `ScanFile`, `MakeFilterbank` |

**What is hard here.** The monitor guesses from sizes, polled once a second, that
a file is complete, and finds the next file by comparing an index with a count
(*interleaving, timeouts*). It is restarted without memory and truncates its outputs
(*crash recovery*). The threads of the copy loop share buffers with the main
thread (*interleaving*), and any write may fail (*partial failure*). `prepfil` cuts its
work three ways, by channels, by time and by copied bytes, each with a short last
piece (*boundaries*), gives the result its name before it is flushed (*power
failures*), and lets one step rely on what another did (*protocol*). A filterbank file may
be open in three processes at once, none of which locks it: `mkfb` appends to it or starts it again, one reads it, one
changes its header (*stale state*). `mkfb` merges four sources into one header per scan and
has no handler for an exception in one of many scans (*partial failure*). The lengths
given to `memcpy` come from four counters (*numeric edges*). `PROJECT.json` lists each
hazard at its line, with the properties that would catch it.

**What makes each component correct.**

- Monitor: only whole, closed files reach an output, in order, without gaps and
  none twice, across restarts; nothing is missed; it gives up only for a reason.
- Batch: every output word is the right channel of the right spectrum whatever
  the schedule; the files of an observation stay in step; a regular end means
  everything was copied and flushed.
- prepfil: the name of the output means a whole file; when prepfil ends well, each
  place of the output holds the samples that belong there, processed as asked, and
  is on the disk; buffers fit into the memory allowed.
- BaselineRemover: a batch's channels are filtered once each, before `Process_batch` returns,
  whatever the order in which the GPU's streams run.
- SigProc: an opened file is read to the end of the length found at the open, each value from its
  own place, also while the file grows; an edit in place changes neither data nor length.
- mkfb: the output of a scan holds the files of that scan, under the header of that scan, and
  stays as it is once the scan is done, whatever becomes of the later ones.
- Barycenter: bins are added and left out at the diffbins and nowhere else, and no
  copy leaves its buffers.

## 2. Modules

| module | models | state and actions |
|---|---|---|
| `Monitor` | `MonitorDirectory` and what it calls, the recorder, the clock, crashes | the locals of `MonitorDirectory` under their own names; `pc` is where its loop is. One action per branch of the loop: `NothingNew`, `Pick`, `PickThrows`, `SizeSame`, `SizeGrown`, `SizeThrows`, `SkipFile`, `OpenFile`, `OpenThrows`, `FinishFile`. The recorder: `Create`, `Extend`, `Close`; others: `Remove`, `Truncate`; `Tick` is one second; `Crash` and `Restart` |
| `Archive` | what `mkfb` promises a reader of its outputs | an archive is begun empty and then only grows, in name order; `Monitor` implements it (`ArchiveSpec`) |
| `Batch` | the constructor, `ProcessDirectory`, `Do2ProcessDadaFile` | a main thread (`Construct` ... `HardFlush`) and a thread per output (`Convert`, `Write`, `WriteFails`); the data are words named by file, spectrum and position |
| `Batches` | `GetBatches`, the loops over batches and chunks | operators |
| `RfiMask` | the constructor of `RFIMask` | operators |
| `Prepfil` | `main` of `prepfil`, `DoProcess`, `ModifyHeader`, creation, renaming and flushing of files | one action per stage (`Create`, `MeasureChunk`, `KillChannels`, `ProcessBatch`, `WriteSample`, `Publish`, `CloseOutput`; `EditInPlace`, `StartCopy`, `CopyChunk`, `PublishCopy`, `CloseEdited`), per error exit, and `Kill`, `PowerFailure`, `Rerun` |
| `Baseline` | what `Process_batch` promises, and the CPU's loop | `Begin`, `Filter` of one channel, `Return`; `GpuBaseline` implements it (`BaselineSpec`) |
| `GpuBaseline` | `GPU_Init`, `GPU_Process_batch`, the CUDA streams | the host: `Init1` (`GPU_Init`), `Begin`, then for each channel `CopyIn` and, once the sum is there, `CopyBack`; `Synchronize`, `Destroy`, `CudaError`; a stream: `Device`, one queued operation |
| `SigProcFile` | `SigProc` and `SigProcHeader` opening a file, `GetChannels`, `GetData`, `ModifyHeader` in place; `mkfb` writing it | the writer: `Truncate`, `WriteHeader`, `WriteValue`, `CloseFile`, `WriterDies`; a process that opens it: `OpenFile`, `ReadHeader`, `CheckSize`; the reader: `ReadSample`, `NextBatch`, `ReadAll`; the editor: `Compare`, `RewriteHeader`; `LibraryCall` sets an `errno` |
| `Scans` | `MakeMJD`, `ScanFile`, `PulsarCatalog`, `FromPB`, the merging in `ProcessScan`, the header in `MakeSigProcFiles` | operators |
| `Mkfb` | `main`, `ProcessScan` and `ProcessDirectory` over whole files | one action per stage: `Main`, `BeginScan`, `ListDirectory`, `Create`, `Skip`, `ProcessFile`, `CloseSigProcFiles`, `AllDone`; the error exit `NoSuchScan`; the recorder's `Arrive`; `Crash`, `Rerun` |
| `BaryBins` | the constructor of `Barycenter` | operators, a sum over points as a recursive function |
| `Barycenter` | `DoBarycenterCorrection` | the code's loops flattened: `Read`, `FirstPart`, `AddBin`, `RemoveBin`, `RestPart`, `NextBlock`, `Pad`; the variables keep their names |

`Prepfil` composes `Batches` and `RfiMask`; `GpuBaseline` and `SigProcFile` use `Batches` for the batches they work on;
`Mkfb` composes the parsers of `Scans` with the loop over files; `MCBarycenter` feeds `Barycenter` with
diffbins made by `BaryBins`. `MCMonitor`, `MCBatch`, `MCPrepfil`, `MCGpuBaseline`, `MCBarycenter`, `MCSigProcFile` and `MCMkfb` are
the instances for TLC, the modules named `Xxx_proofs` hold the theorems about `Xxx` (section 4). Operators named `Xxx_Yyy` stand before the definition `Xxx` they vary:
each is a plausible slip in that piece of code, and the property it is paired with in
`PROJECT.json` fails when the slip replaces the definition.

### Abstractions

- *Monitor.* Sizes are blocks; a file is a header and spectra of fixed size.
  Unsigned arithmetic is kept (`% Wrap`). An empty prefix argument may pick up the prefix of any
  entry, since a directory is listed in no particular order. A file
  is copied in one step (`Batch` has the steps), except that a crash may leave part
  of it. `Tick` may happen while the monitor is busy: it can oversleep a poll, not
  undersleep one.
- *Batch.* A word of a spectrum is its coordinates; byte order and conversion
  do not change which word a value stands for. Memory that was never written holds `Stale`.
- *Prepfil.* A value is the set of input samples it is made of and the set of steps
  that changed it. Which channels stand out of the bandpass is chosen: any set of at most
  `MaxOutliers`. `Meminfo` and the memory options are replaced by the buffer they
  lead to. Barycentring is one of the shifts it can make (`drop` bins left out at the start);
  `Barycenter` has the rest. The `.bandpass` text file is left out. A file has
  two contents, what processes see and what is on the disk; `fsync` makes them equal,
  and a power failure keeps the disk's version of no value, of one, or of all, and of the header or not.
  That a rename itself may be lost is not modelled: it leaves the state of a
  crash just before it. When a write fails, the exception ends the process without being caught: whether the destructor, and its `fsync`,
  still runs is left open (`WriteFails`). A bandpass asked for has at least one sample.
- *GpuBaseline.* A channel is named by the call it belongs to, its number and how far it has come: raw,
  centred, filtered. What is made of a buffer whose padding is not clear, or with the mean of another
  channel, is `Garbage`. Every operation given to a stream is taken to be asynchronous except
  `thrust::reduce`, which returns a value; where the library waits longer than that, it only has fewer
  interleavings. Constructor and destructor are one step each; like the work between them they can fail at any call and end the process (`CudaError`).
- *SigProcFile.* Sizes are in values. The o-th value written by the g-th run of `mkfb` is `<<g, o>>`. A header has the fields
  that decide how the data are read, and remembers which run's header it is. `mkfb`'s writes become visible value by value; the
  header's 2 kB are one write. A header names at least one IF and one channel. Products of sizes are taken in `size_t` and counts in `int`, both modulo small numbers.
- *Scans, Mkfb.* A line of a file is a record; a name is an identity and whether it is in upper case. Minutes and seconds are left
  out: a date has an hour. Sample times are whole nanoseconds. An angle that does not match the catalogue's regular expression is 0, as none. The outputs of one observation are one output, as `Batch` has shown them to
  stay in step. A directory is listed in one step, and the recorder adds files at any moment. Where `--monitor` begins, `Mkfb` ends
  and `Monitor` goes on.
- *Barycenter.* A sample is named by its index. The constructor's doubles are
  integers in quarters of a sample, its rounding is kept.

## 3. Runs

| run | question | bounds, and why they suffice |
|---|---|---|
| `monitor_tidy` | with a recorder that writes in order and stalls at most 3 s: only whole files, contiguous, no throw, stops when asked, handles every file | 3 files of up to one spectrum (first, middle, last), the code's 5 polls, one crash or restart; `--skip` 0, 1 and `--num` 0, 2; given or empty prefix |
| `monitor_wild` | with late, removed, truncated and stalled files: outputs stay in name order, implement `Archive`, and no late file is passed over while nothing is removed | 3 files, one fault, 1 poll: the polls only delay, and the stall fault lets a file be taken at any time anyway |
| `monitor_cleanup` | are files processed as they appear if processed ones are tidied away? (violated) | 2 files, 1 removal |
| `batch` | right words, in step, complete, ends; every interleaving and a failing write | 2 outputs of 8 channels (2 per stride of 4, so a flip within a stride shows), listings with no, one and three files, empty ones and a torn one; full, inner, last-channel and inverted ranges |
| `batch_short` | does the size check refuse a file shorter than the header? (violated) | all sizes up to the header |
| `prepfil` | published files are whole, a good end is durable, right samples in the right places, each counted once in the bandpass, buffers fit | 3 inputs (one and two IFs, 2 to 5 channels, a short last batch, padded and foreign headers), 27 command lines (among them an average of no samples and a bandpass and a baseline of negative length), buffers of 2, 4, 6 and 20 floats (none, one, two and all channels), chunks and copies with leftovers, one kill or power failure anywhere, then a second run |
| `prepfil_mask` | is a channel the mask kills really zero? (violated) | mask only |
| `sigproc_file` | reads what belongs there, to the end; the length holds while the file grows; an edit leaves data and length alone; the reader ends | files that `mkfb` writes, up to 2 runs and 2 spectra of 1 or 2 channels, read by channels or at once, in batches of 1 and 2, with and without an editor; 9 files of other programs (number of samples right, too small, too large, negative or missing, 2 IFs, a time series, other types and widths, a shorter header) and one that an earlier run of `mkfb` left, writable or not; an `errno` set by a call that succeeded |
| `mkfb` | own files, own header, past scans complete and left alone, every run ends | 20 command lines: scans in any order, a number twice, two numbers for one start, a blank line, a line that is no scan, catalogue with a name twice, one with a declination that is no angle, broken and missing catalogue, configurations with fields set, unset, negative; `--skip`, `--num`, `--scan-num`; three directories, two files that arrive, a bad file, a crash anywhere, a second run |
| `catalog_sign` | is the declination the catalogue's? (violated) | a pulsar less than a degree south of the equator |
| `gpu_baseline` | is each channel filtered once and in its place before the call returns, is no stream left busy, does the host come back? | up to 4 streams and 7 channels: rounds of all streams and a short last one, fewer channels than streams, batches of 3, 3 and 1, a second IF; device memory for 0, 1, 2, 3 or plenty of buffers; a CUDA error anywhere |
| `barycenter` | memory-safe, correct, and room for every diffbin | 0 to 11 samples, blocks of 2 and up to 4, all drifts that grow by 5/4 of a sample after any set of points, in either direction: diffbins at block edges, two in a block, on the last sample and beyond |

Each violated run is a disagreement between the code and what one of its comments,
messages or data files says; `PROJECT.json` quotes both. Four more were met while reading and are not runs of their own:

- `MakeFilterbank.cpp:280` says the file "has not changed in the last 5 seconds". The fifth unchanged poll is followed by a second of
  sleep before the file is processed, in which it may grow, and a file that is empty when picked counts as unchanged from its first
  poll. The model has both; `Tidy` (section 4) is the condition under which it does not matter.
- `SigProcUtil.cpp:582` renames the output before `prepfil` flushes it: after a power failure a file of that name may hold zeros.
  `PublishedWhole` therefore speaks of what processes see, `DoneIsDurable` of the disk.
- `SigProcUtil.cpp:211` divides by the batch size before anything looks whether it is zero, so that too little memory ends in an arithmetic exception
  instead of a message.
- `SigProcUtil.cpp:425` raises the argument of the smoothing kernel to at least 100 with `std::max`, where an upper limit of 100 would keep
  `exp` from vanishing: all channels nearby get the same weight instead of a Gaussian's. Floating point, not modelled.

`Corrected` asks for a file of at least one block: of a shorter one
`DoBarycenterCorrection` copies nothing (a block has `worklen = 0` samples) and the channel becomes
zero, which the model shows but no text of the repository rules out. `DiffbinsFit` is about drifts that do not turn
round: one that does crosses more bins than there is room for.
`OutputRight` leaves open what a mask means for averaged data and for a mask alone, and says nothing of
files read by others before prepfil ends.
`ReadToTheEnd` and `EditKeepsLength` name what they leave out: a header that an editor took from an older run, a call that leaves `errno`
set, a file read in one call of more than 2 GB, and a file that grows between the editor's comparison and its write.
`HeaderOfScan` compares dates with a count of days written down separately, and leaves declinations of less than a degree to `catalog_sign`.

Deadlock is checked for the monitor runs (a second can always pass).
The other programs stop when they are done, and their runs do not check it.

### Fairness

- `Monitor`: `WF(Monitoring)`, since it is a process with nothing to wait for but the clock;
  `WF(Tick)`, since time passes; `WF(Writes(f))` for each file, since a recorder that opened a
  file extends and closes it in the end; `WF(Restart)`, since in this scenario a died monitor is
  started again. Creation of files, faults and crashes are never forced.
- `Batch`: weak fairness of the main thread and of each OpenMP thread, which the
  operating system schedules. A failing write is one of a thread's steps and not forced.
- `GpuBaseline`: weak fairness of the host's thread and of each stream, which the device runs as long as it has work.
- `SigProcFile`: weak fairness of the reader, a process with nothing to wait for. Neither `mkfb` nor the editor has to go on.
- `Mkfb`: weak fairness of the process. Arrivals, crashes and further runs are not forced; a crash ends the run.
- `Prepfil` and `Barycenter` are sequential and only checked for safety.

## 4. Proofs

TLAPS proves the following for every value of the constants that
satisfies the modules' assumptions.

**`Monitor_proofs`**: every safety property of `Monitor`, in two parts. *Whatever recorder, intruder and crashes do*:
`TypeCorrect`. `AlwaysInOrder`: every output lists files of its prefix in strictly increasing order. `InOrder`
alone is not inductive: that the next file is above all in the output holds
because the file being read is the monitored one, which sorts after the last
one processed, which is the last in the output; and because the output is that of
the prefix the process is bound to (`OrderInv`). `PickSkipsNothingHolds`: with nothing removed, a picked file has exactly the handled files below it.
Counting suffices because the handled files are as many as
`numProcessed` and all among the files below the picked one (`CountInv`), and two finite sets of
which one contains the other are equal if they have as many elements.
`Implements`: `Monitor` implements `Archive`. Each action maps to a step of the archive or to none; `OpenInv` adds to `OrderInv` that
nothing is open before a first file and that the file a header names is not above what is processed.

*With a tidy recorder* (assumption `Tidy`: only crashes, and an open file never stalls
longer than `StablePolls - 2` seconds): `OnlyWholeFiles`: the invariant bounds
the unchanged polls by the seconds the file has been silent (`CountBounded`), with one more for a file
that was picked while empty, as `lastSize` starts at 0 and its first poll already counts as
unchanged. Hence the margin of two and not of one. `TidyNeverThrows`: none of the monitor's error
exits is reachable; its invariant says that files appear without gaps and
that the first unhandled one is the next in order (`NothingMissed`). `AlwaysContiguous` and `AlwaysExitsWithRequested`
rest on it: the file that is picked is the one whose number is one more than the files handled (`OneByOne`), the output holds as many as were processed
(`OpenCounted`), and the handled files are the first so many of their prefix (`StopInv`).

**`Batch_proofs`** (assumption `WellFormed`: the channels are a multiple of the stride of 4, every file has its header, and the name
for unwritten memory is no word. The code checks neither of the first two; `batch_short` shows what happens without the second).
`AlwaysDeinterleaved`, `AlwaysInStep`, `AlwaysCompleteWhenClosed`: the safety of the copy loop for any number of outputs, channels, files and
spectra and any order of the threads. The invariant says, for each place of the main thread, how many whole spectra each output holds: the
rank of the spectrum being copied among all wanted ones, and one more if the thread is through (`Lengths`); what is in the buffers (`Buffers`); and that each word is
right (`Contents`). The lemmas are about ranks (the next spectrum, the next file, behind the last), about the loop's index, which is a bijection
of cells and channels in either direction (`CellRight`, `CellUnique`), and about slices that do not overlap (`Apart`).

**`GpuBaseline_proofs`**. `NeverPending`: no stream is left with work when `Process_batch` returns. `Implements`: `GpuBaseline`
implements `Baseline`, for any shape of file, free memory, number of streams, and order in which they run. A stream goes through a script of six operations; the invariant says how far each
stream is, what its buffer holds there (`At`), and that each channel handed out is filtered or in the script of exactly one stream (`Pipe`).

**`SigProcFile_proofs`**. `TypeCorrect`, and `AlwaysDataIntact`: an edit in place never touches a value, for files of any program and whatever
the writer does. That is not obvious: `mkfb` may truncate the file between the editor's comparison and its write. It holds because
the header of the file is then one of `mkfb`'s own length, as the compared one was (`Compared`).
`AlwaysLengthHolds` is proved for sizes that do not wrap (`SizesFit`, which TLC evaluates for the run's scenarios; in the code a
`size_t` has 64 bits and the number of samples 32, so it takes 2^30 channels to break it). Its invariant (`Lengths`) says of each `SigProc` that it is of an
earlier run than the file, or that the file has its header's length and at least its data (`SoundIn`), and that while `mkfb` has
written no header any header in the file is an editor's, of the length `mkfb` is about to write.

`AlwaysReadRight` adds what the reader has so far (`SoFar`): the samples before the place it is at, batch by batch, each with the value the file had
there, of the run it opened or, if `mkfb` was started again, of a later one. That each comes from its own place rests on `SampleAt` and `Offset` being inverse to each other.
`AlwaysReadToTheEnd` says when the check of the length cannot fail. It needs in addition that the header of a file of `mkfb` never tells of more samples than are there
(`Kept`), that an editor that writes has last seen the header it replaces (`Seen`), and what a reader that fails can have met: a later run or a header of an earlier one (`Excused`); `EditsKeepLength` rests on the same. Both assume that the files
of `mkfb` are its own (`MkfbFiles`: what lies there before the first run was left by an earlier one, and fewer spectra than half the range of an `int`), which TLC evaluates for the run's scenarios too.

**`Mkfb_proofs`**: every safety property of `Mkfb`, for any command lines, scan files, catalogues, configurations and directories, any number of
kills and runs. The dates come first. `DayByDay`: the Julian day of `MakeMJD` is one more for each day than for the day before, in every year, across the ends of months, of
February and of years; `Anchored` is a known date. `HoursIs` is the count as a whole: the formula equals a calendar that counts leap years and the days of the months one by
one, by induction over the years and the months. Then what a listing in order is (`Listed`: sorting a finite set gives each of its elements once).

The invariant says where the program is: the scans still to do are the end of the plan, in which none occurs twice (`Planned`); at a scan, prefix,
directory and configuration are that scan's (`AtScan`); the files listed are those of its prefix, among them all that were there when the run began (`AtFiles`);
and what has been copied are the files from `--skip` up to the one it is at (`AtOutput`). `AlwaysOwnFiles` is part of it (`Owned`). `AlwaysDoneStaysDone` needs that the output of
the scan at hand is none of a scan gone through: the plan has no scan twice, and the name of a directory tells its scan (`NowIsNew`, `MadeForScans`).
`AlwaysPastScansComplete` needs the rank of a file among those listed (`RankIs`), since the property counts files of the directory and the code counts places in a listing.
`AlwaysHeaderOfScan` looks at each field: what the configuration leaves unset is filled up from the scan and the catalogue of the command line alone (`FilledIs`, `PulsarIs`, `MergedIs`), and
the header is written from them once, when the first file is known (`CreatedRight`).

Assumptions (`MkfbAssumption`): what argp, the configuration, the scan file and the catalogue can give (`CommandOk`): options that are not given are 0, targets are not empty,
right ascensions have no sign, both as the parsers' `%s` and regular expression demand; and files are named after dates from 2000 on with months and days that exist in some calendar, or have no date.

**`Batches_proofs`**. `BatchFits`: with room for one channel, `GetBatches` returns batches of
one to all channels whose buffers fit. `PiecesPartition`: batches and chunks cover the
work exactly, without overlap. `ChunkFits`: a bandpass chunk fits into the batch's buffer. They rest on
bounds of integer division.

**`Prepfil_proofs`**: every invariant of the passing run, for any file, mask, average, memory and command line and any number of kills, power failures and failing writes.
`AlwaysBuffersFit` lifts the facts about batches to every reachable state. `AlwaysDurable`: when prepfil ends well, the
published file and its disk contents agree. Its invariant (`DurableInv`) adds that a file exists wherever the code takes one for granted, and that a command line that
asks for nothing touches nothing.

`AlwaysPublishedWhole` and `AlwaysOutputRight` rest on `OutInv`. Neither property is inductive: that a renamed file is whole says nothing of the file
before it is renamed. `OutInv` says of the file in progress which places are written (`Done`: the IFs before `f`, the batches before `b`, of the batch in
the buffer the samples before `t`) and that each of these holds what its row holds there (`Written`); of the copy, that what was copied is what the input holds; of a
result, that all of it is right and its header the one asked for (`Result`); of a file edited in place, that its data are still the input's
(`InputKept`). Three groups of lemmas carry it: `SampleAt` and `Offset` are inverse to each other (`SampleAtOffset`, `PositionOfSample`), so a write for one
sample spoils no other (`OffsetInjective`); a row holds what was asked for, step after step (`AveragedRight`, `BaselineRight`, `ZappedIsAsked`, `RowRight`);
and with `PiecesPartition` nothing is left unwritten when `f` is past the last IF. `AlwaysCountedOnce`: after each chunk, counted
is what lies before it and was left by the mask (`Counts`). `TypeCorrect` takes one assumption more, that a mask's table names channels of its file (`MasksName`), which the
class does not check.

Assumptions of the module: headers and command lines are typed, tables of a mask count from zero (`MaskAssumption`; a negative channel would index in front of a vector), and the names
`Zero` and `Hole` are neither values nor headers (`NamesDiffer`).

**`Barycenter_proofs`** (assumptions: the diffbins increase up to one that lies at or beyond the end of the file, which
the constructor's appended `num` provides, and none among the samples follows one beyond them). `AlwaysMemorySafe`: no copy of
`DoBarycenterCorrection` has a negative length or leaves the block or the output, and the diffbin
pointer stays in the vector. Three parts carry it: `Counters`
(`datawrote` is exactly what was read before the block plus what was used of it), `Places`
(what each point of the loop may rely on; at a diffbin `datawrote` equals it), and `Ahead` (the diffbin pointed to is not behind the samples used). While samples are left, `datawrote`
is below `num`, so the current diffbin is not the last one and the next is larger.

`AlwaysCorrected` is the meaning of the loops: the channel that comes out is `Merged`, cut or filled with zeros.
`MergeInv` carries it: at all times `datOut = Merged[datawrote]`, with one average more when it was added ahead of
the sample that comes next (`Right`). That such an average is not added twice needs `OnceAdded` (after it the rest of the
block copies that sample, or the output is full), that it is the average `Merged` means needs `Blocks` (blocks begin at multiples of
`worklen`, only the last may be shorter), and that a copied run holds no diffbin needs `Passed` with `Ahead`. What is behind
the output is unchanged by what follows (`MergedGrows`), so an output that is full before the file ends is right too.

`RoomForDiffbins` is about the constructor alone, and `AlwaysDiffbinsFit` about every case it makes: for any length, step and drift
that starts at zero and does not turn round (`OneWay`), as many diffbins are written as there is room for. Between two points
at most as many half-bins are crossed as the rounded drift grows by (`CrossingsAre`), and these add up to the rounded
drift at the last point, which is what the room is made for. `Merged` and `Found` are recursive functions: that they are
what their equations say is shown by `JoinedAll` and `JoinedUpTo`, by induction over numbers (`SetInduction`, from the order's well-foundedness).

### Only model-checked

- Liveness: `EveryFileHandled`, `Ends` (of `Batch` and of `Mkfb`), `Finishes`, `ReaderEnds`.
- That the constructor's diffbins increase (the assumption of `Barycenter`): TLC evaluates it for the cases of the run. It holds for
  drifts as slow as the Earth makes them and not for every drift, and needs bounds on rounded quotients that are not stated in the code.

## 5. Not modelled

- The floating-point work: FFT baseline removal, bandpass means, smoothing, outlier statistics.
- `SigProcHeader`'s byte format, the text of its fields, and `operator==`, which only the tests use; `SetData`, which nothing
  calls.
- `MakeFilterbankConfig`: the parser is protobuf's, `SetPB` is only used by a test, and fields that are copied into the header untouched
  say nothing about each other.
- Minutes and seconds of times, the wording of messages, `utils`' comparisons (for the tests), the test program, the build.
- A directory that changes while it is being listed: a listing is one step.
- Inputs on which the program has no defined behaviour: a header without `nifs` or `nchans`, or with zero of them (a division by zero at
  `SigProc.cpp:72`), and a scan number of six or more characters, for which the eight bytes of `ScanFile.cpp:17` are too few.
- A `--bandpass` time shorter than one sample: `prepfil` then asks for the processing and `DoProcess` for no bandpass.
- The baseline remover's own memory per channel (`Ram_per_channel`): 0 in both implementations, so `FloatsPerChannel` leaves it out.
- A write that ends within the channels of one sample: `WriteFails` stops between samples. No rename follows either.
- A file cut while it is being copied: `Batch` takes the listing's files as they are (a hazard in `PROJECT.json`).
- TEMPO, CUDA, FFTW, protobuf, the file system and the recorder are external; the last two are modelled
  from how the code uses them.

## 6. Plan

Written in this order, the most important behaviour first: `Monitor` and `Archive`, `Batch`,
`Prepfil` with `Batches` and `RfiMask`, `Barycenter` with `BaryBins`, `GpuBaseline` with `Baseline`, `SigProcFile`, `Scans` and `Mkfb`;
then the proofs, `Monitor` first. All of these are present. What is left:

1. `Batch` with files that are cut while they are copied.
2. That the constructor's diffbins increase, for drifts that gain less than a sample between two points, so that
   `Barycenter`'s assumptions follow from `OneWay` and such a bound.
