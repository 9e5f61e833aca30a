---------------------------- MODULE SigProcFile ----------------------------
(***************************************************************************)
(* A filterbank file and those who have it open at the same time: mkfb,     *)
(* which makes it and appends to it, and may be started again; a reader,    *)
(* which opens it as a SigProc and reads all its channels; and an editor,    *)
(* prepfil changing the header in place, which opens it twice.              *)
(*                                                                         *)
(* Nothing locks the file.  A SigProc settles the number of samples when it *)
(* is opened and relies on it from then on.                                 *)
(*                                                                         *)
(* Sizes are in values of 4 bytes.  The o-th value that the g-th run of     *)
(* mkfb wrote is <<g, o>>.                                                  *)
(***************************************************************************)
EXTENDS Integers, Sequences, Batches

CONSTANTS
  Scenarios,   \* what there is and who does what, see Init
  HeaderLen,   \* length of a header written by SigProcHeader::Write
  SizeWrap,    \* size_t arithmetic is modulo SizeWrap
  IntWrap,     \* and an int holds IntWrap values
  MaxTransfer, \* most values read(2) transfers (2 GB)
  MaxSpectra, MaxRuns, \* bounds: spectra in a file, runs of mkfb
  NoFile, NoHeader, Junk

ASSUME SigProcFileAssumption ==
  /\ HeaderLen \in Nat \ {0} /\ SizeWrap \in Nat \ {0} /\ IntWrap \in Nat \ {0}
  /\ MaxTransfer \in Nat /\ MaxSpectra \in Nat /\ MaxRuns \in Nat

\* A header as it stands in a file: of is the run of mkfb that wrote it.  It has
\* IFs and channels: CheckSize divides by their numbers.
Headers ==
  [type : Nat, bits : Nat, nifs : Nat \ {0}, nchans : Nat \ {0}, nsamples : Int,
   len : Nat, of : Nat]
Values == (Nat \X Nat) \cup {Junk}
Files  == [run : 1..(MaxRuns + 1), hdr : Headers \cup {NoHeader}, data : Seq(Values)]

\* The file that is there at the beginning is one of the first run, and a
\* batch has a channel.
ASSUME ScenariosAssumption == \A x \in Scenarios :
  /\ x.nchans \in Nat \ {0} /\ x.batch \in Nat \ {0}
  /\ x.file # NoFile =>
       x.file \in Files /\ \A o \in DOMAIN x.file.data : x.file.data[o] = <<x.file.run, o - 1>>

ASSUME NamesDiffer ==
  NoFile \notin Files /\ NoHeader \notin Headers /\ Junk \notin Nat \X Nat

Procs == {"reader", "editor"}

VARIABLES
  job,      \* the scenario
  file,     \* [run, hdr, data], or NoFile
  wpc,      \* where mkfb is
  pc, why,  \* where each process is, and why it has failed
  errno,    \* whether the errno of each process is set
  opened,   \* the SigProcs each process has constructed
  i, b, t,  \* the reader: IF, batch of channels, sample
  got       \* what it has read: [time, nif, chan, val]

loop == <<i, b, t, got>>
vars == <<job, file, wpc, pc, why, errno, opened, loop>>

-----------------------------------------------------------------------------
(* The format.                                                             *)

PerSample(h) == h.nifs * h.nchans
SampleAt(h, o) == <<o \div PerSample(h), (o \div h.nchans) % h.nifs, o % h.nchans>>
Offset_Channel(h, n, f, c) == (n * h.nifs + f) * h.nchans \* a slip: no channel
Offset(h, n, f, c) == (n * h.nifs + f) * h.nchans + c

\* What Read makes of a header: a time series has one channel, and no number
\* of samples is -1.
Understood(h) ==
  [h EXCEPT !.nchans = IF h.type = 2 THEN 1 ELSE @,
            !.nsamples = IF @ = 0 THEN -1 ELSE @]
Readable(h) == h # NoHeader /\ h.type \in {1, 2} /\ h.bits = 32

AsInt(x) == LET r == x % IntWrap IN IF 2 * r < IntWrap THEN r ELSE r - IntWrap
Elements(h) == (PerSample(h) * h.nsamples) % SizeWrap
DataSize(h) == IF h.nsamples = -1 THEN 0 ELSE Elements(h)

\* The size of a file, which is empty as long as it has no header.
SizeOf(x) == IF x.hdr = NoHeader THEN 0 ELSE x.hdr.len + Len(x.data)

\* nsamples, for a header that does not tell, is the number of whole spectra;
\* a file cut short since its header was read has a negative size.
WithSamples_Up(h, size) == \* a slip: a spectrum that has begun counts
  IF h.nsamples > 0 THEN h
  ELSE [h EXCEPT !.nsamples =
          AsInt((((size - h.len) % SizeWrap) + PerSample(h) - 1) \div PerSample(h))]
WithSamples(h, size) ==
  IF h.nsamples > 0 THEN h
  ELSE [h EXCEPT !.nsamples = AsInt(((size - h.len) % SizeWrap) \div PerSample(h))]

Short_Unchecked(h, size) == FALSE \* a slip: what the header says is believed
Short(h, size) == size < (DataSize(h) + h.len) % SizeWrap

-----------------------------------------------------------------------------
(* mkfb: the constructor that creates a file whose length is not known, and  *)
(* the writes of Do2ProcessDadaFile.  A write becomes visible in parts.     *)

WriterHeader ==
  [type |-> 1, bits |-> 32, nifs |-> 1, nchans |-> job.nchans, nsamples |-> 0,
   len |-> HeaderLen, of |-> file.run]

LastRun == IF file = NoFile THEN 0 ELSE file.run

Truncate ==
  /\ job.mkfb /\ wpc \in {"new", "dead"} /\ LastRun < MaxRuns
  /\ file' = [run |-> LastRun + 1, hdr |-> NoHeader, data |-> <<>>]
  /\ wpc' = "created"
  /\ UNCHANGED <<job, pc, why, errno, opened, loop>>

WriteHeader ==
  /\ wpc = "created"
  /\ file' = [file EXCEPT !.hdr = WriterHeader] /\ wpc' = "writing"
  /\ UNCHANGED <<job, pc, why, errno, opened, loop>>

WriteValue ==
  /\ wpc = "writing" /\ Len(file.data) < MaxSpectra * job.nchans
  /\ file' = [file EXCEPT !.data = Append(@, <<file.run, Len(@)>>)]
  /\ UNCHANGED <<job, wpc, pc, why, errno, opened, loop>>

\* It ends after a whole spectrum; it is killed, or fails, anywhere.
CloseFile ==
  /\ wpc = "writing" /\ Len(file.data) % job.nchans = 0 /\ wpc' = "closed"
  /\ UNCHANGED <<job, file, pc, why, errno, opened, loop>>

WriterDies ==
  /\ wpc \in {"created", "writing"} /\ wpc' = "dead"
  /\ UNCHANGED <<job, file, pc, why, errno, opened, loop>>

-----------------------------------------------------------------------------
(* The constructor that opens a file.                                       *)

This(p) == opened[p][Len(opened[p])]
Needed(p) == IF p = "reader" THEN 1 ELSE 2

\* Whether it has all the SigProcs it works with.
Ready_OneMore(p) == Len(opened[p]) > Needed(p) \* a slip
Ready(p) == Len(opened[p]) >= Needed(p)

Fail(p, reason) ==
  /\ pc' = [pc EXCEPT ![p] = "failed"] /\ why' = [why EXCEPT ![p] = reason]
  /\ UNCHANGED <<errno, opened>>

\* First for reading and writing, then for reading only.
OpenFile(p) ==
  /\ pc[p] = "open"
  /\ IF file = NoFile THEN Fail(p, "open")
     ELSE /\ pc' = [pc EXCEPT ![p] = "header"] /\ UNCHANGED why
          /\ errno' = [errno EXCEPT ![p] = FALSE]
          /\ opened' = [opened EXCEPT ![p] =
               Append(@, [ro |-> ~job.writable, hdr |-> NoHeader, run |-> 0, size |-> 0])]
  /\ UNCHANGED <<job, file, wpc, loop>>

ReadHeader(p) ==
  /\ pc[p] = "header"
  /\ IF ~Readable(file.hdr) THEN Fail(p, "header")
     ELSE IF errno[p] THEN Fail(p, "errno")
     ELSE /\ opened' = [opened EXCEPT ![p][Len(opened[p])] =
               [@ EXCEPT !.hdr = Understood(file.hdr), !.run = file.run]]
          /\ pc' = [pc EXCEPT ![p] = "size"] /\ UNCHANGED <<why, errno>>
  /\ UNCHANGED <<job, file, wpc, loop>>

\* The size is looked up when the header has been read.
CheckSize(p) ==
  LET size == SizeOf(file)
      h    == WithSamples(This(p).hdr, size)
  IN
  /\ pc[p] = "size"
  /\ IF Short(h, size) THEN Fail(p, "size")
     ELSE /\ opened' = [opened EXCEPT ![p][Len(opened[p])] =
               [@ EXCEPT !.hdr = h, !.size = size]]
          /\ pc' = [pc EXCEPT ![p] = IF Ready(p) THEN "use" ELSE "open"]
          /\ UNCHANGED <<why, errno>>
  /\ UNCHANGED <<job, file, wpc, loop>>

\* A library call that succeeds may leave errno set.
LibraryCall(p) ==
  /\ job.noisy /\ pc[p] \in {"header", "size", "use"} /\ ~errno[p]
  /\ errno' = [errno EXCEPT ![p] = TRUE]
  /\ UNCHANGED <<job, file, wpc, pc, why, opened, loop>>

-----------------------------------------------------------------------------
(* The reader.                                                             *)

Reading == pc["reader"] = "use"
Header  == This("reader").hdr

\* The value at an offset, once it is there.
Present(o, count) == file.hdr # NoHeader /\ o + count <= Len(file.data)
Taken(n, f, c) ==
  [time |-> n, nif |-> f, chan |-> c, val |-> file.data[Offset(Header, n, f, c) + 1]]

InBatch   == Length(Header.nchans, b, job.batch)
\* t < (size_t)nsamples: a negative number is no limit.
MoreTimes == t < Header.nsamples \/ Header.nsamples < 0

\* GetChannels reads the batch's channels of one sample after the other.
Forward_Stays == UNCHANGED t \* a slip: the next sample is not taken
Forward       == t' = t + 1

ReadSample ==
  /\ Reading /\ job.how = "channels" /\ i < Header.nifs /\ MoreTimes
  /\ IF Present(Offset(Header, t, i, First(b, job.batch)), InBatch)
     THEN /\ got' = got \cup {Taken(t, i, c) : c \in Piece(Header.nchans, b, job.batch)}
          /\ Forward /\ UNCHANGED <<pc, why, errno, opened>>
     ELSE Fail("reader", "read") /\ UNCHANGED <<got, t>>
  /\ UNCHANGED <<job, file, wpc, i, b>>

\* At the end errno is looked at.
NextBatch ==
  /\ Reading /\ job.how = "channels" /\ i < Header.nifs /\ ~MoreTimes
  /\ IF errno["reader"] THEN Fail("reader", "errno") /\ UNCHANGED <<i, b, t>>
     ELSE /\ t' = 0
          /\ IF b + 1 < NumPieces(Header.nchans, job.batch)
             THEN b' = b + 1 /\ i' = i ELSE b' = 0 /\ i' = i + 1
          /\ UNCHANGED <<pc, why, errno, opened>>
  /\ UNCHANGED <<job, file, wpc, got>>

\* GetData reads all there is in one call.
ReadAll ==
  /\ Reading /\ job.how = "whole" /\ i < Header.nifs
  /\ IF Elements(Header) <= MaxTransfer /\ Present(0, Elements(Header))
     THEN /\ got' = {Taken(n, f, c) : n \in 0..(Header.nsamples - 1),
                       f \in 0..(Header.nifs - 1), c \in 0..(Header.nchans - 1)}
          /\ i' = Header.nifs /\ UNCHANGED <<pc, why, errno, opened>>
     ELSE Fail("reader", "read") /\ UNCHANGED <<got, i>>
  /\ UNCHANGED <<job, file, wpc, b, t>>

HaveRead ==
  /\ Reading /\ i = Header.nifs
  /\ pc' = [pc EXCEPT !["reader"] = "done"]
  /\ UNCHANGED <<job, file, wpc, why, errno, opened, loop>>

-----------------------------------------------------------------------------
(* The editor: main opens the file for its header, ModifyHeader opens it    *)
(* again, compares, and writes the header as a whole.                       *)

Asked  == opened["editor"][1]
InFile == opened["editor"][2]

Differs_AnyData == InFile.hdr.len # HeaderLen \* a slip: the data may differ
Differs_AnyLen  == DataSize(InFile.hdr) # DataSize(Asked.hdr) \* a slip: and the header
Differs ==
  \/ DataSize(InFile.hdr) # DataSize(Asked.hdr)
  \/ InFile.hdr.len # HeaderLen

Compare ==
  /\ pc["editor"] = "use"
  /\ IF Differs THEN Fail("editor", "differs")
     ELSE pc' = [pc EXCEPT !["editor"] = "write"] /\ UNCHANGED <<why, errno, opened>>
  /\ UNCHANGED <<job, file, wpc, loop>>

\* A longer header runs into the data.
Overwritten(h, x) ==
  [x EXCEPT !.hdr = [h EXCEPT !.len = HeaderLen],
            !.data = IF x.hdr # NoHeader /\ x.hdr.len < HeaderLen
                     THEN [o \in DOMAIN @ |-> IF o <= HeaderLen - x.hdr.len THEN Junk ELSE @[o]]
                     ELSE @]

RewriteHeader ==
  /\ pc["editor"] = "write"
  /\ IF InFile.ro THEN Fail("editor", "write") /\ UNCHANGED file
     ELSE /\ file' = Overwritten([Asked.hdr EXCEPT !.of = Asked.run], file)
          /\ pc' = [pc EXCEPT !["editor"] = "done"] /\ UNCHANGED <<why, errno, opened>>
  /\ UNCHANGED <<job, wpc, loop>>

-----------------------------------------------------------------------------
Init ==
  /\ job \in Scenarios /\ file = job.file
  /\ wpc = "new" /\ pc = [p \in Procs |-> IF p \in job.procs THEN "open" ELSE "absent"]
  /\ why = [p \in Procs |-> ""] /\ errno = [p \in Procs |-> FALSE]
  /\ opened = [p \in Procs |-> <<>>]
  /\ i = 0 /\ b = 0 /\ t = 0 /\ got = {}

Writer   == Truncate \/ WriteHeader \/ WriteValue \/ CloseFile \/ WriterDies
Open(p)  == OpenFile(p) \/ ReadHeader(p) \/ CheckSize(p)
Reader   == Open("reader") \/ ReadSample \/ NextBatch \/ ReadAll \/ HaveRead
Editor   == Open("editor") \/ Compare \/ RewriteHeader

Next == Writer \/ Reader \/ Editor \/ \E p \in Procs : LibraryCall(p)

\* A reader that runs goes on; nobody else has to.
Spec == Init /\ [][Next]_vars /\ WF_vars(Reader)

-----------------------------------------------------------------------------
(* Properties.                                                             *)

TypeOK ==
  /\ wpc \in {"new", "created", "writing", "closed", "dead"}
  /\ pc \in [Procs -> {"absent", "open", "header", "size", "use", "write", "done", "failed"}]
  /\ why \in [Procs -> {"", "open", "header", "errno", "size", "read", "differs", "write"}]
  /\ errno \in [Procs -> BOOLEAN]
  /\ \A p \in Procs : Len(opened[p]) <= Needed(p)
  /\ file # NoFile => file.run \in 1..(MaxRuns + 1)
  /\ i \in Nat /\ b \in Nat /\ t \in Nat

\* When the reader has read everything, it has each sample of each channel of
\* the length it found at the open, once and from its own place in the file;
\* and all of one run of mkfb, unless mkfb was started again meanwhile.
ReadRight ==
  pc["reader"] = "done" =>
    /\ {<<g.time, g.nif, g.chan>> : g \in got}
         = (0..(Header.nsamples - 1)) \X (0..(Header.nifs - 1)) \X (0..(Header.nchans - 1))
    /\ \A g \in got :
         /\ g.val # Junk => SampleAt(Header, g.val[2]) = <<g.time, g.nif, g.chan>>
         /\ file.run = This("reader").run => g.val # Junk /\ g.val[1] = file.run

\* The length settled at the open stays true while mkfb goes on appending: as
\* long as mkfb is not started again the file has that many whole samples.
LengthHolds ==
  \A p \in Procs : \A j \in DOMAIN opened[p] :
    LET x == opened[p][j] IN
    x.size > 0 /\ x.run = file.run => PerSample(x.hdr) * x.hdr.nsamples <= Len(file.data)

\* No size wraps: of a file with a header h, or with h's at our own length,
\* that has as many samples as an int holds.
Fits(h) ==
  /\ h.len + PerSample(h) * IntWrap < SizeWrap
  /\ HeaderLen + PerSample(h) * IntWrap < SizeWrap
  /\ 2 * h.nsamples < IntWrap
SizesFit == \A x \in Scenarios :
  /\ HeaderLen + x.nchans * IntWrap < SizeWrap
  /\ x.file # NoFile /\ x.file.hdr # NoHeader => Fits(x.file.hdr)

\* The files of mkfb have fewer samples than an int holds, and one that is
\* there when mkfb begins is one that it has left before.
MkfbFiles == \A x \in Scenarios : x.mkfb =>
  /\ 2 * MaxSpectra < IntWrap
  /\ x.file # NoFile =>
       /\ Len(x.file.data) <= MaxSpectra * x.nchans
       /\ x.file.hdr # NoHeader =>
            /\ x.file.hdr.type = 1 /\ x.file.hdr.bits = 32 /\ x.file.hdr.nifs = 1
            /\ x.file.hdr.nchans = x.nchans /\ x.file.hdr.nsamples = 0
            /\ x.file.hdr.len = HeaderLen

\* A file that mkfb is still writing is read to the end of the length found at
\* the open, unless mkfb is started again, an editor puts an older run's header
\* over it, a call leaves errno set, or all is read in one call.
ReadToTheEnd ==
  (/\ job.mkfb /\ job.how = "channels" /\ ~job.noisy
   /\ opened["reader"] # <<>> /\ This("reader").run = file.run
   /\ This("reader").hdr.of = file.run)
    => pc["reader"] # "failed"

\* Changing the header in place leaves the data alone: every value stays the
\* one that was written there.
DataIntact == file # NoFile =>
  \A o \in DOMAIN file.data : file.data[o] = <<file.run, o - 1>>

\* How many samples a SigProc that is opened now would find.
Found(x) == WithSamples(Understood(x.hdr), SizeOf(x)).nsamples

\* An edit does not change the length of a file ("ModifyHeader cannot modify
\* the data size"), if nothing is appended between its second open and its
\* write.
EditKeepsLength ==
  [][ pc["editor"] = "write" /\ pc'["editor"] = "done"
      /\ file.run = InFile.run /\ SizeOf(file) = InFile.size
      => Found(file') = Found(file) ]_vars

\* The reader always comes to an end, also on a file that was cut under it.
ReaderEnds == "reader" \in job.procs => <>(pc["reader"] \in {"done", "failed"})
=============================================================================
