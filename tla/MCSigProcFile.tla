--------------------------- MODULE MCSigProcFile ---------------------------
(* Small instances of SigProcFile for TLC.                                 *)
EXTENDS SigProcFile

Scenario(mkfb, nchans, x, procs, batch, how, noisy, writable) ==
  [mkfb |-> mkfb, nchans |-> nchans, file |-> x, procs |-> procs, batch |-> batch,
   how |-> how, noisy |-> noisy, writable |-> writable]

\* Files of mkfb: of two channels and of one, read channel by channel or at
\* once, and edited while they grow.
Growing ==
  {Scenario(TRUE, 2, NoFile, Procs, n, "channels", FALSE, TRUE) : n \in {1, 2}}
  \cup {Scenario(TRUE, 1, NoFile, {"reader"}, 1, h, q, w) :
          h \in {"channels", "whole"}, q, w \in BOOLEAN}
  \cup {Scenario(TRUE, 2, NoFile, {"editor"}, 1, "channels", FALSE, FALSE)}

\* Files of other programs: with a number of samples that is right, too small
\* or too large, or none; two IFs; a time series; other types and widths; a
\* header shorter than our own.
Foreign(type, bits, nifs, nchans, nsamples, len, count) ==
  [run |-> 1,
   hdr |-> [type |-> type, bits |-> bits, nifs |-> nifs, nchans |-> nchans,
            nsamples |-> nsamples, len |-> len, of |-> 1],
   data |-> [o \in 1..count |-> <<1, o - 1>>]]
ForeignFiles ==
  {Foreign(1, 32, 1, 3, n, HeaderLen, 7) : n \in {-3, 0, 1, 2, 3}}
  \cup {Foreign(1, 32, 2, 2, 0, HeaderLen - 1, 8), Foreign(2, 32, 1, 2, 0, HeaderLen, 3),
        Foreign(3, 32, 1, 1, 0, HeaderLen, 1), Foreign(1, 8, 1, 1, 0, HeaderLen, 1)}

\* A file that mkfb was killed in, while it wrote the second sample.
LeftBehind ==
  Scenario(TRUE, 2, Foreign(1, 32, 1, 2, 0, HeaderLen, 3), Procs, 1, "channels", FALSE, TRUE)

MCScenarios ==
  Growing \cup {LeftBehind}
  \cup {Scenario(FALSE, 1, x, Procs, 2, h, FALSE, w) :
          x \in ForeignFiles, h \in {"channels", "whole"}, w \in BOOLEAN}

\* The scenarios are ones that the theorems are about.
ASSUME SizesDoNotWrap == SizesFit
ASSUME FilesAreOwn == MkfbFiles
=============================================================================
