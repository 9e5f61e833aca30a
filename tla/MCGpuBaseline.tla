--------------------------- MODULE MCGpuBaseline ---------------------------
(* A small instance of GpuBaseline for TLC: one batch with a short last      *)
(* round of the streams, batches of three channels and one, fewer channels   *)
(* than streams, and two IFs.                                                *)
EXTENDS GpuBaseline

Job(nchans, nifs, hold) == [nchans |-> nchans, nifs |-> nifs, hold |-> hold]
MCJobs == {Job(7, 1, 7), Job(7, 1, 5), Job(2, 1, 2), Job(1, 2, 1), Job(5, 2, 5)}
=============================================================================
