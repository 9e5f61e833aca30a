------------------------------ MODULE Batches ------------------------------
(***************************************************************************)
(* How prepfil cuts its work to the memory it may use (SigProcUtil):       *)
(* GetBatches fits a batch of channels into the buffer, DoProcess walks    *)
(* the batches, and the bandpass is measured over chunks of time that fit   *)
(* into the buffer of one batch.  Sizes are in floats: a quotient of bytes  *)
(* by sizeof(float) * n is that of floats by n.                            *)
(***************************************************************************)
EXTENDS Integers

LesserOf(a, b) == IF a < b THEN a ELSE b
CeilDiv(a, b)  == (a + b - 1) \div b

\* Channels that fit into the buffer with fpc floats each; 0 if not one does,
\* and then the next division is by zero.
Fitting(buffer, fpc, nchans) == LesserOf(buffer \div fpc, nchans)

\* "balance the batches": as many channels in each as in an even division.
BatchSize(buffer, fpc, nchans) ==
  nchans \div CeilDiv(nchans, Fitting(buffer, fpc, nchans))

\* Work of size n cut in pieces of the given size: channels in batches, and
\* bandpass samples in chunks.  The last piece may be short.
NumPieces(n, piece)   == CeilDiv(n, piece)
First(b, piece)       == b * piece
Length(n, b, piece)   == LesserOf(piece, n - First(b, piece))
Piece(n, b, piece)    == First(b, piece)..(First(b, piece) + Length(n, b, piece) - 1)

\* Samples per chunk of the bandpass measurement: into the input buffer of a
\* batch, into limit floats, and no more than are measured.
TimeChunk_Unscaled(batch, nsamples, nchans, limit, wanted) ==
  \* a slip: the channels of a sample are forgotten
  LesserOf(LesserOf(batch * nsamples, limit \div nchans), wanted)
TimeChunk(batch, nsamples, nchans, limit, wanted) ==
  LesserOf(LesserOf((batch * nsamples) \div nchans, limit \div nchans), wanted)
=============================================================================
