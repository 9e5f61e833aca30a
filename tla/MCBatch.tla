------------------------------ MODULE MCBatch ------------------------------
(* Small instances of Batch for TLC.                                       *)
EXTENDS Batch

\* Listings: empty, ordinary, one without spectra in the middle, one with a
\* file that ends within a spectrum.
Listings ==
  LET One == HeaderWords + SpecSize
      Two == HeaderWords + 2 * SpecSize
  IN  {<<>>, <<Two>>, <<One, Two, One>>, <<One, HeaderWords, Two>>,
       <<One, Two - 1>>}
\* A file whose header is not complete yet.
ShortListings == {<<HeaderWords + SpecSize, n>> : n \in 0..HeaderWords}
\* All channels by default, a proper range, its top, an inverted one.
ChannelRanges == {<<-1, -1>>, <<1, 2>>, <<NumChannels - 1, NumChannels - 1>>,
                  <<2, 1>>}
=============================================================================
