------------------------------ MODULE RfiMask ------------------------------
(***************************************************************************)
(* RFIMask: the mask file a user hands to prepfil, and the three tables    *)
(* made of it.  A mask file is a record                                    *)
(*   agree      the start time, the frequencies and the length of an       *)
(*              interval agree with the filterbank file,                   *)
(*   inverted   its channels count from the other end of the band,         *)
(*   nchans, nints, size   channels, intervals, samples in an interval,    *)
(*   chans      channels zapped at all times,                              *)
(*   ints       intervals zapped in all channels,                          *)
(*   perInt     the channels zapped in each interval,                      *)
(*   whole      nothing follows the last table.                            *)
(***************************************************************************)
EXTENDS Integers

\* The constructor throws unless the mask fits the header of the file.
Accepted(m, nchans, nsamples) ==
  /\ m.agree /\ m.whole
  /\ m.nchans = nchans
  /\ m.nints = (nsamples + m.size - 1) \div m.size

Channel_OffByOne(m, c) == \* a slip: the inverted count starts at one
  IF m.inverted THEN (m.nchans - c) % m.nchans ELSE c
Channel(m, c) == IF m.inverted THEN m.nchans - c - 1 ELSE c

Intervals(m) == 0..(m.nints - 1)

ZappedChannels(m) == {Channel(m, c) : c \in m.chans}

\* The channels zapped in interval i.
ZappedChannelsPerInterval(m, i) ==
  ZappedChannels(m) \cup {Channel(m, c) : c \in m.perInt[i]}

\* The intervals zapped in channel c, those of its own and those of all.
ZappedIntervalsPerChannel(m, c) ==
  m.ints \cup {i \in Intervals(m) : \E d \in m.perInt[i] : Channel(m, d) = c}
=============================================================================
