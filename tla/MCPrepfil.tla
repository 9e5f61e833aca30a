----------------------------- MODULE MCPrepfil -----------------------------
(* Small instances of Prepfil for TLC.                                     *)
EXTENDS Prepfil, TLC

Input(nifs, nchans, nsamples, bary, padded) ==
  [nifs |-> nifs, nchans |-> nchans, nsamples |-> nsamples,
   barycentric |-> bary, padded |-> padded]

OneIF  == Input(1, 3, 4, 0, TRUE)
TwoIFs == Input(2, 2, 3, 1, FALSE)
Short  == Input(1, 5, 2, 1, TRUE) \* with a short last batch
MCInputs == {OneIF, TwoIFs, Short}

Job(avg, bp, smooth, base, obs, mask, edit, oneFile) ==
  [avg |-> avg, bp |-> bp, smooth |-> smooth, base |-> base, obs |-> obs,
   drop |-> 1, mask |-> mask, edit |-> edit, oneFile |-> oneFile]

\* Masks for OneIF; the second counts its channels from the other end, the
\* third belongs to another file.
Mask(agree, inverted, size, chans, ints, perInt) ==
  [agree |-> agree, inverted |-> inverted, nchans |-> 3,
   nints |-> (3 + size) \div size, size |-> size, chans |-> chans,
   ints |-> ints, perInt |-> perInt, whole |-> TRUE]
MaskA == Mask(TRUE, FALSE, 2, {}, {1}, 0 :> {0} @@ 1 :> {0, 1, 2})
MaskB == Mask(TRUE, TRUE, 1, {0}, {}, 0 :> {} @@ 1 :> {1} @@ 2 :> {} @@ 3 :> {1})
MaskC == Mask(FALSE, FALSE, 2, {}, {}, 0 :> {} @@ 1 :> {})
Masks == {MaskA, MaskB, MaskC, NoMask}

MCJobs ==
  {Job(1, 0, FALSE, 0, FALSE, NoMask, e, o) : e, o \in BOOLEAN}
  \cup {Job(a, p, FALSE, 0, FALSE, m, FALSE, FALSE) :
          a \in {1, 2}, p \in {0, 3}, m \in Masks}
  \cup {Job(2, 5, TRUE, 1, TRUE, NoMask, TRUE, FALSE),
        Job(1, 3, TRUE, 1, FALSE, MaskA, FALSE, FALSE),
        Job(1, 0, TRUE, 1, FALSE, NoMask, FALSE, FALSE),
        Job(5, 0, FALSE, 0, FALSE, NoMask, FALSE, FALSE),
        Job(0, 0, FALSE, 0, FALSE, NoMask, FALSE, FALSE),
        Job(1, -1, FALSE, 0, FALSE, NoMask, FALSE, FALSE),
        Job(1, 0, FALSE, -1, FALSE, NoMask, TRUE, FALSE),
        Job(1, 0, FALSE, 0, TRUE, NoMask, FALSE, FALSE)}

\* Jobs for the violations.
MCMaskOnly == {Job(1, 0, FALSE, 0, FALSE, m, FALSE, FALSE) : m \in {MaskA, MaskB}}
MCOneIF    == {OneIF}
=============================================================================
