------------------------------ MODULE Baseline ------------------------------
(***************************************************************************)
(* What BaselineRemover promises DoProcess: between the call and the return *)
(* of Process_batch each of the first n channels in the buffer becomes the  *)
(* filtered form of what it held, and nothing else in the buffer changes.  *)
(* The CPU does it channel by channel in order; any order would do.        *)
(***************************************************************************)
EXTENDS Integers

CONSTANT NumChans \* channels the caller's buffer has room for

Chans == 0..(NumChans - 1)

VARIABLES
  state, \* "idle", "busy" or, after the destructor or an exit, "gone"
  count, \* calls so far
  n,     \* channels of the call
  data   \* the caller's buffer

vars == <<state, count, n, data>>

\* What the caller puts into channel c before its k-th call.
Raw(k, c)      == [call |-> k, chan |-> c, stage |-> "raw"]
Filtered(v)    == [v EXCEPT !.stage = "filtered"]

Init ==
  /\ state = "idle" /\ count = 0 /\ n = 0
  /\ data = [c \in Chans |-> Raw(0, c)]

Begin(m) ==
  /\ state = "idle" /\ state' = "busy" /\ count' = count + 1 /\ n' = m
  /\ data' = [c \in Chans |-> IF c < m THEN Raw(count', c) ELSE data[c]]

Filter(c) ==
  /\ state = "busy" /\ c < n /\ data[c].stage = "raw"
  /\ data' = [data EXCEPT ![c] = Filtered(@)]
  /\ UNCHANGED <<state, count, n>>

Return ==
  /\ state = "busy" /\ \A c \in Chans : c < n => data[c].stage = "filtered"
  /\ state' = "idle" /\ UNCHANGED <<count, n, data>>

Leave == state # "gone" /\ state' = "gone" /\ UNCHANGED <<count, n, data>>

Next ==
  \/ \E m \in 1..NumChans : Begin(m)
  \/ \E c \in Chans : Filter(c)
  \/ Return \/ Leave

Spec == Init /\ [][Next]_vars
=============================================================================
