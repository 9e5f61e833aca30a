------------------------------ MODULE Archive ------------------------------
(***************************************************************************)
(* What mkfb promises whoever reads its filterbank files, one archive per  *)
(* prefix: a process opens at most one archive, emptying it before it adds *)
(* anything; from then on the archive only grows, file by file, in the     *)
(* order of the file names, and none comes twice; a process that stops     *)
(* may leave one more file, the one it was adding.                         *)
(***************************************************************************)
EXTENDS Integers, Sequences

CONSTANTS Prefixes, MaxFiles, NoFile, NoPrefix

Files == Prefixes \X (1..MaxFiles)

VARIABLES
  open,    \* the archive the running process adds to
  header,  \* the file each archive's header names
  content  \* the files in each archive

vars == <<open, header, content>>

Init == /\ open = NoPrefix
        /\ header = [p \in Prefixes |-> NoFile]
        /\ content = [p \in Prefixes |-> <<>>]

Begin(f) == /\ open = NoPrefix /\ open' = f[1]
            /\ header' = [header EXCEPT ![f[1]] = f]
            /\ content' = [content EXCEPT ![f[1]] = <<>>]

\* f may follow what the open archive holds
Follows(f) == /\ open # NoPrefix /\ f[1] = open /\ f[2] >= header[open][2]
              /\ \A i \in DOMAIN content[open] : content[open][i][2] < f[2]

Extended(f) == content' = [content EXCEPT ![open] = Append(@, f)]

Add(f) == Follows(f) /\ Extended(f) /\ UNCHANGED <<open, header>>

Stop == /\ open' = NoPrefix /\ UNCHANGED header
        /\ \/ UNCHANGED content
           \/ \E f \in Files : Follows(f) /\ Extended(f)

Next == Stop \/ \E f \in Files : Begin(f) \/ Add(f)

Spec == Init /\ [][Next]_vars
=============================================================================
