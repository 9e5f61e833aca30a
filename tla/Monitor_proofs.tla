--------------------------- MODULE Monitor_proofs ---------------------------
(***************************************************************************)
(* Theorems about Monitor, for every value of its constants.  First those   *)
(* that hold whatever happens to the directory and the process, among them  *)
(* that the outputs are archives; then those for a tidy recorder.           *)
(***************************************************************************)
EXTENDS Monitor, FiniteSetTheorems, TLAPS

\* While a file is read, it is the monitored one.
ReadingOK == pc = "reading" => monitoringFile # NoFile

TypeInv == TypeOK /\ ReadingOK

\* The number of spectra found in a file of any size is a natural number.
LEMMA NumSpecType == ASSUME NEW n \in 0..MaxSize PROVE NumSpec(n) \in Nat
<1>1. n - HeaderBlocks \in Int
  BY MonitorAssumption
<1>2. (n - HeaderBlocks) % Wrap \in 0..(Wrap - 1)
  BY <1>1, MonitorAssumption
<1> DEFINE d == (n - HeaderBlocks) % Wrap
<1>3. d \in Nat
  BY <1>2, MonitorAssumption
<1> HIDE DEF d
<1>4. d \div SpecBlocks \in Nat
  BY <1>3, MonitorAssumption
<1> QED
  BY <1>4 DEF NumSpec, DataBlocks, d

LEMMA TypeInit == Init => TypeInv
<1> SUFFICES ASSUME Init PROVE TypeInv
  OBVIOUS
<1> QED
  BY MonitorAssumption DEF Init, TypeInv, TypeOK, DiskType, LocalsType,
     OutsType, ReadingOK, Files

\* Creating the outputs for a file keeps their types.
LEMMA MakeType ==
  ASSUME OutsType, NEW f \in Files, MakeSigProcFiles(f)
  PROVE  OutsType' /\ fils' \in Prefixes \cup {NoPrefix}
                   /\ (lastFileProcessed = NoFile => fils' \in Prefixes)
<1>1. CASE lastFileProcessed # NoFile
  BY <1>1 DEF MakeSigProcFiles, OutsType, outs
<1>2. CASE lastFileProcessed = NoFile
  <2> DEFINE p == IF prefix = NoPrefix THEN f[1] ELSE prefix
  <2>1. p \in Prefixes /\ p # NoPrefix
    BY MonitorAssumption DEF OutsType, Files
  <2>2. /\ prefix' = p /\ fils' = p
        /\ rawdatafile' = [rawdatafile EXCEPT ![p] = f]
        /\ data' = [data EXCEPT ![p] = <<>>]
    BY <1>2 DEF MakeSigProcFiles
  <2>3. <<>> \in Seq(Chunks)
    OBVIOUS
  <2> QED
    BY <2>1, <2>2, <2>3 DEF OutsType
<1> QED
  BY <1>1, <1>2

\* Appending a chunk of a file keeps the type of the outputs.
LEMMA AppendType ==
  ASSUME OutsType, monitoringFile \in Files, NEW n \in Nat, Append1(n),
         UNCHANGED <<prefix, rawdatafile>>, fils' \in Prefixes \cup {NoPrefix}
  PROVE  OutsType'
<1> DEFINE c == [file |-> monitoringFile, num |-> n]
<1>1. c \in Chunks
  BY DEF Chunks
<1>2. \A p \in Prefixes : Append(data[p], c) \in Seq(Chunks)
  BY <1>1 DEF OutsType
<1>3. data' = [data EXCEPT ![fils] = Append(data[fils], c)]
  BY DEF Append1
<1> HIDE DEF c
<1> QED
  BY <1>2, <1>3 DEF OutsType

\* The bookkeeping after a file keeps the types of the locals.
LEMMA AdvanceType ==
  ASSUME LocalsType, monitoringFile # NoFile, NEW m \in Nat, NEW n \in Nat,
         Advance(m, n), UNCHANGED <<args, inSize>>
  PROVE  LocalsType' /\ pc' # "reading"
BY MonitorAssumption DEF LocalsType, Advance

LEMMA TypeStep == TypeInv /\ [Next]_vars => TypeInv'
<1> SUFFICES ASSUME TypeInv, [Next]_vars PROVE TypeInv'
  OBVIOUS
<1>t. DiskType /\ LocalsType /\ OutsType /\ ReadingOK
  BY DEF TypeInv, TypeOK
<1>g. DiskType' /\ LocalsType' /\ OutsType' /\ ReadingOK' => TypeInv'
  BY DEF TypeInv, TypeOK
<1>p. \A f \in Files : f # NoFile
  BY MonitorAssumption
<1> USE DEF ReadingOK
<1>1. ASSUME NEW f \in Files, Create(f) PROVE TypeInv'
  <2>1. DiskType'
    <3>1. [size EXCEPT ![f] = 0] \in [Files -> 0..MaxSize]
      BY <1>t, MonitorAssumption DEF DiskType
    <3>2. [quiet EXCEPT ![f] = 0] \in [Files -> 0..QuietCap]
      BY <1>t, MonitorAssumption DEF DiskType
    <3> QED
      BY <1>1, <1>t, <3>1, <3>2 DEF Create, DiskType
  <2> QED
    BY <1>1, <1>t, <1>g, <2>1 DEF Create, LocalsType, OutsType, locals, outs
<1>2. ASSUME NEW f \in Files, Extend(f) PROVE TypeInv'
  <2>1. DiskType'
    BY <1>2, <1>t, MonitorAssumption DEF Extend, DiskType
  <2> QED
    BY <1>2, <1>t, <1>g, <2>1 DEF Extend, LocalsType, OutsType, locals, outs
<1>3. ASSUME NEW f \in Files, Close(f) PROVE TypeInv'
  <2>1. DiskType'
    BY <1>3, <1>t, MonitorAssumption DEF Close, DiskType
  <2> QED
    BY <1>3, <1>t, <1>g, <2>1 DEF Close, LocalsType, OutsType, locals, outs
<1>4. ASSUME NEW f \in Files, Remove(f) PROVE TypeInv'
  <2>1. DiskType'
    BY <1>4, <1>t, MonitorAssumption DEF Remove, Fault, DiskType
  <2> QED
    BY <1>4, <1>t, <1>g, <2>1 DEF Remove, LocalsType, OutsType, locals, outs
<1>5. ASSUME NEW f \in Files, Truncate(f) PROVE TypeInv'
  <2>1. DiskType'
    BY <1>5, <1>t, MonitorAssumption DEF Truncate, Fault, DiskType
  <2> QED
    BY <1>5, <1>t, <1>g, <2>1 DEF Truncate, LocalsType, OutsType, locals, outs
<1>6. CASE Tick
  <2>1. DiskType'
    BY <1>6, <1>t, MonitorAssumption DEF Tick, DiskType
  <2> QED
    BY <1>6, <1>t, <1>g, <2>1 DEF Tick, LocalsType, OutsType, locals, outs
<1>7. CASE Start
  <2>1. \A q \in Filter(args.prefix) : q \in Prefixes \cup {NoPrefix}
    BY <1>t, MonitorAssumption DEF LocalsType, DiskType, Filter, Files
  <2> QED
    BY <1>7, <1>t, <1>g, <2>1
       DEF Start, DiskType, LocalsType, OutsType, disks, outs
<1>8. CASE NothingNew
  BY <1>8, <1>t, <1>g
     DEF NothingNew, DiskType, LocalsType, OutsType, disks, locals, outs
<1>9. CASE Pick
  <2>1. monitoringFile' \in Files /\ pc = "poll"
    BY <1>9, <1>t DEF Pick, Looking, Next1, Newer, InDir, DiskType
  <2> QED
    BY <1>9, <1>t, <1>g, <2>1, MonitorAssumption
       DEF Pick, DiskType, LocalsType, OutsType, disks, outs
<1>10. CASE PickThrows
  BY <1>10, <1>t, <1>g
     DEF PickThrows, DiskType, LocalsType, OutsType, disks, locals, outs
<1>11. CASE SizeSame
  BY <1>11, <1>t, <1>g, MonitorAssumption
     DEF SizeSame, Waiting, DiskType, LocalsType, OutsType, disks, outs
<1>12. CASE SizeGrown
  BY <1>12, <1>t, <1>g, MonitorAssumption
     DEF SizeGrown, Waiting, DiskType, LocalsType, OutsType, disks, outs
<1>13. CASE SizeThrows
  BY <1>13, <1>t, <1>g
     DEF SizeThrows, DiskType, LocalsType, OutsType, disks, locals, outs
<1>14. CASE SkipFile
  <2>1. monitoringFile \in Files
    BY <1>14, <1>t DEF SkipFile, Stable, LocalsType
  <2>2. OutsType'
    BY <1>14, <1>t, <2>1, MakeType DEF SkipFile
  <2>3. LocalsType' /\ pc' # "reading"
    BY <1>14, <1>t, <2>1, <1>p, AdvanceType DEF SkipFile, LocalsType
  <2> QED
    BY <1>14, <1>t, <1>g, <2>2, <2>3 DEF SkipFile, DiskType, disks
<1>15. CASE OpenFile
  <2>1. monitoringFile \in Files /\ monitoringFile # NoFile
    BY <1>15, <1>t, <1>p DEF OpenFile, Stable, LocalsType
  <2>2. OutsType' /\ (lastFileProcessed = NoFile => fils' \in Prefixes)
    BY <1>15, <1>t, <2>1, MakeType DEF OpenFile
  <2>3. LocalsType'
    BY <1>15, <1>t, <2>1 DEF OpenFile, LocalsType, DiskType
  <2> QED
    BY <1>15, <1>t, <1>g, <2>1, <2>2, <2>3 DEF OpenFile, DiskType, disks
<1>16. CASE OpenThrows
  <2>1. monitoringFile \in Files
    BY <1>16, <1>t DEF OpenThrows, Stable, LocalsType
  <2>2. OutsType'
    BY <1>16, <1>t, <2>1, MakeType DEF OpenThrows
  <2> QED
    BY <1>16, <1>t, <1>g, <2>2 DEF OpenThrows, LocalsType, DiskType, disks
<1>17. CASE FinishFile
  <2>1. monitoringFile \in Files /\ monitoringFile # NoFile
    BY <1>17, <1>t, <1>p DEF FinishFile, LocalsType
  <2>2. OutsType'
    BY <1>17, <1>t, <2>1, NumSpecType, AppendType
       DEF FinishFile, LocalsType, OutsType
  <2>3. LocalsType' /\ pc' # "reading"
    BY <1>17, <1>t, <2>1, AdvanceType DEF FinishFile, LocalsType
  <2> QED
    BY <1>17, <1>t, <1>g, <2>2, <2>3 DEF FinishFile, DiskType, disks
<1>18. CASE Crash
  <2>1. OutsType'
    <3>1. CASE UNCHANGED data
      BY <1>18, <1>t, <3>1 DEF Crash, OutsType
    <3>2. ASSUME pc = "reading", NEW n \in 1..NumSpec(inSize), Append1(n)
          PROVE  OutsType'
      <4>1. monitoringFile \in Files /\ n \in Nat
        BY <1>t, <3>2, NumSpecType DEF LocalsType
      <4> QED
        BY <1>18, <1>t, <3>2, <4>1, AppendType DEF Crash
    <3> QED
      BY <1>18, <3>1, <3>2 DEF Crash
  <2>2. DiskType'
    BY <1>18, <1>t, MonitorAssumption DEF Crash, Fault, DiskType, disks
  <2> QED
    BY <1>18, <1>t, <1>g, <2>1, <2>2 DEF Crash, LocalsType
<1>19. CASE Restart
  <2>1. DiskType'
    BY <1>19, <1>t, MonitorAssumption DEF Restart, Fault, DiskType, disks
  <2> QED
    BY <1>19, <1>t, <1>g, <2>1, MonitorAssumption
       DEF Restart, LocalsType, OutsType, outs
<1>20. CASE UNCHANGED vars
  BY <1>20, <1>t, <1>g
     DEF vars, disks, locals, outs, DiskType, LocalsType, OutsType
<1> QED
  BY <1>1, <1>2, <1>3, <1>4, <1>5, <1>6, <1>7, <1>8, <1>9, <1>10, <1>11,
     <1>12, <1>13, <1>14, <1>15, <1>16, <1>17, <1>18, <1>19, <1>20
     DEF Next, Recorder, Writes, Intruder, Monitoring

\* Every variable keeps its type.
THEOREM TypeCorrect == Spec => []TypeOK
<1>1. TypeInv => TypeOK
  BY DEF TypeInv
<1> QED
  BY TypeInit, TypeStep, <1>1, PTL DEF Spec

-----------------------------------------------------------------------------
(* The order of the files, whatever happens to the directory.              *)

\* Once a file has been handled, the process is bound to its prefix, and the
\* open outputs hold nothing that comes after it.
BoundToPrefix ==
  pc # "down" /\ lastFileProcessed # NoFile =>
    /\ fils = prefix /\ prefix # NoPrefix /\ lastFileProcessed[1] = prefix
    /\ \A i \in DOMAIN data[fils] :
         data[fils][i].file[2] <= lastFileProcessed[2]

\* The monitored file has that prefix and comes after the last one.
MonitoredIsNext ==
  monitoringFile # NoFile =>
    /\ prefix # NoPrefix => monitoringFile[1] = prefix
    /\ After(monitoringFile, lastFileProcessed)

\* The file being read goes to the outputs of its own prefix, which are empty
\* if it is the first.
ReadingBound ==
  pc = "reading" =>
    /\ fils = prefix /\ prefix = monitoringFile[1]
    /\ lastFileProcessed = NoFile => data[fils] = <<>>

\* A process that has not looked at the directory yet has handled nothing.
FreshAtStart ==
  pc = "start" => lastFileProcessed = NoFile /\ monitoringFile = NoFile

OrderInv == FreshAtStart /\ BoundToPrefix /\ MonitoredIsNext /\ ReadingBound /\ InOrder

LEMMA OrderInit == Init => OrderInv
BY MonitorAssumption
   DEF Init, OrderInv, FreshAtStart, BoundToPrefix, MonitoredIsNext, ReadingBound, InOrder

\* Creating the outputs of the first file, or leaving them for a later one,
\* keeps the order and binds the process to the file's prefix.
LEMMA MakeOrder ==
  ASSUME TypeInv, OrderInv, Stable, MakeSigProcFiles(monitoringFile)
  PROVE  /\ InOrder'
         /\ fils' = prefix' /\ prefix' = monitoringFile[1] /\ prefix' \in Prefixes
         /\ lastFileProcessed = NoFile => data'[fils'] = <<>>
         /\ lastFileProcessed # NoFile => data' = data /\ fils' = fils
<1>1. /\ monitoringFile \in Files /\ monitoringFile[1] \in Prefixes
      /\ monitoringFile # NoFile /\ pc = "poll"
      /\ data \in [Prefixes -> Seq(Chunks)]
  BY DEF Stable, TypeInv, TypeOK, LocalsType, OutsType, Files
<1>2. CASE lastFileProcessed # NoFile
  BY <1>1, <1>2 DEF MakeSigProcFiles, outs, OrderInv, BoundToPrefix,
     MonitoredIsNext, InOrder
<1>3. CASE lastFileProcessed = NoFile
  <2> DEFINE p == monitoringFile[1]
  <2>1. /\ prefix' = p /\ fils' = p /\ data' = [data EXCEPT ![p] = <<>>]
    BY <1>1, <1>3 DEF MakeSigProcFiles, OrderInv, MonitoredIsNext
  <2>2. data'[p] = <<>> /\ \A q \in Prefixes \ {p} : data'[q] = data[q]
    BY <1>1, <2>1
  <2>3. InOrder'
    BY <1>1, <2>2 DEF InOrder, OrderInv
  <2> QED
    BY <1>1, <1>3, <2>1, <2>2, <2>3
<1> QED
  BY <1>2, <1>3

\* Appending the file being read keeps the order.
LEMMA AppendOrder ==
  ASSUME TypeInv, OrderInv, pc = "reading", NEW n \in Nat, Append1(n)
  PROVE  /\ InOrder'
         /\ \A i \in DOMAIN data'[fils] :
              data'[fils][i].file[2] <= monitoringFile[2]
<1> DEFINE c == [file |-> monitoringFile, num |-> n]
<1>1. /\ monitoringFile \in Files /\ monitoringFile # NoFile
      /\ fils \in Prefixes /\ fils = monitoringFile[1] /\ fils = prefix
      /\ monitoringFile[2] \in Nat
      /\ data \in [Prefixes -> Seq(Chunks)]
  BY MonitorAssumption DEF TypeInv, TypeOK, ReadingOK, LocalsType, OutsType,
     OrderInv, ReadingBound, Files
<1>2. /\ data'[fils] = Append(data[fils], c)
      /\ \A q \in Prefixes \ {fils} : data'[q] = data[q]
  BY <1>1 DEF Append1
<1>3. \A i \in DOMAIN data[fils] :
        /\ data[fils][i].file[2] \in Nat
        /\ data[fils][i].file[2] < monitoringFile[2]
  <2>1. CASE lastFileProcessed = NoFile
    BY <2>1 DEF OrderInv, ReadingBound
  <2>2. CASE lastFileProcessed # NoFile
    <3>1. \A i \in DOMAIN data[fils] : data[fils][i] \in Chunks
      BY <1>1
    <3>2. \A i \in DOMAIN data[fils] : data[fils][i].file[2] \in Nat
      BY <3>1 DEF Chunks, Files
    <3>3. lastFileProcessed[2] \in Nat
      BY <2>2 DEF TypeInv, TypeOK, LocalsType, Files
    <3>4. lastFileProcessed[2] < monitoringFile[2]
      BY <1>1, <2>2, <3>3 DEF OrderInv, MonitoredIsNext, After
    <3>5. \A i \in DOMAIN data[fils] :
            data[fils][i].file[2] <= lastFileProcessed[2]
      BY <2>2 DEF OrderInv, BoundToPrefix
    <3> QED
      BY <1>1, <3>2, <3>3, <3>4, <3>5
  <2> QED
    BY <2>1, <2>2
<1>4. c.file = monitoringFile
  OBVIOUS
<1> DEFINE d == data[fils]
<1>5. d \in Seq(Chunks)
  BY <1>1
<1> HIDE DEF c, d
<1>6. /\ DOMAIN Append(d, c) = 1..(Len(d) + 1)
      /\ DOMAIN d = 1..Len(d) /\ Len(d) \in Nat
      /\ Append(d, c)[Len(d) + 1] = c
      /\ \A i \in 1..Len(d) : Append(d, c)[i] = d[i]
  BY <1>5
<1>7. \A i, j \in DOMAIN data'[fils] :
        /\ data'[fils][i].file[1] = fils
        /\ i < j => data'[fils][i].file[2] < data'[fils][j].file[2]
  <2>1. \A i, j \in DOMAIN d :
          d[i].file[1] = fils /\ (i < j => d[i].file[2] < d[j].file[2])
    BY <1>1 DEF OrderInv, InOrder, d
  <2>2. \A i \in DOMAIN d : d[i].file[2] < c.file[2]
    BY <1>3, <1>4 DEF d
  <2>3. data'[fils] = Append(d, c)
    BY <1>2 DEF d
  <2> SUFFICES ASSUME NEW i \in 1..(Len(d) + 1), NEW j \in 1..(Len(d) + 1)
               PROVE  /\ Append(d, c)[i].file[1] = fils
                      /\ i < j => Append(d, c)[i].file[2]
                                    < Append(d, c)[j].file[2]
    BY <1>6, <2>3
  <2>4. CASE i \in 1..Len(d) /\ j \in 1..Len(d)
    BY <1>6, <2>1, <2>4
  <2>5. CASE i \in 1..Len(d) /\ j = Len(d) + 1
    BY <1>6, <2>1, <2>2, <2>5
  <2>6. CASE i = Len(d) + 1
    <3>1. Append(d, c)[i] = c /\ c.file[1] = fils
      BY <1>1, <1>4, <1>6, <2>6
    <3>2. ~(i < j)
      BY <1>6, <2>6
    <3> QED
      BY <3>1, <3>2
  <2> QED
    BY <1>6, <2>4, <2>5, <2>6
<1>8. \A i \in DOMAIN data'[fils] :
        data'[fils][i].file[2] <= monitoringFile[2]
  <2>1. data'[fils] = Append(d, c)
    BY <1>2 DEF d
  <2>2. \A i \in DOMAIN d : d[i].file[2] \in Nat /\ d[i].file[2] < c.file[2]
    BY <1>3, <1>4 DEF d
  <2> QED
    BY <1>1, <1>4, <1>6, <2>1, <2>2
<1> QED
  BY <1>1, <1>2, <1>7, <1>8 DEF OrderInv, InOrder

\* A step that touches neither the locals nor the outputs keeps the order,
\* unless it brings the monitor to one of the places the order speaks of.
LEMMA OrderStutter ==
  ASSUME OrderInv, UNCHANGED <<prefix, lastFileProcessed, monitoringFile, fils>>,
         data' = data,
         pc' = pc \/ (pc # "down" /\ pc' \notin {"start", "reading", "down"})
  PROVE  OrderInv'
BY DEF OrderInv, FreshAtStart, BoundToPrefix, MonitoredIsNext, ReadingBound,
   InOrder, After

LEMMA OrderStep == TypeInv /\ OrderInv /\ [Next]_vars => OrderInv'
<1> SUFFICES ASSUME TypeInv, OrderInv, [Next]_vars PROVE OrderInv'
  OBVIOUS
<1>2. CASE Recorder \/ Intruder
  BY <1>2, OrderStutter DEF Recorder, Intruder, Create, Writes, Extend, Close, Remove,
     Truncate, locals, outs
<1>3. CASE Tick
  BY <1>3, OrderStutter DEF Tick, locals, outs
<1>4. CASE NothingNew \/ PickThrows \/ SizeThrows
  BY <1>4, OrderStutter DEF NothingNew, PickThrows, SizeThrows, Looking, Waiting,
     locals, outs
<1>14. CASE UNCHANGED vars
  BY <1>14, OrderStutter DEF vars, locals, outs
<1> USE DEF OrderInv, FreshAtStart
<1>5. CASE Start
  <2>1. lastFileProcessed = NoFile /\ monitoringFile = NoFile
    BY <1>5 DEF Start, FreshAtStart
  <2> QED
    BY <1>5, <2>1 DEF Start, outs, BoundToPrefix, MonitoredIsNext,
       ReadingBound, InOrder
<1>6. CASE Pick
  <2>0. PICK p \in Filter(prefix) : \E f \in Next1(p) : monitoringFile' = f
    BY <1>6 DEF Pick
  <2>1. PICK f \in Next1(p) : monitoringFile' = f
    BY <2>0
  <2>2. prefix # NoPrefix => f[1] = prefix
    BY <2>1 DEF Filter, Next1, Newer, InDir
  <2>3. After(f, lastFileProcessed)
    BY <2>1 DEF Next1, Newer
  <2> QED
    BY <1>6, <2>1, <2>2, <2>3
       DEF Pick, Looking, outs, BoundToPrefix, MonitoredIsNext, ReadingBound,
           InOrder, After
<1>7. CASE SizeSame \/ SizeGrown
  BY <1>7 DEF SizeSame, SizeGrown, Waiting, outs, BoundToPrefix,
     MonitoredIsNext, ReadingBound, InOrder, After
<1>8. CASE SkipFile
  <2>1. Stable /\ MakeSigProcFiles(monitoringFile) /\ monitoringFile # NoFile
    BY <1>8 DEF SkipFile, Stable
  <2>2. /\ lastFileProcessed' = monitoringFile /\ monitoringFile' = NoFile
        /\ pc' \notin {"start", "reading"} /\ pc # "down"
    BY <1>8 DEF SkipFile, Advance, Stable
  <2>3. \A i \in DOMAIN data'[fils'] :
          data'[fils'][i].file[2] <= monitoringFile[2]
    <3>1. CASE lastFileProcessed = NoFile
      BY <2>1, <3>1, MakeOrder
    <3>2. CASE lastFileProcessed # NoFile
      <4>1. data' = data /\ fils' = fils /\ fils \in Prefixes
        BY <2>1, <3>2, MakeOrder
      <4>2. \A i \in DOMAIN data[fils] : data[fils][i] \in Chunks
        BY <4>1 DEF TypeInv, TypeOK, OutsType
      <4>3. \A i \in DOMAIN data[fils] : data[fils][i].file[2] \in Nat
        BY <4>2 DEF Chunks, Files
      <4>4. lastFileProcessed[2] \in Nat /\ monitoringFile[2] \in Nat
        BY <2>1, <3>2 DEF TypeInv, TypeOK, LocalsType, Files
      <4>5. lastFileProcessed[2] < monitoringFile[2]
        BY <2>1, <3>2, <4>4 DEF MonitoredIsNext, After
      <4>6. \A i \in DOMAIN data[fils] :
              data[fils][i].file[2] <= lastFileProcessed[2]
        BY <2>1, <3>2 DEF BoundToPrefix, Stable
      <4> QED
        BY <4>1, <4>3, <4>4, <4>5, <4>6
    <3> QED
      BY <3>1, <3>2
  <2> QED
    BY <2>1, <2>2, <2>3, MakeOrder, MonitorAssumption
       DEF BoundToPrefix, MonitoredIsNext, ReadingBound
<1>9. CASE OpenFile
  <2>1. /\ Stable /\ MakeSigProcFiles(monitoringFile)
        /\ UNCHANGED <<monitoringFile, lastFileProcessed>>
        /\ pc = "poll" /\ pc' = "reading" /\ monitoringFile # NoFile
    BY <1>9 DEF OpenFile, Stable
  <2> QED
    BY <2>1, MakeOrder, MonitorAssumption
       DEF BoundToPrefix, MonitoredIsNext, ReadingBound, After
<1>10. CASE OpenThrows
  <2>1. /\ Stable /\ MakeSigProcFiles(monitoringFile)
        /\ UNCHANGED <<monitoringFile, lastFileProcessed>>
        /\ pc = "poll" /\ pc' = "failed" /\ monitoringFile # NoFile
    BY <1>10 DEF OpenThrows, Stable
  <2> QED
    BY <2>1, MakeOrder, MonitorAssumption
       DEF BoundToPrefix, MonitoredIsNext, ReadingBound, After
<1>11. CASE FinishFile
  <2>1. /\ pc = "reading" /\ Append1(NumSpec(inSize)) /\ NumSpec(inSize) \in Nat
        /\ lastFileProcessed' = monitoringFile /\ monitoringFile' = NoFile
        /\ pc' \notin {"start", "reading"} /\ UNCHANGED <<fils, prefix>>
    BY <1>11, NumSpecType
       DEF FinishFile, Advance, TypeInv, TypeOK, LocalsType
  <2>2. fils = prefix /\ prefix = monitoringFile[1] /\ prefix # NoPrefix
    BY <2>1, MonitorAssumption
       DEF ReadingBound, TypeInv, TypeOK, ReadingOK, LocalsType, Files
  <2> QED
    BY <2>1, <2>2, AppendOrder
       DEF BoundToPrefix, MonitoredIsNext, ReadingBound
<1>12. CASE Crash
  <2>1. pc' = "down" /\ UNCHANGED <<prefix, monitoringFile, lastFileProcessed>>
    BY <1>12 DEF Crash
  <2>2. InOrder'
    <3>1. CASE UNCHANGED data
      BY <3>1 DEF InOrder
    <3>2. ASSUME pc = "reading", NEW n \in 1..NumSpec(inSize), Append1(n)
          PROVE  InOrder'
      <4>1. n \in Nat
        BY <3>2, NumSpecType DEF TypeInv, TypeOK, LocalsType
      <4> QED
        BY <3>2, <4>1, AppendOrder
    <3> QED
      BY <1>12, <3>1, <3>2 DEF Crash
  <2> QED
    BY <2>1, <2>2 DEF BoundToPrefix, MonitoredIsNext, ReadingBound, After
<1>13. CASE Restart
  BY <1>13 DEF Restart, outs, BoundToPrefix, MonitoredIsNext, ReadingBound,
     InOrder
<1> QED
  BY <1>2, <1>3, <1>4, <1>5, <1>6, <1>7, <1>8, <1>9, <1>10, <1>11, <1>12,
     <1>13, <1>14 DEF Next, Monitoring

\* Whatever the recorder, an intruder, crashes and restarts do, the files in
\* every output come in the order of their names, none twice, all of the
\* output's prefix.
THEOREM AlwaysInOrder == Spec => []InOrder
<1>1. Init => TypeInv /\ OrderInv
  BY TypeInit, OrderInit
<1>2. TypeInv /\ OrderInv /\ [Next]_vars => TypeInv' /\ OrderInv'
  BY TypeStep, OrderStep
<1>3. OrderInv => InOrder
  BY DEF OrderInv
<1> QED
  BY <1>1, <1>2, <1>3, PTL DEF Spec

-----------------------------------------------------------------------------
(* Counting the files is enough to notice a late one.                      *)

\* The directory holds finitely many files, all of them recorded.
DirectoryFinite ==
  IsFiniteSet(recorded) /\ disk \subseteq recorded

\* numProcessed counts what the process has handled, which is recorded and
\* not after the last file handled.
HandledCounted ==
  /\ IsFiniteSet(handled) /\ Cardinality(handled) = numProcessed
  /\ handled \subseteq recorded
  /\ monitoringFile # NoFile => monitoringFile \in recorded
  /\ \A h \in handled :
       /\ lastFileProcessed # NoFile
       /\ h[1] = lastFileProcessed[1] /\ h[2] <= lastFileProcessed[2]

CountInv == DirectoryFinite /\ HandledCounted

LEMMA CountInit == Init => CountInv
BY FS_EmptySet DEF Init, CountInv, DirectoryFinite, HandledCounted

\* The bookkeeping after a file counts it.
LEMMA AdvanceCount ==
  ASSUME TypeInv, OrderInv, CountInv, monitoringFile # NoFile, pc # "down",
         prefix' = monitoringFile[1],
         NEW m \in Nat, NEW n \in Nat, Advance(m, n), recorded' = recorded
  PROVE  HandledCounted'
<1>1. /\ lastFileProcessed' = monitoringFile /\ monitoringFile' = NoFile
      /\ numProcessed' = numProcessed + 1
      /\ handled' = handled \cup {monitoringFile}
  BY DEF Advance
<1>2. monitoringFile \in Files /\ monitoringFile[2] \in Nat
  BY DEF TypeInv, TypeOK, LocalsType, Files
<1>3. \A h \in handled : h[1] = monitoringFile[1] /\ h[2] < monitoringFile[2]
  <2> SUFFICES ASSUME NEW h \in handled
               PROVE  h[1] = monitoringFile[1] /\ h[2] < monitoringFile[2]
    OBVIOUS
  <2>1. /\ lastFileProcessed # NoFile /\ h[1] = lastFileProcessed[1]
        /\ h[2] <= lastFileProcessed[2]
    BY DEF CountInv, HandledCounted
  <2>2. lastFileProcessed[2] \in Nat /\ h[2] \in Nat
    BY <2>1 DEF TypeInv, TypeOK, LocalsType, Files
  <2>3. /\ lastFileProcessed[1] = monitoringFile[1]
        /\ monitoringFile[2] > lastFileProcessed[2]
    BY <2>1 DEF OrderInv, BoundToPrefix, MonitoredIsNext, After
  <2> QED
    BY <1>2, <2>1, <2>2, <2>3
<1>4. monitoringFile \notin handled
  BY <1>2, <1>3
<1>5. IsFiniteSet(handled') /\ Cardinality(handled') = numProcessed'
  BY <1>1, <1>4, FS_AddElement DEF CountInv, HandledCounted
<1>6. \A h \in handled' : h[1] = monitoringFile[1] /\ h[2] <= monitoringFile[2]
  <2>1. \A h \in handled : h[2] \in Nat
    BY DEF TypeInv, TypeOK, LocalsType, Files
  <2> QED
    BY <1>1, <1>2, <1>3, <2>1
<1> QED
  BY <1>1, <1>5, <1>6 DEF CountInv, HandledCounted

LEMMA CountStep == TypeInv /\ OrderInv /\ CountInv /\ [Next]_vars => CountInv'
<1> SUFFICES ASSUME TypeInv, OrderInv, CountInv, [Next]_vars PROVE CountInv'
  OBVIOUS
<1>1. ASSUME UNCHANGED <<disk, recorded>>
      PROVE  DirectoryFinite'
  BY <1>1 DEF CountInv, DirectoryFinite
<1>2. ASSUME recorded \subseteq recorded',
             UNCHANGED <<handled, numProcessed, monitoringFile,
                         lastFileProcessed>>
      PROVE  HandledCounted'
  BY <1>2 DEF CountInv, HandledCounted
<1>3. ASSUME NEW f \in Files, Create(f) PROVE CountInv'
  <2>1. DirectoryFinite'
    BY <1>3, FS_AddElement DEF Create, CountInv, DirectoryFinite
  <2> QED
    BY <1>2, <1>3, <2>1 DEF Create, CountInv, locals
<1>4. ASSUME NEW f \in Files, Remove(f) PROVE CountInv'
  <2>1. DirectoryFinite'
    BY <1>4 DEF Remove, CountInv, DirectoryFinite
  <2> QED
    BY <1>2, <1>4, <2>1 DEF Remove, CountInv, locals
<1>5. ASSUME NEW f \in Files, Extend(f) \/ Close(f) \/ Truncate(f) PROVE CountInv'
  BY <1>1, <1>2, <1>5 DEF Extend, Close, Truncate, CountInv, locals
<1>6. CASE Tick \/ NothingNew \/ PickThrows \/ SizeThrows \/ UNCHANGED vars
  BY <1>1, <1>2, <1>6 DEF Tick, NothingNew, PickThrows, SizeThrows, vars,
     disks, locals, CountInv
<1>7. CASE Start \/ SizeSame \/ SizeGrown \/ OpenFile \/ OpenThrows \/ Crash
  BY <1>1, <1>2, <1>7 DEF Start, SizeSame, SizeGrown, OpenFile, OpenThrows,
     Crash, disks, CountInv
<1>8. CASE Pick
  <2>1. monitoringFile' \in disk
    BY <1>8 DEF Pick, Next1, Newer, InDir
  <2> QED
    BY <1>1, <1>8, <2>1
       DEF Pick, disks, CountInv, HandledCounted, DirectoryFinite
<1>9. CASE SkipFile
  <2>1. /\ Stable /\ MakeSigProcFiles(monitoringFile) /\ pc = "poll"
        /\ monitoringFile # NoFile
        /\ Advance(numActuallyProcessed, numSkipped + 1)
        /\ UNCHANGED <<disk, recorded>>
    BY <1>9 DEF SkipFile, Stable, disks
  <2>2. numActuallyProcessed \in Nat /\ numSkipped + 1 \in Nat
    BY DEF TypeInv, TypeOK, LocalsType
  <2> QED
    BY <1>1, <2>1, <2>2, MakeOrder, AdvanceCount DEF CountInv
<1>10. CASE FinishFile
  <2>1. /\ pc = "reading" /\ UNCHANGED <<disk, recorded, prefix>>
        /\ Advance(numActuallyProcessed + 1, numSkipped)
    BY <1>10 DEF FinishFile, disks
  <2>2. numActuallyProcessed + 1 \in Nat /\ numSkipped \in Nat
    BY DEF TypeInv, TypeOK, LocalsType
  <2>3. monitoringFile # NoFile /\ prefix = monitoringFile[1]
    BY <2>1 DEF TypeInv, ReadingOK, OrderInv, ReadingBound
  <2> QED
    BY <1>1, <2>1, <2>2, <2>3, AdvanceCount DEF CountInv
<1>11. CASE Restart
  BY <1>1, <1>11, FS_EmptySet DEF Restart, disks, CountInv, HandledCounted
<1> QED
  BY <1>3, <1>4, <1>5, <1>6, <1>7, <1>8, <1>9, <1>10, <1>11
     DEF Next, Recorder, Writes, Intruder, Monitoring

\* The index check makes the handled files exactly those below the picked one:
\* they are among them, and there are as many.
LEMMA PickIsComplete ==
  ASSUME TypeInv, OrderInv, CountInv, Pick, disk = recorded
  PROVE  {g \in disk : g[1] = monitoringFile'[1]
                       /\ g[2] < monitoringFile'[2]} = handled
<1> DEFINE G == {g \in disk : g[1] = monitoringFile'[1]
                              /\ g[2] < monitoringFile'[2]}
<1>1. PICK p \in Filter(prefix) :
        \E f \in Next1(p) : Index(f) = numProcessed /\ monitoringFile' = f
  BY DEF Pick
<1>2. PICK f \in Next1(p) : Index(f) = numProcessed /\ monitoringFile' = f
  BY <1>1
<1>3. f \in disk /\ f[1] = p /\ After(f, lastFileProcessed)
  BY <1>2 DEF Next1, Newer, InDir
<1>4. {g \in InDir(f[1]) : g[2] < f[2]} = G
  BY <1>2 DEF InDir
<1>5. Cardinality(G) = Cardinality(handled)
  BY <1>2, <1>4 DEF Index, CountInv, HandledCounted
<1>6. IsFiniteSet(G)
  <2>1. G \in SUBSET recorded
    BY DEF CountInv, DirectoryFinite
  <2> QED
    BY <2>1, FS_Subset DEF CountInv, DirectoryFinite
<1>7. handled \in SUBSET G
  <2> SUFFICES ASSUME NEW h \in handled PROVE h \in G
    OBVIOUS
  <2>1. /\ lastFileProcessed # NoFile /\ h[1] = lastFileProcessed[1]
        /\ h[2] <= lastFileProcessed[2] /\ h \in disk
    BY DEF CountInv, HandledCounted
  <2>2. p = lastFileProcessed[1]
    BY <2>1 DEF Pick, Looking, OrderInv, BoundToPrefix, Filter
  <2>3. h[2] < f[2]
    <3>1. h[2] \in Nat /\ f[2] \in Nat /\ lastFileProcessed[2] \in Nat
      BY <1>3, <2>1 DEF TypeInv, TypeOK, DiskType, LocalsType, Files
    <3> QED
      BY <1>3, <2>1, <3>1 DEF After
  <2> QED
    BY <1>2, <1>3, <2>1, <2>2, <2>3
<1> QED
  BY <1>5, <1>6, <1>7, FS_Subset

\* As long as nothing has been removed, a file is picked only when every file
\* below it has been processed or skipped, however late files appear.
THEOREM PickSkipsNothingHolds == Spec => PickSkipsNothing
<1>1. Init => TypeInv /\ OrderInv /\ CountInv
  BY TypeInit, OrderInit, CountInit
<1>2. TypeInv /\ OrderInv /\ CountInv /\ [Next]_vars
        => TypeInv' /\ OrderInv' /\ CountInv'
  BY TypeStep, OrderStep, CountStep
<1>3. TypeInv /\ OrderInv /\ CountInv /\ [Next]_vars
        => [Pick /\ disk = recorded =>
              {g \in disk : g[1] = monitoringFile'[1]
                            /\ g[2] < monitoringFile'[2]} = handled]_vars
  BY PickIsComplete
<1> QED
  BY <1>1, <1>2, <1>3, PTL DEF Spec, PickSkipsNothing

-----------------------------------------------------------------------------
(* The outputs are archives.                                               *)

\* No outputs are open before the first file; those that are open have a
\* header, and it names a file that nothing appended comes before.
OpenInv ==
  /\ pc \notin {"reading", "failed", "down"} /\ lastFileProcessed = NoFile
       => fils = NoPrefix
  /\ pc = "down" => fils = NoPrefix
  /\ fils # NoPrefix =>
       /\ rawdatafile[fils] # NoFile
       /\ lastFileProcessed # NoFile
            => rawdatafile[fils][2] <= lastFileProcessed[2]
       /\ pc = "reading" => rawdatafile[fils][2] <= monitoringFile[2]

LEMMA OpenInit == Init => OpenInv
BY DEF Init, OpenInv

\* While a process has handled nothing, the monitored file opens the outputs
\* of its prefix; afterwards nothing is opened.
LEMMA MakeOpen ==
  ASSUME TypeInv, OrderInv, OpenInv, Stable, MakeSigProcFiles(monitoringFile)
  PROVE  /\ monitoringFile \in Files /\ fils' \in Prefixes
         /\ rawdatafile'[fils'] \in Files
         /\ rawdatafile'[fils'][2] <= monitoringFile[2]
         /\ lastFileProcessed = NoFile =>
              /\ fils = NoPrefix /\ fils' = monitoringFile[1]
              /\ rawdatafile' = [rawdatafile EXCEPT ![fils'] = monitoringFile]
              /\ data' = [data EXCEPT ![fils'] = <<>>]
<1>1. /\ monitoringFile \in Files /\ monitoringFile[1] \in Prefixes
      /\ monitoringFile[2] \in Nat /\ monitoringFile # NoFile /\ pc = "poll"
      /\ rawdatafile \in [Prefixes -> Files \cup {NoFile}]
  BY DEF Stable, TypeInv, TypeOK, LocalsType, OutsType, Files
<1>2. fils' \in Prefixes /\ fils' = monitoringFile[1]
  BY MakeOrder
<1>3. CASE lastFileProcessed = NoFile
  <2>1. fils = NoPrefix
    BY <1>1, <1>3 DEF OpenInv
  <2>2. /\ fils' = IF prefix = NoPrefix THEN monitoringFile[1] ELSE prefix
        /\ rawdatafile' = [rawdatafile EXCEPT ![fils'] = monitoringFile]
        /\ data' = [data EXCEPT ![fils'] = <<>>]
    BY <1>3 DEF MakeSigProcFiles
  <2>3. rawdatafile'[fils'] = monitoringFile
    BY <1>1, <1>2, <2>2
  <2> QED
    BY <1>1, <1>2, <1>3, <2>1, <2>2, <2>3
<1>4. CASE lastFileProcessed # NoFile
  <2>1. rawdatafile' = rawdatafile /\ fils' = fils
    BY <1>4 DEF MakeSigProcFiles, outs
  <2>2. /\ fils # NoPrefix /\ rawdatafile[fils] \in Files
        /\ rawdatafile[fils][2] <= lastFileProcessed[2]
    BY <1>1, <1>2, <1>4, <2>1, MonitorAssumption DEF OpenInv
  <2>3. /\ rawdatafile[fils][2] \in Nat /\ lastFileProcessed[2] \in Nat
        /\ lastFileProcessed[2] < monitoringFile[2]
    BY <1>1, <1>4, <2>2 DEF TypeInv, TypeOK, LocalsType, Files, OrderInv,
       MonitoredIsNext, After
  <2> QED
    BY <1>1, <1>2, <1>4, <2>1, <2>2, <2>3
<1> QED
  BY <1>3, <1>4

LEMMA OpenStep == TypeInv /\ OrderInv /\ OpenInv /\ [Next]_vars => OpenInv'
<1> SUFFICES ASSUME TypeInv, OrderInv, OpenInv, [Next]_vars PROVE OpenInv'
  OBVIOUS
<1>1. CASE Recorder \/ Intruder \/ UNCHANGED vars
  BY <1>1 DEF Recorder, Intruder, Create, Writes, Extend, Close, Remove,
     Truncate, vars, locals, outs, OpenInv
<1>2. CASE Start \/ Tick \/ NothingNew \/ PickThrows \/ SizeThrows
  BY <1>2 DEF Start, Tick, NothingNew, PickThrows, SizeThrows, Looking,
     Waiting, locals, outs, OpenInv
<1>3. CASE Pick \/ SizeSame \/ SizeGrown
  BY <1>3 DEF Pick, Looking, SizeSame, SizeGrown, Waiting, outs, OpenInv
<1>4. CASE SkipFile
  <2>1. /\ Stable /\ MakeSigProcFiles(monitoringFile)
        /\ lastFileProcessed' = monitoringFile
        /\ pc' \in {"sleep", "exited"}
    BY <1>4 DEF SkipFile, Advance
  <2> QED
    BY <2>1, MakeOpen, MonitorAssumption DEF OpenInv
<1>5. CASE OpenFile \/ OpenThrows
  <2>1. /\ Stable /\ MakeSigProcFiles(monitoringFile) /\ pc = "poll"
        /\ UNCHANGED <<lastFileProcessed, monitoringFile>>
        /\ pc' \in {"reading", "failed"}
    BY <1>5 DEF OpenFile, OpenThrows, Stable
  <2>2. /\ rawdatafile'[fils'] # NoFile
        /\ rawdatafile'[fils'][2] <= monitoringFile[2]
    BY <2>1, MakeOpen, MonitorAssumption
  <2>3. lastFileProcessed # NoFile =>
          rawdatafile'[fils'][2] <= lastFileProcessed[2]
    <3>1. SUFFICES ASSUME lastFileProcessed # NoFile
                   PROVE  rawdatafile'[fils'][2] <= lastFileProcessed[2]
      OBVIOUS
    <3>2. rawdatafile' = rawdatafile /\ fils' = fils
      BY <2>1, <3>1 DEF MakeSigProcFiles, outs
    <3>3. fils # NoPrefix
      BY <2>1, <3>1 DEF OrderInv, BoundToPrefix
    <3> QED
      BY <3>1, <3>2, <3>3 DEF OpenInv
  <2> QED
    BY <2>1, <2>2, <2>3 DEF OpenInv
<1>6. CASE FinishFile
  <2>1. /\ pc = "reading" /\ lastFileProcessed' = monitoringFile
        /\ pc' \in {"sleep", "exited"} /\ UNCHANGED <<fils, rawdatafile>>
    BY <1>6 DEF FinishFile, Advance
  <2>2. monitoringFile # NoFile
    BY <2>1 DEF TypeInv, ReadingOK
  <2> QED
    BY <2>1, <2>2 DEF OpenInv
<1>7. CASE Crash \/ Restart
  BY <1>7 DEF Crash, Restart, OpenInv
<1> QED
  BY <1>1, <1>2, <1>3, <1>4, <1>5, <1>6, <1>7 DEF Next, Monitoring

\* The files of an output to which a chunk is appended.
LEMMA FilesOfAppend ==
  ASSUME NEW s \in Seq(Chunks), NEW c \in Chunks
  PROVE  FilesOf(Append(s, c)) = Append(FilesOf(s), c.file)
<1> DEFINE l == FilesOf(Append(s, c))
           r == Append(FilesOf(s), c.file)
<1>1. /\ DOMAIN s = 1..Len(s) /\ Len(s) \in Nat
      /\ DOMAIN Append(s, c) = 1..(Len(s) + 1)
      /\ Append(s, c)[Len(s) + 1] = c
      /\ \A i \in 1..Len(s) : Append(s, c)[i] = s[i]
  OBVIOUS
<1>2. FilesOf(s) \in Seq(Files) /\ Len(FilesOf(s)) = Len(s)
  <2>1. \A i \in 1..Len(s) : s[i] \in Chunks
    BY <1>1
  <2>2. \A i \in 1..Len(s) : s[i].file \in Files
    BY <2>1 DEF Chunks
  <2> QED
    BY <1>1, <2>2 DEF FilesOf
<1>3. c.file \in Files
  BY DEF Chunks
<1>4. /\ r \in Seq(Files) /\ Len(r) = Len(s) + 1
      /\ r[Len(s) + 1] = c.file
      /\ \A i \in 1..Len(s) : r[i] = s[i].file
  BY <1>1, <1>2, <1>3 DEF FilesOf
<1>5. /\ l = [i \in 1..(Len(s) + 1) |-> Append(s, c)[i].file]
  BY <1>1 DEF FilesOf
<1>6. r = [i \in 1..(Len(s) + 1) |-> r[i]]
  BY <1>4
<1> HIDE DEF r
<1>7. \A i \in 1..(Len(s) + 1) : Append(s, c)[i].file = r[i]
  BY <1>1, <1>4
<1>8. l = r
  BY <1>5, <1>6, <1>7
<1> QED
  BY <1>8 DEF r

LEMMA FilesOfEmpty == FilesOf(<<>>) = <<>>
BY DEF FilesOf

\* Appending the file being read adds it to the open archive, where it may
\* follow.
LEMMA AppendAdds ==
  ASSUME TypeInv, OrderInv, OpenInv, pc = "reading", NEW n \in Nat, Append1(n)
  PROVE  /\ monitoringFile \in Files
         /\ A!Follows(monitoringFile) /\ A!Extended(monitoringFile)
<1> DEFINE c == [file |-> monitoringFile, num |-> n]
<1>1. /\ monitoringFile \in Files /\ monitoringFile[2] \in Nat
      /\ fils \in Prefixes /\ fils # NoPrefix /\ fils = monitoringFile[1]
      /\ data \in [Prefixes -> Seq(Chunks)]
      /\ rawdatafile \in [Prefixes -> Files \cup {NoFile}]
  BY MonitorAssumption DEF TypeInv, TypeOK, ReadingOK, LocalsType, OutsType,
     OrderInv, ReadingBound, Files
<1>c. c \in Chunks
  BY <1>1 DEF Chunks
<1>2. data' = [data EXCEPT ![fils] = Append(data[fils], c)]
  BY DEF Append1
<1>3. A!Follows(monitoringFile)
  <2>1. /\ rawdatafile[fils] \in Files
        /\ rawdatafile[fils][2] <= monitoringFile[2]
    BY <1>1 DEF OpenInv
  <2>2. rawdatafile[fils][2] \in Nat
    BY <2>1 DEF Files
  <2>3. \A i \in DOMAIN data[fils] : data[fils][i].file[2] < monitoringFile[2]
    <3> DEFINE d == data[fils]
    <3>1. /\ InOrder' /\ data'[fils] = Append(d, c) /\ d \in Seq(Chunks)
          /\ c \in Chunks
      BY <1>1, <1>c, <1>2, AppendOrder
    <3> HIDE DEF d, c
    <3>2. /\ DOMAIN Append(d, c) = 1..(Len(d) + 1)
          /\ DOMAIN d = 1..Len(d) /\ Len(d) \in Nat
          /\ Append(d, c)[Len(d) + 1] = c
          /\ \A i \in 1..Len(d) : Append(d, c)[i] = d[i]
      BY <1>1, <3>1
    <3>3. \A i, j \in DOMAIN data'[fils] :
            i < j => data'[fils][i].file[2] < data'[fils][j].file[2]
      BY <1>1, <3>1 DEF InOrder
    <3>4. c.file = monitoringFile
      BY DEF c
    <3>5. \A i \in DOMAIN d : d[i].file[2] < monitoringFile[2]
      <4> SUFFICES ASSUME NEW i \in 1..Len(d)
                   PROVE  d[i].file[2] < monitoringFile[2]
        BY <3>2
      <4>1. /\ i \in 1..(Len(d) + 1) /\ Len(d) + 1 \in 1..(Len(d) + 1)
            /\ i < Len(d) + 1
        BY <3>2
      <4> QED
        BY <3>1, <3>2, <3>3, <3>4, <4>1
    <3> QED
      BY <3>5 DEF d
  <2> QED
    BY <1>1, <2>1, <2>2, <2>3 DEF A!Follows, FilesOf
<1>4. A!Extended(monitoringFile)
  <2>1. /\ FilesOf(data'[fils]) = Append(FilesOf(data[fils]), monitoringFile)
        /\ \A p \in Prefixes \ {fils} : data'[p] = data[p]
    BY <1>1, <1>c, <1>2, FilesOfAppend
  <2> QED
    BY <1>1, <2>1 DEF A!Extended
<1> QED
  BY <1>1, <1>3, <1>4

\* Creating the outputs begins an archive, or changes nothing.
LEMMA MakeBegins ==
  ASSUME TypeInv, OrderInv, OpenInv, Stable, MakeSigProcFiles(monitoringFile)
  PROVE  A!Next \/ UNCHANGED A!vars
<1>1. CASE lastFileProcessed = NoFile
  <2>1. /\ monitoringFile \in Files /\ fils' \in Prefixes
        /\ fils = NoPrefix /\ fils' = monitoringFile[1]
        /\ rawdatafile' = [rawdatafile EXCEPT ![fils'] = monitoringFile]
        /\ data' = [data EXCEPT ![fils'] = <<>>]
    BY <1>1, MakeOpen
  <2>2. /\ FilesOf(data'[fils']) = <<>>
        /\ \A p \in Prefixes \ {fils'} : data'[p] = data[p]
    BY <2>1, FilesOfEmpty DEF TypeInv, TypeOK, OutsType
  <2> DEFINE p == monitoringFile[1]
             new == [q \in Prefixes |-> FilesOf(data'[q])]
             old == [q \in Prefixes |-> FilesOf(data[q])]
  <2>3. new = [old EXCEPT ![p] = <<>>]
    <3>1. \A q \in Prefixes : new[q] = FilesOf(data'[q])
      OBVIOUS
    <3>2. \A q \in Prefixes \ {p} : new[q] = old[q]
      BY <2>1, <2>2, <3>1
    <3>3. p \in Prefixes /\ new[p] = <<>>
      BY <2>1, <2>2, <3>1
    <3>4. DOMAIN new = Prefixes /\ DOMAIN old = Prefixes
      OBVIOUS
    <3>5. new = [q \in Prefixes |-> new[q]]
      OBVIOUS
    <3>6. [old EXCEPT ![p] = <<>>]
            = [q \in Prefixes |-> IF q = p THEN <<>> ELSE old[q]]
      OBVIOUS
    <3> HIDE DEF new, old, p
    <3> QED
      BY <3>2, <3>3, <3>5, <3>6
  <2>4. A!Begin(monitoringFile)
    BY <2>1, <2>3 DEF A!Begin
  <2> QED
    BY <2>1, <2>4 DEF A!Next, A!Files, Files
<1>2. CASE lastFileProcessed # NoFile
  BY <1>2 DEF MakeSigProcFiles, outs, A!vars
<1> QED
  BY <1>1, <1>2

LEMMA ArchiveInit == Init => A!Init
BY FilesOfEmpty DEF Init, A!Init

LEMMA ArchiveStep ==
  TypeInv /\ OrderInv /\ OpenInv /\ [Next]_vars => [A!Next]_(A!vars)
<1> SUFFICES ASSUME TypeInv, OrderInv, OpenInv, [Next]_vars
             PROVE  A!Next \/ UNCHANGED A!vars
  OBVIOUS
<1>1. CASE UNCHANGED <<fils, outs>>
  BY <1>1 DEF outs, A!vars
<1>2. CASE Recorder \/ Intruder \/ UNCHANGED vars
  BY <1>1, <1>2 DEF Recorder, Intruder, Create, Writes, Extend, Close,
     Remove, Truncate, vars, locals
<1>3. CASE Start \/ Tick \/ NothingNew \/ PickThrows \/ SizeThrows
  BY <1>1, <1>3 DEF Start, Tick, NothingNew, PickThrows, SizeThrows, locals
<1>4. CASE Pick \/ SizeSame \/ SizeGrown
  BY <1>1, <1>4 DEF Pick, SizeSame, SizeGrown
<1>5. CASE SkipFile \/ OpenFile \/ OpenThrows
  BY <1>5, MakeBegins DEF SkipFile, OpenFile, OpenThrows
<1>6. CASE FinishFile
  <2>1. /\ pc = "reading" /\ Append1(NumSpec(inSize)) /\ NumSpec(inSize) \in Nat
        /\ UNCHANGED <<fils, rawdatafile>>
    BY <1>6, NumSpecType DEF FinishFile, TypeInv, TypeOK, LocalsType
  <2> QED
    BY <2>1, AppendAdds DEF A!Next, A!Add, A!Files, Files
<1>7. CASE Crash
  <2>1. fils' = NoPrefix /\ rawdatafile' = rawdatafile
    BY <1>7 DEF Crash
  <2>2. CASE UNCHANGED data
    BY <2>1, <2>2 DEF A!Next, A!Stop
  <2>3. ASSUME pc = "reading", NEW n \in 1..NumSpec(inSize), Append1(n)
        PROVE  A!Next
    <3>1. n \in Nat
      BY <2>3, NumSpecType DEF TypeInv, TypeOK, LocalsType
    <3> QED
      BY <2>1, <2>3, <3>1, AppendAdds DEF A!Next, A!Stop, A!Files, Files
  <2> QED
    BY <1>7, <2>2, <2>3 DEF Crash
<1>8. CASE Restart
  BY <1>8 DEF Restart, outs, A!Next, A!Stop
<1> QED
  BY <1>2, <1>3, <1>4, <1>5, <1>6, <1>7, <1>8 DEF Next, Monitoring

\* Whatever the recorder, an intruder, crashes and restarts do, the outputs are
\* the archives of module Archive: a process empties at most one, before it adds
\* anything, and then only adds files that may follow.
THEOREM Implements == Spec => ArchiveSpec
<1>1. Init => TypeInv /\ OrderInv /\ OpenInv /\ A!Init
  BY TypeInit, OrderInit, OpenInit, ArchiveInit
<1>2. TypeInv /\ OrderInv /\ OpenInv /\ [Next]_vars
        => TypeInv' /\ OrderInv' /\ OpenInv'
  BY TypeStep, OrderStep, OpenStep
<1>3. TypeInv /\ OrderInv /\ OpenInv /\ [Next]_vars => [A!Next]_(A!vars)
  BY ArchiveStep
<1> QED
  BY <1>1, <1>2, <1>3, PTL DEF Spec, ArchiveSpec, A!Spec

-----------------------------------------------------------------------------
(***************************************************************************)
(* From here on the recorder is tidy, and the monitor may crash and be     *)
(* started again.                                                          *)
(***************************************************************************)

\* Nothing is removed, closed files hold whole spectra, and an open file has
\* not been silent for longer than MaxStall.
DiskTidy ==
  /\ closed \subseteq disk /\ disk = recorded
  /\ \A f \in closed : Integral(size[f])
  /\ \A f \in disk \ closed : quiet[f] <= MaxStall

\* The monitor has seen no more than there is; as long as an open file has the
\* size it last saw, the unchanged polls are no more than the silent seconds
\* and the first poll of an empty file; so they cannot reach StablePolls.
CountBounded ==
  IF monitoringFile = NoFile THEN lastSize = 0
  ELSE /\ monitoringFile \in disk /\ lastSize <= size[monitoringFile]
       /\ monitoringFile \notin closed =>
            /\ numNoChange < StablePolls
            /\ size[monitoringFile] = lastSize =>
                 /\ numNoChange <= quiet[monitoringFile] + 1
                 /\ pc = "poll" => numNoChange <= quiet[monitoringFile]

\* The file being read is closed and was opened at its final size.
ReadingWhole ==
  pc = "reading" => monitoringFile \in closed /\ inSize = size[monitoringFile]

StableInv == DiskTidy /\ CountBounded /\ ReadingWhole

LEMMA StableInit == Init => StableInv
BY DEF Init, StableInv, DiskTidy, CountBounded, ReadingWhole

LEMMA StableStep ==
  ASSUME Tidy, TypeInv, OrderInv, StableInv, [Next]_vars PROVE StableInv'
<1>a. /\ Faults \subseteq {"crash"} /\ MaxStall + 1 < StablePolls
      /\ MaxStall \in Nat /\ StablePolls \in Nat /\ QuietCap \in Nat
      /\ MaxStall <= QuietCap /\ NoFile \notin Files
  BY MonitorAssumption DEF Tidy
<1>t. /\ disk \subseteq Files /\ closed \subseteq Files
      /\ size \in [Files -> 0..MaxSize] /\ quiet \in [Files -> 0..QuietCap]
      /\ monitoringFile \in Files \cup {NoFile} /\ numNoChange \in Nat
      /\ lastSize \in Nat /\ MaxSize \in Nat
  BY MonitorAssumption DEF TypeInv, TypeOK, DiskType, LocalsType
<1>i. DiskTidy /\ CountBounded /\ ReadingWhole
  BY DEF StableInv
<1>1. ASSUME NEW f \in Files, Create(f) PROVE StableInv'
  <2>1. /\ f \notin disk /\ disk' = disk \cup {f} /\ recorded' = recorded \cup {f}
        /\ size' = [size EXCEPT ![f] = 0] /\ quiet' = [quiet EXCEPT ![f] = 0]
        /\ UNCHANGED <<closed, pc, monitoringFile, lastSize, numNoChange, inSize>>
    BY <1>1, <1>i DEF Create, locals, DiskTidy
  <2>2. DiskTidy'
    BY <1>a, <1>t, <1>i, <2>1 DEF DiskTidy, Integral, NumSpec, DataBlocks
  <2>3. CountBounded'
    BY <1>a, <1>t, <1>i, <2>1 DEF CountBounded
  <2>4. ReadingWhole'
    BY <1>t, <1>i, <2>1 DEF ReadingWhole, DiskTidy
  <2> QED
    BY <2>2, <2>3, <2>4 DEF StableInv
<1>2. ASSUME NEW f \in Files, Extend(f) PROVE StableInv'
  <2>1. /\ f \in disk \ closed /\ size' = [size EXCEPT ![f] = size[f] + 1]
        /\ quiet' = [quiet EXCEPT ![f] = 0]
        /\ UNCHANGED <<disk, recorded, closed, pc, monitoringFile, lastSize,
                       numNoChange, inSize>>
    BY <1>2 DEF Extend, locals
  <2>2. DiskTidy'
    BY <1>a, <1>t, <1>i, <2>1 DEF DiskTidy, Integral, NumSpec, DataBlocks
  <2>3. CountBounded'
    BY <1>a, <1>t, <1>i, <2>1 DEF CountBounded
  <2>4. ReadingWhole'
    BY <1>t, <1>i, <2>1 DEF ReadingWhole
  <2> QED
    BY <2>2, <2>3, <2>4 DEF StableInv
<1>3. ASSUME NEW f \in Files, Close(f) PROVE StableInv'
  <2>1. /\ f \in disk \ closed /\ Integral(size[f]) /\ closed' = closed \cup {f}
        /\ quiet' = [quiet EXCEPT ![f] = 0]
        /\ UNCHANGED <<disk, recorded, size, pc, monitoringFile, lastSize,
                       numNoChange, inSize>>
    BY <1>3 DEF Close, locals
  <2>2. DiskTidy'
    BY <1>a, <1>t, <1>i, <2>1 DEF DiskTidy, Integral, NumSpec, DataBlocks
  <2>3. CountBounded'
    BY <1>a, <1>t, <1>i, <2>1 DEF CountBounded
  <2>4. ReadingWhole'
    BY <1>t, <1>i, <2>1 DEF ReadingWhole
  <2> QED
    BY <2>2, <2>3, <2>4 DEF StableInv
<1>4. ASSUME NEW f \in Files, Remove(f) \/ Truncate(f) PROVE StableInv'
  BY <1>a, <1>4 DEF Remove, Truncate
<1>5. CASE Tick
  <2>1. /\ \A f \in disk \ closed : quiet[f] < MaxStall
        /\ UNCHANGED <<disk, recorded, closed, size, monitoringFile, lastSize,
                       numNoChange, inSize>>
        /\ pc' = "reading" => pc = "reading"
        /\ pc' = "poll" => pc \in {"sleep", "poll"}
    BY <1>a, <1>5 DEF Tick, locals
  <2>2. \A f \in disk \ closed : quiet'[f] = quiet[f] + 1
    BY <1>a, <1>t, <1>5, <2>1 DEF Tick
  <2>3. DiskTidy'
    BY <1>a, <1>t, <1>i, <2>1, <2>2 DEF DiskTidy, Integral, NumSpec, DataBlocks
  <2>4. CountBounded'
    BY <1>a, <1>t, <1>i, <2>1, <2>2 DEF CountBounded
  <2>5. ReadingWhole'
    BY <1>i, <2>1 DEF ReadingWhole
  <2> QED
    BY <2>3, <2>4, <2>5 DEF StableInv
<1>6. ASSUME UNCHANGED disks PROVE DiskTidy'
  BY <1>6, <1>i DEF disks, DiskTidy, Integral, NumSpec, DataBlocks
<1>7. CASE Start \/ NothingNew \/ PickThrows \/ SizeThrows \/ UNCHANGED vars
  <2>1. /\ UNCHANGED disks /\ UNCHANGED <<monitoringFile, lastSize, numNoChange, inSize>>
        /\ pc' \in {"poll", "sleep", "failed"} \/ pc' = pc
        /\ pc' = "poll" => pc = "poll" \/ pc = "start"
    BY <1>7 DEF Start, NothingNew, PickThrows, SizeThrows, vars, locals
  <2>2. pc = "start" => monitoringFile = NoFile
    BY DEF OrderInv, FreshAtStart
  <2>3. CountBounded' /\ ReadingWhole'
    BY <1>i, <2>1, <2>2 DEF CountBounded, ReadingWhole, disks
  <2> QED
    BY <1>6, <2>1, <2>3 DEF StableInv
<1>8. CASE Pick
  <2>1. /\ monitoringFile' \in disk /\ numNoChange' = 0 /\ lastSize' = lastSize
        /\ monitoringFile = NoFile /\ pc' = "poll" /\ UNCHANGED disks
    BY <1>8 DEF Pick, Looking, Next1, Newer, InDir
  <2>2. CountBounded' /\ ReadingWhole'
    BY <1>a, <1>t, <1>i, <2>1 DEF CountBounded, ReadingWhole, disks
  <2> QED
    BY <1>6, <2>1, <2>2 DEF StableInv
<1>9. CASE SizeSame
  <2>1. /\ pc = "poll" /\ monitoringFile \in disk /\ monitoringFile # NoFile
        /\ size[monitoringFile] = lastSize /\ numNoChange' = numNoChange + 1
        /\ pc' = "sleep"
        /\ UNCHANGED disks /\ UNCHANGED <<monitoringFile, lastSize, inSize>>
    BY <1>9 DEF SizeSame, Waiting
  <2>2. monitoringFile \notin closed =>
          numNoChange + 1 <= quiet[monitoringFile] + 1
          /\ quiet[monitoringFile] <= MaxStall
    BY <1>t, <1>i, <2>1, <1>a DEF CountBounded, DiskTidy
  <2>3. CountBounded' /\ ReadingWhole'
    BY <1>a, <1>t, <1>i, <2>1, <2>2 DEF CountBounded, ReadingWhole, disks
  <2> QED
    BY <1>6, <2>1, <2>3 DEF StableInv
<1>10. CASE SizeGrown
  <2>1. /\ monitoringFile \in disk /\ monitoringFile # NoFile
        /\ lastSize' = size[monitoringFile] /\ numNoChange' = 0
        /\ pc' = "sleep"
        /\ UNCHANGED disks /\ UNCHANGED <<monitoringFile, inSize>>
    BY <1>10 DEF SizeGrown, Waiting
  <2>2. CountBounded' /\ ReadingWhole'
    BY <1>a, <1>t, <1>i, <2>1 DEF CountBounded, ReadingWhole, disks
  <2> QED
    BY <1>6, <2>1, <2>2 DEF StableInv
<1>11. CASE SkipFile \/ FinishFile
  <2>1. /\ UNCHANGED disks /\ monitoringFile' = NoFile /\ lastSize' = 0
        /\ pc' # "reading"
    BY <1>11 DEF SkipFile, FinishFile, Advance
  <2>2. CountBounded' /\ ReadingWhole'
    BY <2>1 DEF CountBounded, ReadingWhole
  <2> QED
    BY <1>6, <2>1, <2>2 DEF StableInv
<1>12. CASE OpenFile
  <2>1. /\ monitoringFile # NoFile /\ numNoChange = StablePolls
        /\ inSize' = size[monitoringFile] /\ pc' = "reading"
        /\ UNCHANGED disks /\ UNCHANGED <<monitoringFile, lastSize, numNoChange>>
    BY <1>12 DEF OpenFile, Stable
  <2>2. monitoringFile \in closed
    BY <1>i, <1>a, <2>1 DEF CountBounded
  <2>3. CountBounded' /\ ReadingWhole'
    BY <1>i, <2>1, <2>2 DEF CountBounded, ReadingWhole, disks
  <2> QED
    BY <1>6, <2>1, <2>3 DEF StableInv
<1>13. CASE OpenThrows \/ Crash
  <2>1. /\ UNCHANGED disks /\ UNCHANGED <<monitoringFile, lastSize, numNoChange>>
        /\ pc' \in {"failed", "down"}
    BY <1>13 DEF OpenThrows, Crash
  <2>2. CountBounded' /\ ReadingWhole'
    BY <1>i, <2>1 DEF CountBounded, ReadingWhole, disks
  <2> QED
    BY <1>6, <2>1, <2>2 DEF StableInv
<1>14. CASE Restart
  <2>1. /\ UNCHANGED disks /\ monitoringFile' = NoFile /\ lastSize' = 0
        /\ pc' = "start"
    BY <1>14 DEF Restart
  <2>2. CountBounded' /\ ReadingWhole'
    BY <2>1 DEF CountBounded, ReadingWhole
  <2> QED
    BY <1>6, <2>1, <2>2 DEF StableInv
<1> QED
  BY <1>1, <1>2, <1>3, <1>4, <1>5, <1>7, <1>8, <1>9, <1>10, <1>11, <1>12,
     <1>13, <1>14 DEF Next, Recorder, Writes, Intruder, Monitoring

-----------------------------------------------------------------------------
(* Only whole files reach the output.                                      *)

\* Chunk i of an output d of prefix p is whole, or is the last one of an
\* output that is not open.
ChunkOK(d, p, i) ==
  /\ d[i].file \in closed
  /\ \/ d[i].num = NumSpec(size[d[i].file])
     \/ i = Len(d) /\ fils # p /\ d[i].num < NumSpec(size[d[i].file])

LEMMA WholeFilesDef ==
  WholeFiles <=> \A p \in Prefixes : \A i \in DOMAIN data[p] : ChunkOK(data[p], p, i)
BY DEF WholeFiles, ChunkOK

LEMMA WholeInit == Init => WholeFiles
BY DEF Init, WholeFiles

\* Closing an output, by a crash or a restart, keeps it.
LEMMA WholeSameData ==
  ASSUME WholeFiles, data' = data, fils' = fils \/ fils' \notin Prefixes,
         closed \subseteq closed', \A f \in closed : size'[f] = size[f]
  PROVE  WholeFiles'
BY DEF WholeFiles, NumSpec, DataBlocks

\* Creating the outputs of the first file empties one and leaves the others.
LEMMA WholeMake ==
  ASSUME TypeInv, OrderInv, WholeFiles, Stable,
         MakeSigProcFiles(monitoringFile), UNCHANGED <<closed, size>>
  PROVE  WholeFiles'
<1>1. CASE lastFileProcessed # NoFile
  BY <1>1, MakeOrder, WholeSameData
<1>2. CASE lastFileProcessed = NoFile
  <2>1. /\ monitoringFile \in Files /\ monitoringFile[1] \in Prefixes
        /\ data \in [Prefixes -> Seq(Chunks)]
    BY DEF Stable, TypeInv, TypeOK, LocalsType, OutsType, Files
  <2> DEFINE p == monitoringFile[1]
  <2>2. fils' = p /\ data' = [data EXCEPT ![p] = <<>>]
    BY <1>2, MakeOrder DEF MakeSigProcFiles
  <2>3. data'[p] = <<>> /\ \A q \in Prefixes \ {p} : data'[q] = data[q]
    BY <2>1, <2>2
  <2>4. ASSUME NEW q \in Prefixes, NEW i \in DOMAIN data'[q]
        PROVE  ChunkOK(data[q], q, i)' /\ q # p
    <3>1. q # p
      BY <2>3, <2>4
    <3>2. data'[q] = data[q] /\ ChunkOK(data[q], q, i)
      BY <2>3, <2>4, <3>1, WholeFilesDef
    <3> QED
      BY <2>2, <3>1, <3>2 DEF ChunkOK, NumSpec, DataBlocks
  <2> QED
    BY <2>4 DEF WholeFiles, ChunkOK
<1> QED
  BY <1>1, <1>2

\* Appending the file being read: all of it, or a part when the outputs are
\* closed at the same time.
LEMMA WholeAppend ==
  ASSUME TypeInv, OrderInv, StableInv, WholeFiles, pc = "reading",
         NEW n \in Nat, Append1(n), UNCHANGED <<closed, size>>,
         \/ n = NumSpec(inSize) /\ (fils' = fils \/ fils' \notin Prefixes)
         \/ n < NumSpec(inSize) /\ fils' \notin Prefixes
  PROVE  WholeFiles'
<1> DEFINE c == [file |-> monitoringFile, num |-> n]
<1>1. /\ monitoringFile \in Files /\ monitoringFile # NoFile
      /\ monitoringFile[1] \in Prefixes /\ fils = monitoringFile[1]
      /\ data \in [Prefixes -> Seq(Chunks)]
      /\ monitoringFile \in closed /\ inSize = size[monitoringFile]
  BY MonitorAssumption DEF TypeInv, TypeOK, ReadingOK, LocalsType, OutsType,
     OrderInv, ReadingBound, StableInv, ReadingWhole, Files
<1> DEFINE d == data[fils]
<1>2. /\ data'[fils] = Append(d, c)
      /\ \A q \in Prefixes \ {fils} : data'[q] = data[q]
      /\ d \in Seq(Chunks) /\ c.file = monitoringFile /\ c.num = n
  BY <1>1 DEF Append1
<1> HIDE DEF c, d
<1>3. /\ DOMAIN Append(d, c) = 1..(Len(d) + 1) /\ Len(d) \in Nat
      /\ Len(Append(d, c)) = Len(d) + 1
      /\ DOMAIN d = 1..Len(d)
      /\ Append(d, c)[Len(d) + 1] = c
      /\ \A i \in 1..Len(d) : Append(d, c)[i] = d[i]
  BY <1>2
<1>4. ASSUME NEW i \in DOMAIN data'[fils]
      PROVE  /\ data'[fils][i].file \in closed
             /\ \/ data'[fils][i].num = NumSpec(size[data'[fils][i].file])
                \/ /\ i = Len(data'[fils]) /\ fils' \notin Prefixes
                   /\ data'[fils][i].num < NumSpec(size[data'[fils][i].file])
  <2>1. CASE i \in 1..Len(d)
    <3>1. ChunkOK(d, fils, i)
      BY <1>1, <1>3, <2>1, WholeFilesDef DEF d
    <3> QED
      BY <1>2, <1>3, <2>1, <3>1 DEF ChunkOK
  <2>2. CASE i = Len(d) + 1
    BY <1>1, <1>2, <1>3, <2>2
  <2> QED
    BY <1>2, <1>3, <1>4, <2>1, <2>2
<1>5. \A q \in Prefixes \ {fils} : \A i \in DOMAIN data'[q] : ChunkOK(data[q], q, i)
  BY <1>2, WholeFilesDef
<1>6. \A q \in Prefixes : \A i \in DOMAIN data'[q] : ChunkOK(data[q], q, i)'
  <2> SUFFICES ASSUME NEW q \in Prefixes, NEW i \in DOMAIN data'[q]
               PROVE  ChunkOK(data[q], q, i)'
    OBVIOUS
  <2>1. CASE q = fils
    BY <1>4, <2>1 DEF ChunkOK, NumSpec, DataBlocks
  <2>2. CASE q # fils
    <3>1. ChunkOK(data[q], q, i) /\ data'[q] = data[q] /\ fils' # q
      BY <1>2, <1>5, <2>2
    <3> QED
      BY <2>2, <3>1 DEF ChunkOK, NumSpec, DataBlocks
  <2> QED
    BY <2>1, <2>2
<1> QED
  BY <1>6 DEF WholeFiles, ChunkOK

LEMMA WholeStep ==
  ASSUME Tidy, TypeInv, OrderInv, StableInv, WholeFiles, [Next]_vars
  PROVE  WholeFiles'
<1>t. inSize \in 0..MaxSize /\ size \in [Files -> 0..MaxSize] /\ closed \subseteq Files
  BY DEF TypeInv, TypeOK, DiskType, LocalsType
<1>1. ASSUME NEW f \in Files, Create(f) \/ Extend(f) \/ Close(f) PROVE WholeFiles'
  <2>1. f \notin recorded \/ f \notin closed \/ size' = size
    BY <1>1 DEF Create, Extend, Close
  <2>2. closed \subseteq recorded
    BY DEF StableInv, DiskTidy
  <2>3. \A g \in closed : size'[g] = size[g]
    BY <1>1, <1>t, <2>2 DEF Create, Extend, Close
  <2> QED
    BY <1>1, <2>3, WholeSameData DEF Create, Extend, Close, locals, outs
<1>2. ASSUME NEW f \in Files, Remove(f) \/ Truncate(f) PROVE WholeFiles'
  BY <1>2 DEF Remove, Truncate, Tidy
<1>3. CASE Tick \/ Start \/ NothingNew \/ Pick \/ PickThrows \/ SizeSame
           \/ SizeGrown \/ SizeThrows \/ Restart \/ UNCHANGED vars
  BY <1>3, WholeSameData, MonitorAssumption
     DEF Tick, Start, NothingNew, Pick, PickThrows, SizeSame, SizeGrown,
         SizeThrows, Restart, vars, disks, locals, outs
<1>4. CASE SkipFile \/ OpenFile \/ OpenThrows
  BY <1>4, WholeMake DEF SkipFile, OpenFile, OpenThrows, disks
<1>5. CASE FinishFile
  BY <1>5, <1>t, WholeAppend, NumSpecType DEF FinishFile, disks
<1>6. CASE Crash
  <2>1. CASE UNCHANGED data
    BY <1>6, <2>1, WholeSameData, MonitorAssumption DEF Crash, disks
  <2>2. ASSUME pc = "reading", NEW n \in 1..NumSpec(inSize), Append1(n)
        PROVE  WholeFiles'
    <3>1. n \in Nat /\ (n = NumSpec(inSize) \/ n < NumSpec(inSize))
      BY <1>t, <2>2, NumSpecType
    <3>2. fils' \notin Prefixes /\ UNCHANGED <<closed, size>>
      BY <1>6, MonitorAssumption DEF Crash, disks
    <3> QED
      BY <2>2, <3>1, <3>2, WholeAppend
  <2> QED
    BY <1>6, <2>1, <2>2 DEF Crash
<1> QED
  BY <1>1, <1>2, <1>3, <1>4, <1>5, <1>6
     DEF Next, Recorder, Writes, Intruder, Monitoring

\* With a tidy recorder, and however often the monitor crashes, the outputs
\* are made of whole files; only the last may be cut, by a crash.
THEOREM OnlyWholeFiles == ASSUME Tidy PROVE Spec => []WholeFiles
<1> DEFINE Inv == TypeInv /\ OrderInv /\ StableInv /\ WholeFiles
<1>1. Init => Inv
  BY TypeInit, OrderInit, StableInit, WholeInit
<1>2. Inv /\ [Next]_vars => Inv'
  BY TypeStep, OrderStep, StableStep, WholeStep
<1> QED
  BY <1>1, <1>2, PTL DEF Spec

-----------------------------------------------------------------------------
(* The monitor never gives up.                                             *)

\* The recorder leaves no gaps.
NoGaps == \A f \in recorded : \A n \in 1..(f[2] - 1) : <<f[1], n>> \in closed

\* Everything up to the last file is handled, and everything below the
\* monitored one.
NothingMissed ==
  /\ lastFileProcessed # NoFile =>
       /\ lastFileProcessed \in recorded
       /\ \A g \in recorded : g[1] = lastFileProcessed[1]
                              /\ g[2] <= lastFileProcessed[2] => g \in handled
  /\ monitoringFile # NoFile =>
       \A g \in recorded : g[1] = monitoringFile[1]
                           /\ g[2] < monitoringFile[2] => g \in handled

ThrowInv == NoGaps /\ NothingMissed /\ NeverThrows

LEMMA ThrowInit == Init => ThrowInv
BY DEF Init, ThrowInv, NoGaps, NothingMissed, NeverThrows

\* If there are more files than handled, the one that sorts next is there and
\* has the expected index.
LEMMA NextIsThere ==
  ASSUME TypeInv, OrderInv, CountInv, StableInv, ThrowInv, Looking,
         NEW p \in Filter(prefix), Cardinality(InDir(p)) > numProcessed
  PROVE  \E f \in Next1(p) : Index(f) = numProcessed
<1>t. disk \subseteq Files /\ handled \subseteq Files
  BY DEF TypeInv, TypeOK, DiskType, LocalsType
<1>d. disk = recorded /\ closed \subseteq disk
  BY DEF StableInv, DiskTidy
<1>c. /\ IsFiniteSet(handled) /\ Cardinality(handled) = numProcessed
      /\ numProcessed \in Nat /\ IsFiniteSet(disk)
  BY <1>d DEF CountInv, HandledCounted, DirectoryFinite, TypeInv, TypeOK,
     LocalsType
<1>f. IsFiniteSet(InDir(p)) /\ Cardinality(InDir(p)) \in Nat
  BY <1>c, FS_Subset, FS_CardinalityType DEF InDir
<1>g. \A g \in InDir(p) : \A n \in 1..g[2] : <<p, n>> \in InDir(p)
  <2> SUFFICES ASSUME NEW g \in InDir(p), NEW n \in 1..g[2]
               PROVE  <<p, n>> \in InDir(p)
    OBVIOUS
  <2>1. g \in Files /\ g[1] = p /\ g \in recorded /\ g[2] \in Nat
        /\ g = <<p, g[2]>>
    BY <1>t, <1>d DEF InDir, Files
  <2>2. CASE n = g[2]
    BY <2>1, <2>2
  <2>3. CASE n \in 1..(g[2] - 1)
    BY <1>d, <2>1, <2>3 DEF ThrowInv, NoGaps, InDir
  <2> QED
    BY <2>1, <2>2, <2>3
<1>1. CASE lastFileProcessed = NoFile
  <2>1. handled = {} /\ numProcessed = 0
    BY <1>1, <1>c, FS_EmptySet DEF CountInv, HandledCounted
  <2>2. PICK g \in InDir(p) : TRUE
    BY <1>f, <2>1, FS_EmptySet
  <2>3. g[2] \in Nat /\ g[2] >= 1 /\ g \in Files
    BY <1>t DEF InDir, Files
  <2> DEFINE f == <<p, 1>>
  <2>4. f \in InDir(p)
    BY <1>g, <2>3
  <2>5. \A h \in InDir(p) : h[2] \in Nat /\ h[2] >= 1
    BY <1>t DEF InDir, Files
  <2>6. f \in Next1(p)
    BY <1>1, <2>4, <2>5 DEF Next1, Newer, After
  <2>7. Index(f) = 0
    <3>1. {h \in InDir(f[1]) : h[2] < f[2]} = {}
      BY <2>5
    <3> QED
      BY <3>1, FS_EmptySet DEF Index
  <2> QED
    BY <2>1, <2>6, <2>7
<1>2. CASE lastFileProcessed # NoFile
  <2> DEFINE l == lastFileProcessed
             f == <<p, l[2] + 1>>
  <2>1. l[1] = p /\ l[2] \in Nat /\ p # NoPrefix
    BY <1>2, MonitorAssumption
       DEF OrderInv, BoundToPrefix, Looking, Filter, TypeInv, TypeOK,
           LocalsType, Files
  <2>2. \A h \in InDir(p) : h[2] <= l[2] => h \in handled
    BY <1>2, <1>d, <2>1 DEF ThrowInv, NothingMissed, InDir
  <2>3. \A h \in handled : h \in InDir(p) /\ h[2] <= l[2] /\ h[2] \in Nat
    BY <1>2, <1>t, <1>d, <2>1 DEF CountInv, HandledCounted, InDir, Files
  <2>4. PICK g \in InDir(p) : g \notin handled
    <3>1. ~(InDir(p) \subseteq handled)
      BY <1>c, <1>f, FS_Subset
    <3> QED
      BY <3>1
  <2>5. \A h \in InDir(p) : h[2] \in Nat
    BY <1>t DEF InDir, Files
  <2>6. f \in InDir(p)
    BY <1>g, <2>1, <2>2, <2>4, <2>5
  <2>7. f \in Next1(p)
    <3>1. f \in Newer(p)
      BY <2>1, <2>6 DEF Newer, After
    <3>2. \A h \in Newer(p) : h[2] > l[2] /\ h[2] \in Nat
      BY <1>2, <2>5 DEF Newer, After
    <3>3. \A h \in Newer(p) : f[2] <= h[2]
      BY <2>1, <3>2
    <3> QED
      BY <3>1, <3>3 DEF Next1
  <2>8. Index(f) = numProcessed
    <3>1. {h \in InDir(f[1]) : h[2] < f[2]} = handled
      BY <2>1, <2>2, <2>3, <2>5
    <3> QED
      BY <1>c, <3>1 DEF Index
  <2> QED
    BY <2>7, <2>8
<1> QED
  BY <1>1, <1>2

\* The bookkeeping after a file misses none.
LEMMA AdvanceMissesNone ==
  ASSUME TypeInv, CountInv, ThrowInv, monitoringFile # NoFile,
         NEW m \in Nat, NEW n \in Nat, Advance(m, n), UNCHANGED <<recorded, closed>>
  PROVE  ThrowInv'
<1>1. /\ monitoringFile \in recorded /\ recorded \subseteq Files
      /\ monitoringFile \in Files
  BY DEF CountInv, HandledCounted, TypeInv, TypeOK, DiskType, LocalsType
<1>2. \A g \in recorded : g[1] = monitoringFile[1] /\ g[2] <= monitoringFile[2]
        => g[2] < monitoringFile[2] \/ g = monitoringFile
  BY <1>1 DEF Files
<1>3. /\ lastFileProcessed' = monitoringFile /\ monitoringFile' = NoFile
      /\ handled' = handled \cup {monitoringFile} /\ pc' # "failed"
  BY DEF Advance
<1> QED
  BY <1>1, <1>2, <1>3 DEF ThrowInv, NoGaps, NothingMissed, NeverThrows

LEMMA ThrowStep ==
  ASSUME Tidy, TypeInv, OrderInv, CountInv, StableInv, ThrowInv, [Next]_vars
  PROVE  ThrowInv'
<1>t. NoGaps /\ NothingMissed /\ NeverThrows /\ recorded \subseteq Files
  BY DEF ThrowInv, TypeInv, TypeOK, DiskType
<1>1. ASSUME NEW f \in Files, Create(f) PROVE ThrowInv'
  <2>1. /\ f \notin recorded /\ recorded' = recorded \cup {f}
        /\ f[2] = 1 \/ <<f[1], f[2] - 1>> \in closed
        /\ UNCHANGED <<closed, pc, handled, lastFileProcessed, monitoringFile>>
    BY <1>1 DEF Create, locals, Tidy
  <2>2. closed \subseteq recorded /\ f[2] \in Nat /\ f = <<f[1], f[2]>>
    BY DEF StableInv, DiskTidy, Files
  <2>3. \A n \in 1..(f[2] - 1) : <<f[1], n>> \in closed
    <3>1. CASE f[2] = 1
      BY <3>1
    <3>2. CASE <<f[1], f[2] - 1>> \in closed
      <4>1. \A n \in 1..(f[2] - 2) : <<f[1], n>> \in closed
        BY <1>t, <2>2, <3>2 DEF NoGaps
      <4> QED
        BY <2>2, <3>2, <4>1
    <3> QED
      BY <2>1, <3>1, <3>2
  <2>4. NoGaps'
    BY <1>t, <2>1, <2>3 DEF NoGaps
  <2>5. \A g \in recorded : g[1] = f[1] => ~(f[2] <= g[2])
    <3> SUFFICES ASSUME NEW g \in recorded, g[1] = f[1], f[2] <= g[2]
                 PROVE  FALSE
      OBVIOUS
    <3>1. g[2] \in Nat /\ g = <<g[1], g[2]>> /\ f[2] >= 1
      BY <1>t DEF Files
    <3>2. f[2] = g[2] \/ f[2] \in 1..(g[2] - 1)
      BY <2>2, <3>1
    <3> QED
      BY <1>t, <2>1, <2>2, <3>1, <3>2 DEF NoGaps
  <2>6. NothingMissed'
    <3>1. monitoringFile # NoFile => monitoringFile \in recorded
      BY DEF CountInv, HandledCounted
    <3>2. /\ \A g \in recorded : g[2] \in Nat
          /\ f[2] \in Nat
      BY <1>t DEF Files
    <3> QED
      BY <1>t, <2>1, <2>5, <3>1, <3>2 DEF NothingMissed
  <2> QED
    BY <1>t, <2>1, <2>4, <2>6 DEF ThrowInv, NeverThrows
<1>2. ASSUME UNCHANGED <<recorded, handled, lastFileProcessed, monitoringFile>>,
             closed \subseteq closed', pc' # "failed"
      PROVE  ThrowInv'
  BY <1>t, <1>2 DEF ThrowInv, NoGaps, NothingMissed, NeverThrows
<1>3. ASSUME NEW f \in Files, Extend(f) \/ Close(f) PROVE ThrowInv'
  BY <1>t, <1>2, <1>3 DEF Extend, Close, locals, NeverThrows
<1>4. ASSUME NEW f \in Files, Remove(f) \/ Truncate(f) PROVE ThrowInv'
  BY <1>4 DEF Remove, Truncate, Tidy
<1>5. CASE Tick \/ Start \/ NothingNew \/ SizeSame \/ SizeGrown \/ OpenFile
           \/ Crash \/ UNCHANGED vars
  BY <1>t, <1>2, <1>5
     DEF Tick, Start, NothingNew, SizeSame, SizeGrown, OpenFile, Crash, vars,
         disks, locals, NeverThrows
<1>6. CASE Pick
  <2>1. \A g \in recorded : g[1] = monitoringFile'[1]
                            /\ g[2] < monitoringFile'[2] => g \in handled
    BY <1>6, PickIsComplete DEF StableInv, DiskTidy
  <2> QED
    BY <1>t, <1>6, <2>1
       DEF Pick, Looking, disks, ThrowInv, NoGaps, NothingMissed, NeverThrows
<1>7. CASE PickThrows
  BY <1>7, NextIsThere DEF PickThrows
<1>8. CASE SizeThrows
  <2>1. monitoringFile \in disk /\ lastSize <= size[monitoringFile]
    BY <1>8 DEF SizeThrows, Waiting, StableInv, CountBounded
  <2>2. lastSize \in Nat /\ size[monitoringFile] \in Nat
    BY <2>1, MonitorAssumption DEF TypeInv, TypeOK, DiskType, LocalsType
  <2> QED
    BY <1>8, <2>1, <2>2 DEF SizeThrows
<1>9. CASE OpenThrows
  <2>1. monitoringFile \in disk /\ monitoringFile \in closed
    BY <1>9, MonitorAssumption
       DEF OpenThrows, Stable, StableInv, CountBounded
  <2> QED
    BY <1>9, <2>1 DEF OpenThrows, StableInv, DiskTidy
<1>10. CASE SkipFile
  <2>1. /\ monitoringFile # NoFile /\ UNCHANGED <<recorded, closed>>
        /\ Advance(numActuallyProcessed, numSkipped + 1)
        /\ numActuallyProcessed \in Nat /\ numSkipped + 1 \in Nat
    BY <1>10 DEF SkipFile, Stable, disks, TypeInv, TypeOK, LocalsType
  <2> QED
    BY <2>1, AdvanceMissesNone
<1>11. CASE FinishFile
  <2>1. /\ monitoringFile # NoFile /\ UNCHANGED <<recorded, closed>>
        /\ Advance(numActuallyProcessed + 1, numSkipped)
        /\ numActuallyProcessed + 1 \in Nat /\ numSkipped \in Nat
    BY <1>11 DEF FinishFile, disks, TypeInv, TypeOK, LocalsType, ReadingOK
  <2> QED
    BY <2>1, AdvanceMissesNone
<1>12. CASE Restart
  BY <1>t, <1>12 DEF Restart, disks, ThrowInv, NoGaps, NothingMissed, NeverThrows
<1> QED
  BY <1>1, <1>3, <1>4, <1>5, <1>6, <1>7, <1>8, <1>9, <1>10, <1>11, <1>12
     DEF Next, Recorder, Writes, Intruder, Monitoring

\* With a tidy recorder no error exit of the monitor is ever taken.
THEOREM TidyNeverThrows == ASSUME Tidy PROVE Spec => []NeverThrows
<1> DEFINE Inv == TypeInv /\ OrderInv /\ CountInv /\ StableInv /\ ThrowInv
<1>1. Init => Inv
  BY TypeInit, OrderInit, CountInit, StableInit, ThrowInit
<1>2. Inv /\ [Next]_vars => Inv'
  BY TypeStep, OrderStep, CountStep, StableStep, ThrowStep
<1>3. Inv => NeverThrows
  BY DEF ThrowInv
<1> QED
  BY <1>1, <1>2, <1>3, PTL DEF Spec

-----------------------------------------------------------------------------
(* The outputs have no gaps.                                               *)

\* The number of the file that comes next.
Upcoming == IF lastFileProcessed = NoFile THEN 1 ELSE lastFileProcessed[2] + 1

\* The files are taken one after the other from the first, and each one is
\* counted as skipped or as processed, the skipped ones first.
OneByOne ==
  /\ monitoringFile # NoFile => monitoringFile[2] = Upcoming
  /\ Upcoming = numSkipped + numActuallyProcessed + 1
  /\ numSkipped <= args.skip
  /\ pc = "reading" \/ numActuallyProcessed > 0 => numSkipped = args.skip

\* The open outputs begin with the first file and hold the processed ones.
OpenCounted ==
  fils # NoPrefix => /\ rawdatafile[fils] = <<fils, 1>>
                     /\ Len(data[fils]) = numActuallyProcessed

ContInv == OneByOne /\ OpenCounted /\ Contiguous

LEMMA ContInit == Init => ContInv
<1> SUFFICES ASSUME Init PROVE ContInv
  OBVIOUS
<1>1. args.skip \in Nat
  BY MonitorAssumption DEF Init
<1>2. OneByOne
  BY <1>1 DEF Init, OneByOne, Upcoming
<1>3. OpenCounted /\ Contiguous
  BY DEF Init, OpenCounted, Contiguous
<1> QED
  BY <1>2, <1>3 DEF ContInv

\* The file that is picked is the one that comes next: a later one could only
\* be picked if the one before it were missing.
LEMMA PickUpcoming ==
  ASSUME TypeInv, OrderInv, StableInv, ThrowInv, Pick
  PROVE  monitoringFile'[2] = Upcoming
<1>1. PICK p \in Filter(prefix) : \E f \in Next1(p) : monitoringFile' = f
  BY DEF Pick
<1>2. PICK f \in Next1(p) : monitoringFile' = f
  BY <1>1
<1>3. /\ f \in disk /\ f[1] = p /\ After(f, lastFileProcessed)
      /\ \A g \in Newer(p) : f[2] <= g[2]
  BY DEF Next1, Newer, InDir
<1>4. /\ f \in Files /\ f \in recorded /\ closed \subseteq disk
      /\ f[2] \in Nat \ {0}
      /\ lastFileProcessed # NoFile => lastFileProcessed[2] \in Nat
  BY <1>3 DEF StableInv, DiskTidy, TypeInv, TypeOK, DiskType, LocalsType, Files
<1>5. Upcoming \in Nat \ {0} /\ Upcoming <= f[2]
  BY <1>3, <1>4 DEF Upcoming, After
<1>6. ASSUME Upcoming < f[2] PROVE FALSE
  <2> DEFINE g == <<p, Upcoming>>
  <2>1. Upcoming \in 1..(f[2] - 1)
    BY <1>4, <1>5, <1>6
  <2>2. g \in disk
    BY <1>3, <1>4, <2>1 DEF ThrowInv, NoGaps
  <2>3. After(g, lastFileProcessed)
    BY <1>4 DEF After, Upcoming
  <2>4. g \in Newer(p)
    BY <2>2, <2>3 DEF Newer, InDir
  <2> QED
    BY <1>3, <1>4, <1>5, <1>6, <2>4
<1> QED
  BY <1>2, <1>4, <1>5, <1>6

\* A step that leaves the outputs, the counters and the files alone.
LEMMA ContStutter ==
  ASSUME ContInv,
         UNCHANGED <<monitoringFile, lastFileProcessed, numSkipped,
                     numActuallyProcessed, args, fils, rawdatafile, data>>,
         pc' = "reading" => numSkipped = args.skip
  PROVE  ContInv'
BY DEF ContInv, OneByOne, OpenCounted, Contiguous, Upcoming

\* Closing the outputs changes no output.
LEMMA ContiguousSame ==
  ASSUME Contiguous, UNCHANGED <<args, rawdatafile, data>> PROVE Contiguous'
BY DEF Contiguous

\* The outputs created for the first file begin with it.
LEMMA ContMake ==
  ASSUME TypeInv, OrderInv, OpenInv, ContInv, Stable, UNCHANGED args,
         MakeSigProcFiles(monitoringFile)
  PROVE  /\ Contiguous' /\ fils' # NoPrefix
         /\ rawdatafile'[fils'] = <<fils', 1>>
         /\ Len(data'[fils']) = numActuallyProcessed
<1>1. /\ monitoringFile \in Files /\ monitoringFile # NoFile
      /\ fils' \in Prefixes /\ fils' # NoPrefix
      /\ data \in [Prefixes -> Seq(Chunks)]
      /\ rawdatafile \in [Prefixes -> Files \cup {NoFile}]
      /\ numSkipped \in Nat /\ numActuallyProcessed \in Nat
  BY MakeOpen, MonitorAssumption
     DEF Stable, TypeInv, TypeOK, LocalsType, OutsType
<1>2. CASE lastFileProcessed = NoFile
  <2>1. /\ fils' = monitoringFile[1]
        /\ rawdatafile' = [rawdatafile EXCEPT ![fils'] = monitoringFile]
        /\ data' = [data EXCEPT ![fils'] = <<>>]
    BY <1>2, MakeOpen
  <2>2. monitoringFile = <<fils', 1>> /\ numActuallyProcessed = 0
    BY <1>1, <1>2, <2>1 DEF ContInv, OneByOne, Upcoming, Files
  <2>3. /\ rawdatafile'[fils'] = <<fils', 1>> /\ data'[fils'] = <<>>
        /\ \A q \in Prefixes \ {fils'} : /\ rawdatafile'[q] = rawdatafile[q]
                                         /\ data'[q] = data[q]
    BY <1>1, <2>1, <2>2
  <2>4. Contiguous'
    BY <1>1, <2>3 DEF ContInv, Contiguous
  <2> QED
    BY <1>1, <2>2, <2>3, <2>4
<1>3. CASE lastFileProcessed # NoFile
  <2>1. UNCHANGED <<fils, rawdatafile, data>>
    BY <1>3 DEF MakeSigProcFiles, outs
  <2> QED
    BY <1>1, <2>1, ContiguousSame DEF ContInv, OpenCounted
<1> QED
  BY <1>2, <1>3

\* Appending the file being read leaves no gap.
LEMMA ContAppend ==
  ASSUME TypeInv, OrderInv, OpenInv, ContInv, pc = "reading", NEW n \in Nat,
         Append1(n), UNCHANGED <<args, rawdatafile>>
  PROVE  /\ Contiguous' /\ fils # NoPrefix
         /\ Len(data'[fils]) = numActuallyProcessed + 1
<1> DEFINE c == [file |-> monitoringFile, num |-> n]
           d == data[fils]
<1>1. /\ monitoringFile \in Files /\ monitoringFile # NoFile
      /\ fils \in Prefixes /\ fils # NoPrefix /\ fils = monitoringFile[1]
      /\ data \in [Prefixes -> Seq(Chunks)]
      /\ numSkipped \in Nat /\ numActuallyProcessed \in Nat
  BY MonitorAssumption DEF TypeInv, TypeOK, ReadingOK, LocalsType, OutsType,
     OrderInv, ReadingBound, Files
<1>2. /\ monitoringFile = <<fils, args.skip + numActuallyProcessed + 1>>
      /\ rawdatafile[fils] = <<fils, 1>> /\ Len(d) = numActuallyProcessed
      /\ args.skip \in Nat
  BY <1>1 DEF ContInv, OneByOne, OpenCounted, Files
<1>c. c \in Chunks /\ c.file = monitoringFile
  BY <1>1 DEF Chunks
<1>3. /\ data'[fils] = Append(d, c) /\ d \in Seq(Chunks)
      /\ \A q \in Prefixes \ {fils} : data'[q] = data[q]
  BY <1>1 DEF Append1
<1>4. \A i \in DOMAIN d : d[i].file = <<fils, args.skip + i>>
  BY <1>1 DEF ContInv, Contiguous
<1> HIDE DEF c, d
<1>5. /\ DOMAIN Append(d, c) = 1..(Len(d) + 1) /\ Len(d) \in Nat
      /\ Len(Append(d, c)) = Len(d) + 1
      /\ DOMAIN d = 1..Len(d)
      /\ Append(d, c)[Len(d) + 1] = c
      /\ \A i \in 1..Len(d) : Append(d, c)[i] = d[i]
  BY <1>c, <1>3
<1>6. ASSUME NEW i \in DOMAIN data'[fils]
      PROVE  data'[fils][i].file = <<fils, args.skip + i>>
  <2>1. CASE i \in 1..Len(d)
    BY <1>3, <1>4, <1>5, <2>1
  <2>2. CASE i = Len(d) + 1
    <3>1. data'[fils][i].file = monitoringFile
      BY <1>c, <1>3, <1>5, <2>2
    <3>2. i = numActuallyProcessed + 1
      BY <1>2, <2>2
    <3>3. args.skip + i = args.skip + numActuallyProcessed + 1
      <4> DEFINE k == args.skip
      <4>1. k \in Nat /\ numActuallyProcessed \in Nat
        BY <1>1, <1>2
      <4> HIDE DEF k
      <4>2. k + i = k + numActuallyProcessed + 1
        BY <3>2, <4>1
      <4> QED
        BY <4>2 DEF k
    <3> QED
      BY <1>2, <3>1, <3>3
  <2> QED
    BY <1>3, <1>5, <1>6, <2>1, <2>2
<1>7. ASSUME NEW q \in Prefixes, NEW i \in DOMAIN data'[q]
      PROVE  rawdatafile[q] = <<q, 1>> /\ data'[q][i].file = <<q, args.skip + i>>
  <2>1. CASE q = fils
    BY <1>2, <1>6, <1>7, <2>1
  <2>2. CASE q # fils
    BY <1>3, <1>7, <2>2 DEF ContInv, Contiguous
  <2> QED
    BY <2>1, <2>2
<1>8. Contiguous'
  BY <1>7 DEF Contiguous
<1> QED
  BY <1>1, <1>2, <1>3, <1>5, <1>8

LEMMA ContStep ==
  ASSUME Tidy, TypeInv, OrderInv, OpenInv, StableInv, ThrowInv, ContInv,
         [Next]_vars
  PROVE  ContInv'
<1>t. /\ numSkipped \in Nat /\ numActuallyProcessed \in Nat
      /\ monitoringFile \in Files \cup {NoFile} /\ args.skip \in Nat
      /\ args \in [skip : SkipArgs, num : NumArgs, prefix : PrefixArgs]
  BY MonitorAssumption DEF TypeInv, TypeOK, LocalsType
<1>i. OneByOne /\ OpenCounted /\ Contiguous
  BY DEF ContInv
<1>1. CASE Recorder \/ Intruder \/ UNCHANGED vars
  <2>1. UNCHANGED <<pc, args, locals, outs>>
    BY <1>1 DEF Recorder, Intruder, Create, Writes, Extend, Close, Remove,
       Truncate, vars
  <2> QED
    BY <1>i, <2>1, ContStutter DEF locals, outs, OneByOne
<1>2. CASE Start \/ Tick \/ NothingNew \/ PickThrows \/ SizeSame \/ SizeGrown
           \/ SizeThrows
  <2>1. /\ UNCHANGED <<monitoringFile, lastFileProcessed, numSkipped,
                       numActuallyProcessed, args, fils, rawdatafile, data>>
        /\ pc' = "reading" => pc = "reading"
    BY <1>2 DEF Start, Tick, NothingNew, PickThrows, SizeSame, SizeGrown,
       SizeThrows, Looking, Waiting, locals, outs
  <2> QED
    BY <1>i, <2>1, ContStutter DEF OneByOne
<1>3. CASE Pick
  <2>1. monitoringFile'[2] = Upcoming
    BY <1>3, PickUpcoming
  <2> QED
    BY <1>3, <1>i, <2>1 DEF Pick, Looking, outs, ContInv, OneByOne,
       OpenCounted, Contiguous, Upcoming
<1>4. CASE SkipFile
  <2>1. /\ Stable /\ MakeSigProcFiles(monitoringFile) /\ UNCHANGED args
        /\ monitoringFile # NoFile /\ numSkipped < args.skip
        /\ numSkipped' = numSkipped + 1 /\ monitoringFile' = NoFile
        /\ numActuallyProcessed' = numActuallyProcessed
        /\ lastFileProcessed' = monitoringFile /\ pc' # "reading"
    BY <1>4 DEF SkipFile, Stable, Advance
  <2>2. numActuallyProcessed = 0
    BY <1>t, <1>i, <2>1 DEF OneByOne
  <2>3. OneByOne'
    BY <1>t, <1>i, <2>1, <2>2 DEF OneByOne, Upcoming
  <2> QED
    BY <2>1, <2>3, ContMake DEF ContInv, OpenCounted
<1>5. CASE OpenFile \/ OpenThrows
  <2>1. /\ Stable /\ MakeSigProcFiles(monitoringFile)
        /\ numSkipped >= args.skip
        /\ UNCHANGED <<args, monitoringFile, lastFileProcessed, numSkipped,
                       numActuallyProcessed>>
    BY <1>5 DEF OpenFile, OpenThrows
  <2>2. OneByOne'
    BY <1>t, <1>i, <2>1 DEF OneByOne, Upcoming
  <2> QED
    BY <2>1, <2>2, ContMake DEF ContInv, OpenCounted
<1>6. CASE FinishFile
  <2>1. /\ pc = "reading" /\ Append1(NumSpec(inSize)) /\ NumSpec(inSize) \in Nat
        /\ UNCHANGED <<args, fils, rawdatafile>> /\ monitoringFile # NoFile
        /\ lastFileProcessed' = monitoringFile /\ monitoringFile' = NoFile
        /\ numActuallyProcessed' = numActuallyProcessed + 1
        /\ numSkipped' = numSkipped
    BY <1>6, NumSpecType
       DEF FinishFile, Advance, TypeInv, TypeOK, LocalsType, ReadingOK
  <2>2. OneByOne'
    BY <1>t, <1>i, <2>1 DEF OneByOne, Upcoming
  <2> QED
    BY <1>i, <2>1, <2>2, ContAppend DEF ContInv, OpenCounted
<1>7. CASE Crash
  <2>1. /\ fils' = NoPrefix /\ pc' = "down"
        /\ UNCHANGED <<args, monitoringFile, lastFileProcessed, numSkipped,
                       numActuallyProcessed, rawdatafile>>
    BY <1>7 DEF Crash
  <2>2. OneByOne' /\ OpenCounted'
    BY <1>i, <2>1 DEF OneByOne, Upcoming, OpenCounted
  <2>3. CASE UNCHANGED data
    BY <1>i, <2>1, <2>2, <2>3, ContiguousSame DEF ContInv
  <2>4. ASSUME pc = "reading", NEW n \in 1..NumSpec(inSize), Append1(n)
        PROVE  ContInv'
    <3>1. n \in Nat
      BY <2>4, NumSpecType DEF TypeInv, TypeOK, LocalsType
    <3> QED
      BY <2>1, <2>2, <2>4, <3>1, ContAppend DEF ContInv
  <2> QED
    BY <1>7, <2>3, <2>4 DEF Crash
<1>8. CASE Restart
  BY <1>t, <1>8, <1>i, ContiguousSame
     DEF Restart, outs, ContInv, OneByOne, OpenCounted, Upcoming
<1> QED
  BY <1>1, <1>2, <1>3, <1>4, <1>5, <1>6, <1>7, <1>8 DEF Next, Monitoring

\* With a tidy recorder the files of an output are the consecutive ones after
\* the skipped ones, and its header names the first, however often the monitor
\* crashes.
THEOREM AlwaysContiguous == ASSUME Tidy PROVE Spec => []Contiguous
<1> DEFINE Inv == /\ TypeInv /\ OrderInv /\ CountInv /\ OpenInv
                  /\ StableInv /\ ThrowInv /\ ContInv
<1>1. Init => Inv
  BY TypeInit, OrderInit, CountInit, OpenInit, StableInit, ThrowInit, ContInit
<1>2. Inv /\ [Next]_vars => Inv'
  BY TypeStep, OrderStep, CountStep, OpenStep, StableStep, ThrowStep, ContStep
<1>3. Inv => Contiguous
  BY DEF ContInv
<1> QED
  BY <1>1, <1>2, <1>3, PTL DEF Spec

-----------------------------------------------------------------------------
(* The monitor stops with what it was asked for.                           *)

\* The first n files of a prefix.
First(p, n) == {<<p, m>> : m \in 1..n}

\* What is handled are the first files, and a process that was asked for a
\* number of files has processed fewer until it stops, and then as many.
StopInv ==
  /\ handled = First(prefix, numSkipped + numActuallyProcessed)
  /\ args.num > 0 /\ pc # "exited" => numActuallyProcessed < args.num
  /\ pc = "exited" => args.num > 0 /\ numActuallyProcessed = args.num

LEMMA FirstCount ==
  ASSUME NEW p, NEW n \in Nat PROVE Cardinality(First(p, n)) = n
<1> DEFINE f == [m \in 1..n |-> <<p, m>>]
<1>1. f \in Bijection(1..n, First(p, n))
  BY DEF First, Bijection, Injection, Surjection, IsInjective
<1>2. ExistsBijection(1..n, First(p, n))
  BY <1>1 DEF ExistsBijection
<1> QED
  BY <1>2, FS_CountingElements

LEMMA FirstGrows ==
  ASSUME NEW p, NEW n \in Nat PROVE First(p, n + 1) = First(p, n) \cup {<<p, n + 1>>}
BY DEF First

LEMMA StopInit == Init => StopInv
<1> SUFFICES ASSUME Init PROVE StopInv
  OBVIOUS
<1>1. First(prefix, 0) = {}
  BY DEF First
<1>2. args.num \in Nat
  BY MonitorAssumption DEF Init
<1> QED
  BY <1>1, <1>2 DEF Init, StopInv

\* The bookkeeping after a file.
LEMMA AdvanceStops ==
  ASSUME TypeInv, OneByOne, StopInv, pc # "exited", monitoringFile # NoFile,
         NEW m \in Nat, NEW n \in Nat, Advance(m, n), UNCHANGED args,
         n + m = numSkipped + numActuallyProcessed + 1,
         m \in {numActuallyProcessed, numActuallyProcessed + 1},
         lastFileProcessed # NoFile => prefix' = prefix,
         monitoringFile[1] = prefix'
  PROVE  StopInv'
<1>1. /\ numSkipped \in Nat /\ numActuallyProcessed \in Nat /\ args.num \in Nat
      /\ monitoringFile \in Files
  BY MonitorAssumption DEF TypeInv, TypeOK, LocalsType
<1> DEFINE k == numSkipped + numActuallyProcessed
<1>2. k \in Nat
  BY <1>1
<1>3. monitoringFile = <<prefix', k + 1>>
  BY <1>1 DEF OneByOne, Files
<1>4. First(prefix', k) = First(prefix, k)
  <2>1. CASE lastFileProcessed = NoFile
    <3>1. k = 0
      BY <1>1, <2>1 DEF OneByOne, Upcoming
    <3> QED
      BY <3>1 DEF First
  <2>2. CASE lastFileProcessed # NoFile
    BY <2>2
  <2> QED
    BY <2>1, <2>2
<1>5. /\ handled' = handled \cup {monitoringFile}
      /\ numSkipped' + numActuallyProcessed' = k + 1
      /\ numActuallyProcessed' = m
      /\ pc' = IF args.num > 0 /\ m >= args.num THEN "exited" ELSE "sleep"
  BY DEF Advance
<1>6. handled' = First(prefix', k + 1)
  BY <1>2, <1>3, <1>4, <1>5, FirstGrows DEF StopInv
<1>7. handled' = First(prefix', numSkipped' + numActuallyProcessed')
  BY <1>5, <1>6
<1>8. args.num > 0 => numActuallyProcessed < args.num
  BY DEF StopInv
<1> QED
  BY <1>1, <1>5, <1>7, <1>8 DEF StopInv

LEMMA StopStep ==
  ASSUME TypeInv, OrderInv, ContInv, StopInv, [Next]_vars PROVE StopInv'
<1>t. OneByOne /\ args.num \in Nat /\ numSkipped \in Nat /\ numActuallyProcessed \in Nat
  BY MonitorAssumption DEF ContInv, TypeInv, TypeOK, LocalsType
<1>1. CASE UNCHANGED <<args, prefix, numSkipped, numActuallyProcessed, handled>>
           /\ (pc' = "exited" <=> pc = "exited")
  BY <1>1 DEF StopInv
<1>2. CASE Recorder \/ Intruder \/ UNCHANGED vars
  BY <1>1, <1>2 DEF Recorder, Intruder, Create, Writes, Extend, Close,
     Remove, Truncate, vars, locals
<1>3. CASE Tick \/ NothingNew \/ PickThrows \/ SizeThrows \/ Pick
           \/ SizeSame \/ SizeGrown \/ Crash
  BY <1>1, <1>3 DEF Tick, NothingNew, PickThrows, SizeThrows, Pick, SizeSame,
     SizeGrown, Crash, Looking, Waiting, Alive, locals
<1>4. ASSUME lastFileProcessed = NoFile,
             UNCHANGED <<args, numSkipped, numActuallyProcessed, handled>>,
             pc # "exited", pc' # "exited"
      PROVE  StopInv'
  <2>1. numSkipped + numActuallyProcessed = 0
    BY <1>t, <1>4 DEF OneByOne, Upcoming
  <2>2. First(prefix', 0) = First(prefix, 0)
    BY DEF First
  <2> QED
    BY <1>4, <2>1, <2>2 DEF StopInv
<1>5. CASE Start
  <2>1. lastFileProcessed = NoFile
    BY <1>5 DEF Start, OrderInv, FreshAtStart
  <2> QED
    BY <1>4, <1>5, <2>1 DEF Start
<1>6. CASE OpenFile \/ OpenThrows
  <2>1. /\ UNCHANGED <<args, numSkipped, numActuallyProcessed, handled>>
        /\ pc = "poll" /\ pc' \in {"reading", "failed"}
        /\ MakeSigProcFiles(monitoringFile)
    BY <1>6 DEF OpenFile, OpenThrows, Stable
  <2>2. CASE lastFileProcessed = NoFile
    BY <1>4, <2>1, <2>2
  <2>3. CASE lastFileProcessed # NoFile
    BY <1>1, <2>1, <2>3 DEF MakeSigProcFiles
  <2> QED
    BY <2>2, <2>3
<1>7. CASE SkipFile
  <2>1. /\ Stable /\ MakeSigProcFiles(monitoringFile) /\ UNCHANGED args
        /\ Advance(numActuallyProcessed, numSkipped + 1)
        /\ monitoringFile # NoFile /\ pc # "exited"
    BY <1>7 DEF SkipFile, Stable
  <2>2. monitoringFile[1] = prefix' /\ (lastFileProcessed # NoFile => prefix' = prefix)
    BY <2>1, MakeOrder DEF MakeSigProcFiles
  <2>3. /\ numSkipped + 1 \in Nat
        /\ numSkipped + 1 + numActuallyProcessed
             = numSkipped + numActuallyProcessed + 1
    BY <1>t
  <2> QED
    BY <1>t, <2>1, <2>2, <2>3, AdvanceStops
<1>8. CASE FinishFile
  <2>1. /\ pc = "reading" /\ UNCHANGED <<args, prefix>>
        /\ Advance(numActuallyProcessed + 1, numSkipped)
    BY <1>8 DEF FinishFile
  <2>2. monitoringFile # NoFile /\ monitoringFile[1] = prefix
    BY <2>1 DEF TypeInv, ReadingOK, OrderInv, ReadingBound
  <2>3. /\ numActuallyProcessed + 1 \in Nat
        /\ numSkipped + (numActuallyProcessed + 1)
             = numSkipped + numActuallyProcessed + 1
    BY <1>t
  <2> QED
    BY <1>t, <2>1, <2>2, <2>3, AdvanceStops
<1>9. CASE Restart
  <2>1. First(prefix', 0) = {}
    BY DEF First
  <2> QED
    BY <1>t, <1>9, <2>1 DEF Restart, StopInv
<1> QED
  BY <1>2, <1>3, <1>5, <1>6, <1>7, <1>8, <1>9 DEF Next, Monitoring

LEMMA StopsRight ==
  ASSUME TypeInv, OrderInv, ContInv, StopInv PROVE ExitsWithRequested
<1> SUFFICES ASSUME pc = "exited" PROVE ExitsWithRequested
  BY DEF ExitsWithRequested
<1> DEFINE skip == args.skip
           num == args.num
<1>1. /\ numSkipped \in Nat /\ numActuallyProcessed \in Nat
      /\ skip \in Nat /\ num \in Nat
      /\ data \in [Prefixes -> Seq(Chunks)] /\ fils \in Prefixes \cup {NoPrefix}
  BY MonitorAssumption DEF TypeInv, TypeOK, LocalsType, OutsType
<1>2. /\ num > 0 /\ numActuallyProcessed = num /\ numSkipped = skip
      /\ handled = First(prefix, skip + num)
  BY <1>1 DEF StopInv, ContInv, OneByOne
<1>3. lastFileProcessed # NoFile
  BY <1>1, <1>2 DEF ContInv, OneByOne, Upcoming
<1>4. fils = prefix /\ fils \in Prefixes /\ fils # NoPrefix
  BY <1>1, <1>3 DEF OrderInv, BoundToPrefix
<1>5. Len(data[fils]) = num /\ DOMAIN data[fils] = 1..num
  BY <1>1, <1>2, <1>4 DEF ContInv, OpenCounted
<1>6. \A i \in 1..num : data[fils][i].file = <<fils, skip + i>>
  BY <1>4, <1>5 DEF ContInv, Contiguous
<1> HIDE DEF skip, num
<1>7. Cardinality(handled) = skip + num
  BY <1>1, <1>2, FirstCount
<1>8. \A n \in 1..(skip + num) :
        Cardinality({g \in handled : g[2] < n}) = n - 1
  <2> SUFFICES ASSUME NEW n \in 1..(skip + num)
               PROVE  Cardinality({g \in handled : g[2] < n}) = n - 1
    OBVIOUS
  <2>1. {g \in handled : g[2] < n} = First(prefix, n - 1)
    BY <1>1, <1>2 DEF First
  <2>2. n - 1 \in Nat
    BY <1>1
  <2>3. Cardinality(First(prefix, n - 1)) = n - 1
    BY <2>2, FirstCount
  <2> QED
    BY <2>1, <2>3
<1>9. {data[fils][i].file : i \in DOMAIN data[fils]}
        = {f \in handled : Cardinality({g \in handled : g[2] < f[2]}) >= skip}
  <2>1. {f \in handled : Cardinality({g \in handled : g[2] < f[2]}) >= skip}
          = {f \in handled : f[2] - 1 >= skip}
    BY <1>2, <1>8 DEF First
  <2>2. {<<fils, skip + i>> : i \in 1..num} = {f \in handled : f[2] - 1 >= skip}
    <3>1. ASSUME NEW i \in 1..num
          PROVE  <<fils, skip + i>> \in {f \in handled : f[2] - 1 >= skip}
      <4>1. skip + i \in 1..(skip + num) /\ skip + i - 1 >= skip
        BY <1>1, <3>1
      <4> DEFINE e == <<fils, skip + i>>
      <4>2. e \in handled
        BY <1>2, <1>4, <4>1 DEF First
      <4>3. e[2] = skip + i
        OBVIOUS
      <4> HIDE DEF e
      <4>4. e[2] - 1 >= skip
        BY <1>1, <4>1, <4>3
      <4>5. e \in {f \in handled : f[2] - 1 >= skip}
        BY <4>2, <4>4
      <4> QED
        BY <4>5 DEF e
    <3>2. ASSUME NEW f \in handled, f[2] - 1 >= skip
          PROVE  \E i \in 1..num : f = <<fils, skip + i>>
      <4>1. PICK m \in 1..(skip + num) : f = <<fils, m>>
        BY <1>2, <1>4 DEF First
      <4>2. m - skip \in 1..num /\ skip + (m - skip) = m
        BY <1>1, <3>2, <4>1
      <4> QED
        BY <4>1, <4>2
    <3> QED
      BY <3>1, <3>2
  <2>3. {data[fils][i].file : i \in DOMAIN data[fils]}
          = {<<fils, skip + i>> : i \in 1..num}
    BY <1>5, <1>6
  <2> QED
    BY <2>1, <2>2, <2>3
<1> QED
  BY <1>5, <1>7, <1>9 DEF ExitsWithRequested, skip, num

\* With a tidy recorder a monitor that stops by itself has appended as many
\* files as it was asked for, and handled these and the skipped ones.
THEOREM AlwaysExitsWithRequested == ASSUME Tidy PROVE Spec => []ExitsWithRequested
<1> DEFINE Inv == /\ TypeInv /\ OrderInv /\ CountInv /\ OpenInv
                  /\ StableInv /\ ThrowInv /\ ContInv /\ StopInv
<1>1. Init => Inv
  BY TypeInit, OrderInit, CountInit, OpenInit, StableInit, ThrowInit,
     ContInit, StopInit
<1>2. Inv /\ [Next]_vars => Inv'
  BY TypeStep, OrderStep, CountStep, OpenStep, StableStep, ThrowStep,
     ContStep, StopStep
<1>3. Inv => ExitsWithRequested
  BY StopsRight
<1> QED
  BY <1>1, <1>2, <1>3, PTL DEF Spec
=============================================================================
