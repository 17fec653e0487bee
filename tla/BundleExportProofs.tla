------------------------ MODULE BundleExportProofs ------------------------
(***************************************************************************)
(* Theorems about BundleExport: for every set of receipts, nodes, threads  *)
(* and processes, however threads interleave, fail and crash.              *)
(***************************************************************************)
EXTENDS BundleExport, TLAPS

\* An exporter that has begun works on a receipt.
Working(e) == pc[e] # "idle"

\* The blob of the node at position i of a receipt is in the store.
Stored(r, i) == entry[<<"blobs", Refs[r][i]>>] # NoFile

\* The parts of the types the argument needs.
BundleTypes ==
    /\ bundles \subseteq Receipts
    /\ entry = [p \in Paths |-> entry[p]]
    /\ pc \in [Exporters -> {"idle", "next", "open", "write", "rename", "bundle"}]
    /\ job \in [Exporters -> Receipts]
    /\ dir \in [Exporters -> {"blobs", "descriptors"}]
    /\ index \in [Exporters -> Nat \ {0}]

\* What makes BundleIsBacked inductive: an exporter's receipt was found
\* complete, the blobs before its position are stored, it writes only where
\* there is a node left, and puts the bundle when none is.
BInv ==
    /\ BundleTypes
    /\ \A e \in Exporters : Working(e) => Fetched(job[e])
    /\ \A e \in Exporters : Working(e) /\ dir[e] = "blobs" =>
          \A i \in DOMAIN Refs[job[e]] : i < index[e] => Stored(job[e], i)
    /\ \A e \in Exporters : pc[e] \in {"open", "write", "rename"} => ~Done(e)
    /\ \A e \in Exporters : pc[e] = "bundle" => dir[e] = "blobs" /\ Done(e)
    /\ BundleIsBacked

\* Nothing is exported and nobody is at work.
LEMMA BInvInit == Init => BInv
<1> SUFFICES ASSUME Init PROVE BInv
  OBVIOUS
<1>1. (CHOOSE r \in Receipts : TRUE) \in Receipts
  BY BundleAssumption
<1>2. BundleTypes
  BY <1>1 DEF Init, BundleTypes
<1> QED
  BY <1>2 DEF Init, BInv, Working, BundleIsBacked

\* The positions of a receipt's nodes.
LEMMA Positions ==
    ASSUME NEW r \in Receipts
    PROVE  /\ Refs[r] \in Seq(Nodes) /\ Len(Refs[r]) \in Nat
           /\ DOMAIN Refs[r] = 1..Len(Refs[r])
           /\ \A i \in 1..Len(Refs[r]) : Refs[r][i] \in Nodes
  BY BundleAssumption

\* No step removes a file: a path that has one keeps one.
LEMMA FilesStay ==
    ASSUME BInv, [Next]_vars
    PROVE  \A p \in Paths : entry[p] # NoFile => entry'[p] # NoFile
<1>1. ASSUME NEW e \in Exporters, Rename(e)
      PROVE  \A p \in Paths : entry[p] # NoFile => entry'[p] # NoFile
  BY <1>1 DEF Rename, BInv, BundleTypes
<1>2. ASSUME NEW e \in Exporters,
             Assemble(e) \/ NextFile(e) \/ Open(e) \/ Write(e) \/ PutBundle(e) \/ Fail(e)
      PROVE  UNCHANGED entry
  BY <1>2 DEF Assemble, NextFile, Open, Write, PutBundle, Fail
<1>3. ASSUME RecordNode \/ (\E p \in Processes : Crash(p)) \/ UNCHANGED vars
      PROVE  UNCHANGED entry
  BY <1>3 DEF RecordNode, Crash, vars
<1> QED
  BY <1>1, <1>2, <1>3 DEF Next

\* Evidence on record stays on record.
LEMMA NodesStay == ASSUME [Next]_vars PROVE nodes \subseteq nodes'
<1>1. ASSUME NEW e \in Exporters,
             Assemble(e) \/ NextFile(e) \/ Open(e) \/ Write(e) \/ Rename(e)
             \/ PutBundle(e) \/ Fail(e)
      PROVE  UNCHANGED nodes
  BY <1>1 DEF Assemble, NextFile, Open, Write, Rename, PutBundle, Fail
<1>2. CASE RecordNode
  BY <1>2 DEF RecordNode
<1>3. ASSUME (\E p \in Processes : Crash(p)) \/ UNCHANGED vars PROVE UNCHANGED nodes
  BY <1>3 DEF Crash, vars
<1> QED
  BY <1>1, <1>2, <1>3 DEF Next

\* The types after a step.
LEMMA TypesStep == ASSUME BInv, [Next]_vars PROVE BundleTypes'
<1> USE DEF BundleTypes
<1>0. BundleTypes
  BY DEF BInv
<1>1. ASSUME NEW e \in Exporters, Assemble(e) PROVE BundleTypes'
  BY <1>0, <1>1 DEF Assemble
<1>2. ASSUME NEW e \in Exporters, NextFile(e) PROVE BundleTypes'
  BY <1>0, <1>2 DEF NextFile
<1>3. ASSUME NEW e \in Exporters, Open(e) PROVE BundleTypes'
  BY <1>0, <1>3 DEF Open
<1>4. ASSUME NEW e \in Exporters, Write(e) PROVE BundleTypes'
  BY <1>0, <1>4 DEF Write
<1>5. ASSUME NEW e \in Exporters, Rename(e) PROVE BundleTypes'
  BY <1>0, <1>5 DEF Rename
<1>6. ASSUME NEW e \in Exporters, PutBundle(e) PROVE BundleTypes'
  BY <1>0, <1>6 DEF PutBundle
<1>7. ASSUME NEW e \in Exporters, Fail(e) PROVE BundleTypes'
  BY <1>0, <1>7 DEF Fail
<1>8. ASSUME NEW p \in Processes, Crash(p) PROVE BundleTypes'
  BY <1>0, <1>8 DEF Crash
<1>9. ASSUME RecordNode \/ UNCHANGED vars PROVE BundleTypes'
  BY <1>0, <1>9 DEF RecordNode, vars
<1> QED
  BY <1>1, <1>2, <1>3, <1>4, <1>5, <1>6, <1>7, <1>8, <1>9 DEF Next

\* What BInv says of one exporter.
ExporterInv(e) ==
    /\ Working(e) => Fetched(job[e])
    /\ Working(e) /\ dir[e] = "blobs" =>
          \A i \in DOMAIN Refs[job[e]] : i < index[e] => Stored(job[e], i)
    /\ pc[e] \in {"open", "write", "rename"} => ~Done(e)
    /\ pc[e] = "bundle" => dir[e] = "blobs" /\ Done(e)

\* A step that leaves an exporter alone, or stops it, keeps what holds of it.
LEMMA OthersStay ==
    ASSUME BInv, [Next]_vars, NEW e \in Exporters,
           pc'[e] = "idle" \/ (pc'[e] = pc[e] /\ job'[e] = job[e]
                                /\ dir'[e] = dir[e] /\ index'[e] = index[e])
    PROVE  ExporterInv(e)'
<1>1. CASE pc'[e] = "idle"
  BY <1>1 DEF ExporterInv, Working
<1>2. CASE pc'[e] # "idle"
  <2>1. /\ job[e] \in Receipts
        /\ \A i \in DOMAIN Refs[job[e]] : <<"blobs", Refs[job[e]][i]>> \in Paths
    BY Positions DEF BInv, BundleTypes, Paths
  <2>2. Fetched(job[e]) => Fetched(job[e])'
    BY <1>2, NodesStay DEF Fetched
  <2>3. \A i \in DOMAIN Refs[job[e]] : Stored(job[e], i) => Stored(job[e], i)'
    BY <1>2, <2>1, FilesStay DEF Stored
  <2> QED
    BY <1>2, <2>2, <2>3 DEF ExporterInv, Working, Done, BInv
<1> QED
  BY <1>1, <1>2

\* What the exporter that takes a step finds afterwards.
LEMMA OwnStep ==
    ASSUME BInv, [Next]_vars, NEW e \in Exporters,
           Assemble(e) \/ NextFile(e) \/ Open(e) \/ Write(e) \/ Rename(e)
           \/ PutBundle(e) \/ Fail(e)
    PROVE  ExporterInv(e)'
<1> USE DEF ExporterInv, Working, Stored, Done, Path
<1>0. /\ BundleTypes /\ BundleTypes' /\ job[e] \in Receipts /\ index[e] \in Nat \ {0}
      /\ ExporterInv(e)
  BY TypesStep DEF BInv, BundleTypes
<1>1. CASE Assemble(e)
  <2>1. Fetched(job'[e]) /\ nodes' = nodes /\ index'[e] = 1 /\ job'[e] \in Receipts
        /\ pc'[e] = "next"
    BY <1>0, <1>1 DEF Assemble, BundleTypes
  <2>2. \A i \in DOMAIN Refs[job'[e]] : ~(i < index'[e])
    BY <2>1, Positions
  <2> QED
    BY <2>1, <2>2 DEF Fetched
<1>2. CASE NextFile(e)
  <2>1. /\ UNCHANGED <<nodes, entry, job, dir>> /\ pc[e] = "next"
    BY <1>2 DEF NextFile
  <2>2. Fetched(job[e])'
    BY <1>0, <2>1 DEF Fetched
  <2>3. CASE ~Done(e) /\ Exists(e)
    <3>1. index'[e] = index[e] + 1 /\ pc'[e] = "next"
      BY <1>0, <1>2, <2>1, <2>3 DEF NextFile, BundleTypes
    <3>2. dir[e] = "blobs" /\ entry[<<"blobs", Refs[job[e]][index[e]]>>] # NoFile
      BY <2>3 DEF Exists
    <3>3. \A i \in DOMAIN Refs[job[e]] : i < index[e] + 1 => i < index[e] \/ i = index[e]
      BY <1>0, Positions
    <3> QED
      BY <1>0, <2>1, <2>2, <3>1, <3>2, <3>3
  <2>4. CASE ~Done(e) /\ ~Exists(e)
    <3>1. index'[e] = index[e] /\ pc'[e] = "open"
      BY <1>0, <1>2, <2>1, <2>4 DEF NextFile, BundleTypes
    <3> QED
      BY <1>0, <2>1, <2>2, <2>4, <3>1
  <2>5. CASE Done(e)
    <3>1. index'[e] = index[e] /\ pc'[e] = IF dir[e] = "blobs" THEN "bundle" ELSE "idle"
      BY <1>0, <1>2, <2>1, <2>5 DEF NextFile, BundleTypes
    <3> QED
      BY <1>0, <2>1, <2>2, <2>5, <3>1
  <2> QED
    BY <2>3, <2>4, <2>5
<1>3. CASE Open(e) \/ Write(e)
  <2>1. /\ UNCHANGED <<nodes, entry, job, dir, index>>
        /\ pc[e] \in {"open", "write"} /\ pc'[e] \in {"write", "rename"}
    BY <1>0, <1>3 DEF Open, Write, BundleTypes
  <2> QED
    BY <1>0, <2>1 DEF Fetched
<1>4. CASE Rename(e)
  <2>1. UNCHANGED <<nodes, job, dir>> /\ pc[e] = "rename" /\ ~Done(e)
    BY <1>0, <1>4 DEF Rename
  <2>2. CASE pc'[e] = "idle"
    BY <2>2
  <2>3. CASE pc'[e] # "idle"
    <3>1. /\ entry' = [entry EXCEPT ![Path(e)] = temp[Temp(e)]] /\ temp[Temp(e)] # NoFile
          /\ index'[e] = index[e] + 1 /\ pc'[e] = "next"
      BY <1>0, <1>4, <2>3 DEF Rename, BundleTypes
    <3>2. index[e] \in DOMAIN Refs[job[e]] /\ Refs[job[e]][index[e]] \in Nodes
      BY <1>0, <2>1, Positions
    <3>3. Path(e) \in Paths
      BY <1>0, <3>2 DEF Paths, BundleTypes
    <3>4. entry'[Path(e)] # NoFile
      BY <1>0, <3>1, <3>3 DEF BundleTypes
    <3>5. \A i \in DOMAIN Refs[job[e]] : <<"blobs", Refs[job[e]][i]>> \in Paths
      BY <1>0, Positions DEF Paths
    <3>6. \A i \in DOMAIN Refs[job[e]] : i < index[e] + 1 => i < index[e] \/ i = index[e]
      BY <1>0, Positions
    <3> QED
      BY <1>0, <2>1, <3>1, <3>4, <3>5, <3>6, FilesStay DEF Fetched
  <2> QED
    BY <2>2, <2>3
<1>5. CASE PutBundle(e)
  <2>1. /\ UNCHANGED <<nodes, job>> /\ pc[e] = "bundle"
        /\ dir'[e] = "descriptors" /\ pc'[e] = "next"
    BY <1>0, <1>5 DEF PutBundle, BundleTypes
  <2> QED
    BY <1>0, <2>1 DEF Fetched
<1>6. CASE Fail(e)
  BY <1>0, <1>6 DEF Fail, BundleTypes
<1> QED
  BY <1>1, <1>2, <1>3, <1>4, <1>5, <1>6

\* Each exporter keeps its part of the invariant, whoever takes the step.
LEMMA ExporterStep ==
    ASSUME BInv, [Next]_vars, NEW e \in Exporters PROVE ExporterInv(e)'
<1>0. BundleTypes
  BY DEF BInv
<1>1. ASSUME NEW x \in Exporters,
             Assemble(x) \/ NextFile(x) \/ Open(x) \/ Write(x) \/ Rename(x)
             \/ PutBundle(x) \/ Fail(x)
      PROVE  ExporterInv(e)'
  <2>1. CASE x = e
    BY <1>1, <2>1, OwnStep
  <2>2. CASE x # e
    <3>1. /\ pc'[e] = pc[e] /\ job'[e] = job[e]
          /\ dir'[e] = dir[e] /\ index'[e] = index[e]
      BY <1>0, <1>1, <2>2
         DEF BundleTypes, Assemble, NextFile, Open, Write, Rename, PutBundle, Fail
    <3> QED
      BY <3>1, OthersStay
  <2> QED
    BY <2>1, <2>2
<1>2. CASE RecordNode \/ UNCHANGED vars
  <2>1. UNCHANGED <<pc, job, dir, index>>
    BY <1>2 DEF RecordNode, vars
  <2> QED
    BY <2>1, OthersStay
<1>3. ASSUME NEW p \in Processes, Crash(p) PROVE ExporterInv(e)'
  <2>1. UNCHANGED <<job, dir, index>> /\ pc'[e] \in {"idle", pc[e]}
    BY <1>3 DEF Crash
  <2> QED
    BY <2>1, OthersStay
<1> QED
  BY <1>1, <1>2, <1>3 DEF Next

\* Bundles are put only by an exporter whose blobs are all stored.
LEMMA BackedStep == ASSUME BInv, [Next]_vars PROVE BundleIsBacked'
<1> SUFFICES ASSUME NEW r \in bundles', NEW i \in DOMAIN Refs[r]
             PROVE  Refs[r][i] \in nodes' /\ entry'[<<"blobs", Refs[r][i]>>] # NoFile
  BY DEF BundleIsBacked
<1>1. r \in Receipts /\ <<"blobs", Refs[r][i]>> \in Paths
  <2>1. r \in Receipts
    BY TypesStep DEF BundleTypes
  <2> QED
    BY <2>1, Positions DEF Paths
<1>2. Refs[r][i] \in nodes /\ entry[<<"blobs", Refs[r][i]>>] # NoFile
  <2>1. CASE r \in bundles
    BY <2>1 DEF BInv, BundleIsBacked
  <2>2. CASE r \notin bundles
    <3>1. PICK e \in Exporters : PutBundle(e)
      BY <2>2 DEF Next, vars, RecordNode, Assemble, NextFile, Open, Write, Rename, Fail, Crash
    <3>2. /\ r = job[e] /\ pc[e] = "bundle" /\ dir[e] = "blobs" /\ Done(e)
          /\ index[e] \in Nat
      BY <2>2, <3>1 DEF PutBundle, BInv, BundleTypes
    <3>3. i < index[e]
      BY <1>1, <3>2, Positions DEF Done
    <3> QED
      BY <3>2, <3>3 DEF BInv, Working, Fetched, Stored
  <2> QED
    BY <2>1, <2>2
<1> QED
  BY <1>1, <1>2, NodesStay, FilesStay

\* Every step of an export keeps BInv.
LEMMA BInvStep == BInv /\ [Next]_vars => BInv'
<1> SUFFICES ASSUME BInv, [Next]_vars PROVE BInv'
  OBVIOUS
<1>1. \A e \in Exporters : ExporterInv(e)'
  BY ExporterStep
<1> QED
  BY <1>1, TypesStep, BackedStep DEF BInv, ExporterInv

\* A bundle in the protocol object store has all of its evidence, nodes and
\* blobs, however exporters interleave, fail and crash (assemble_bundle).
THEOREM BundlesAreBacked == Spec => []BundleIsBacked
<1>1. BInv => BundleIsBacked
  BY DEF BInv
<1> QED
  BY <1>1, BInvInit, BInvStep, PTL DEF Spec

-----------------------------------------------------------------------------
(* Half-written files *)

\* The types of the file system.
FileTypes ==
    /\ entry \in [Paths -> Inodes \cup {NoFile}]
    /\ temp \in [Processes \X Paths -> Inodes \cup {NoFile}]
    /\ content \in [Inodes -> {"part", "full"}]
    /\ fd \in [Exporters -> Inodes]

\* What makes PartialHasWriter inductive.
FInv == BInv /\ FileTypes /\ NamedIsAccounted

\* There is no file.
LEMMA FInvInit == Init => FInv
<1> SUFFICES ASSUME Init PROVE FInv
  OBVIOUS
<1>1. FileTypes
  BY BundleAssumption DEF Init, FileTypes, Inodes
<1>2. NamedIsAccounted
  BY DEF Init, NamedIsAccounted, Named
<1> QED
  BY <1>1, <1>2, BInvInit DEF FInv

\* The files of an exporter that opens, writes or renames have a place.
LEMMA FilesOf ==
    ASSUME BInv, NEW e \in Exporters, pc[e] \in {"open", "write", "rename"}
    PROVE  Path(e) \in Paths /\ Temp(e) \in Processes \X Paths
<1>1. job[e] \in Receipts /\ index[e] \in Nat \ {0} /\ dir[e] \in {"blobs", "descriptors"}
      /\ ~Done(e)
  BY DEF BInv, BundleTypes
<1>2. Refs[job[e]][index[e]] \in Nodes
  BY <1>1, Positions DEF Done
<1>3. ProcessOf[e] \in Processes
  BY BundleAssumption
<1> QED
  BY <1>1, <1>2, <1>3 DEF Path, Temp, Paths

\* A step that names no file, changes no file and stops no writer without a trace.
LEMMA FilesKept ==
    ASSUME FileTypes, NamedIsAccounted, UNCHANGED <<entry, temp, content, fd>>,
           broken \subseteq broken',
           \A e \in Exporters : pc[e] = "write" => pc'[e] = "write" \/ fd[e] \in broken'
    PROVE  FileTypes' /\ NamedIsAccounted'
  BY DEF FileTypes, NamedIsAccounted, Named, Accounted

\* Opening: the inode opened has its writer, the others keep theirs.
LEMMA OpenFile ==
    ASSUME FInv, NEW e \in Exporters, Open(e) PROVE FileTypes' /\ NamedIsAccounted'
<1>1. pc[e] = "open" /\ Temp(e) \in Processes \X Paths /\ FileTypes /\ NamedIsAccounted
  BY FilesOf DEF Open, FInv
<1> DEFINE j == fd'[e]
<1>2. j \in Inodes /\ fd' = [fd EXCEPT ![e] = j]
  <2>1. CASE OpenedAt(e) # NoFile
    BY <1>1, <2>1 DEF Open, OpenedAt, FileTypes
  <2>2. CASE OpenedAt(e) = NoFile
    <3>1. Inodes \ InUse # {} /\ fd' = [fd EXCEPT ![e] = CHOOSE i \in Inodes \ InUse : TRUE]
      BY <2>2 DEF Open
    <3>2. (CHOOSE i \in Inodes \ InUse : TRUE) \in Inodes
      BY <3>1
    <3> QED
      BY <1>1, <3>1, <3>2 DEF FileTypes
  <2> QED
    BY <2>1, <2>2
<1>3. /\ entry' = entry /\ broken' = broken /\ temp' = [temp EXCEPT ![Temp(e)] = j]
      /\ content' = [content EXCEPT ![j] = "part"] /\ pc' = [pc EXCEPT ![e] = "write"]
      /\ pc \in [Exporters -> {"idle", "next", "open", "write", "rename", "bundle"}]
  BY DEF Open, FInv, BInv, BundleTypes
<1> HIDE DEF j
<1>4. FileTypes'
  BY <1>1, <1>2, <1>3 DEF FileTypes
<1>5. ASSUME NEW i \in Inodes, Named(i)' PROVE Accounted(i)'
  <2>1. CASE i = j
    BY <1>1, <1>2, <1>3, <2>1 DEF Accounted, FileTypes, j
  <2>2. CASE i # j
    <3>1. Named(i)
      BY <1>1, <1>3, <1>5, <2>2 DEF Named, FileTypes
    <3>2. Accounted(i)
      BY <1>1, <3>1 DEF NamedIsAccounted
    <3>3. content'[i] = content[i]
      BY <1>1, <1>2, <1>3, <2>2 DEF FileTypes
    <3>4. \A x \in Exporters : pc[x] = "write" => pc'[x] = "write" /\ fd'[x] = fd[x]
      BY <1>1, <1>2, <1>3 DEF FileTypes
    <3> QED
      BY <1>3, <3>2, <3>3, <3>4 DEF Accounted
  <2> QED
    BY <2>1, <2>2
<1> QED
  BY <1>4, <1>5 DEF NamedIsAccounted

\* Writing: the inode is whole, and any other writer writes another inode or this one.
LEMMA WriteFile ==
    ASSUME FInv, NEW e \in Exporters, Write(e) PROVE FileTypes' /\ NamedIsAccounted'
<1>1. /\ pc[e] = "write" /\ FileTypes /\ NamedIsAccounted /\ fd[e] \in Inodes /\ 1 \in Inodes
      /\ entry' = entry /\ temp' = temp /\ broken' = broken \ {fd[e]}
      /\ content' = [content EXCEPT ![fd[e]] = "full"]
      /\ fd' = [fd EXCEPT ![e] = 1] /\ pc' = [pc EXCEPT ![e] = "rename"]
      /\ pc \in [Exporters -> {"idle", "next", "open", "write", "rename", "bundle"}]
  BY BundleAssumption DEF Write, FInv, BInv, BundleTypes, FileTypes, Inodes
<1>2. FileTypes'
  BY <1>1 DEF FileTypes
<1>3. ASSUME NEW i \in Inodes, Named(i)' PROVE Accounted(i)'
  <2>1. CASE i = fd[e]
    BY <1>1, <2>1 DEF Accounted, FileTypes
  <2>2. CASE i # fd[e]
    <3>1. Accounted(i) /\ content'[i] = content[i] /\ (i \in broken => i \in broken')
      BY <1>1, <1>3, <2>2 DEF Named, NamedIsAccounted, FileTypes
    <3>2. \A x \in Exporters : pc[x] = "write" /\ fd[x] = i => pc'[x] = "write" /\ fd'[x] = i
      BY <1>1, <2>2 DEF FileTypes
    <3> QED
      BY <3>1, <3>2 DEF Accounted
  <2> QED
    BY <2>1, <2>2
<1> QED
  BY <1>2, <1>3 DEF NamedIsAccounted

\* Renaming names no inode that had no name before.
LEMMA RenameFile ==
    ASSUME FInv, NEW e \in Exporters, Rename(e) PROVE FileTypes' /\ NamedIsAccounted'
<1>1. /\ pc[e] = "rename" /\ FileTypes /\ NamedIsAccounted
      /\ Path(e) \in Paths /\ Temp(e) \in Processes \X Paths
      /\ UNCHANGED <<content, fd, broken>>
      /\ pc \in [Exporters -> {"idle", "next", "open", "write", "rename", "bundle"}]
  BY FilesOf DEF Rename, FInv, BInv, BundleTypes
<1>2. \A x \in Exporters : pc[x] = "write" => pc'[x] = "write"
  BY <1>1 DEF Rename
<1>3. CASE temp[Temp(e)] = NoFile
  <2>1. UNCHANGED <<entry, temp>>
    BY <1>3 DEF Rename
  <2> QED
    BY <1>1, <1>2, <2>1, FilesKept
<1>4. CASE temp[Temp(e)] # NoFile
  <2>1. /\ entry' = [entry EXCEPT ![Path(e)] = temp[Temp(e)]]
        /\ temp' = [temp EXCEPT ![Temp(e)] = NoFile]
    BY <1>4 DEF Rename
  <2>2. FileTypes'
    BY <1>1, <2>1 DEF FileTypes
  <2>3. \A i \in Inodes : Named(i)' => Named(i)
    BY <1>1, <2>1 DEF Named, FileTypes
  <2>4. \A i \in Inodes : Accounted(i) => Accounted(i)'
    BY <1>1, <1>2 DEF Accounted
  <2> QED
    BY <1>1, <2>2, <2>3, <2>4 DEF NamedIsAccounted
<1> QED
  BY <1>3, <1>4

\* Every step of an export keeps FInv.
LEMMA FInvStep == FInv /\ [Next]_vars => FInv'
<1> SUFFICES ASSUME FInv, [Next]_vars PROVE FileTypes' /\ NamedIsAccounted'
  BY BInvStep DEF FInv
<1>0. /\ FileTypes /\ NamedIsAccounted
      /\ pc \in [Exporters -> {"idle", "next", "open", "write", "rename", "bundle"}]
  BY DEF FInv, BInv, BundleTypes
<1>1. CASE RecordNode \/ UNCHANGED vars
  BY <1>0, <1>1, FilesKept DEF RecordNode, vars
<1>2. ASSUME NEW e \in Exporters, Assemble(e) \/ NextFile(e) \/ PutBundle(e)
      PROVE  FileTypes' /\ NamedIsAccounted'
  <2>1. /\ UNCHANGED <<entry, temp, content, fd, broken>>
        /\ \A x \in Exporters : pc[x] = "write" => pc'[x] = "write"
    BY <1>0, <1>2 DEF Assemble, NextFile, PutBundle
  <2> QED
    BY <1>0, <2>1, FilesKept
<1>3. ASSUME NEW e \in Exporters, Fail(e) PROVE FileTypes' /\ NamedIsAccounted'
  <2>1. /\ UNCHANGED <<entry, temp, content, fd>> /\ broken \subseteq broken'
        /\ \A x \in Exporters : pc[x] = "write" => pc'[x] = "write" \/ fd[x] \in broken'
    BY <1>0, <1>3 DEF Fail, LeftBy
  <2> QED
    BY <1>0, <2>1, FilesKept
<1>4. ASSUME NEW p \in Processes, Crash(p) PROVE FileTypes' /\ NamedIsAccounted'
  <2>1. /\ UNCHANGED <<entry, temp, content, fd>> /\ broken \subseteq broken'
        /\ \A x \in Exporters : pc[x] = "write" => pc'[x] = "write" \/ fd[x] \in broken'
    BY <1>0, <1>4 DEF Crash, LeftBy
  <2> QED
    BY <1>0, <2>1, FilesKept
<1> QED
  BY <1>1, <1>2, <1>3, <1>4, OpenFile, WriteFile, RenameFile DEF Next

\* Writes are not atomic, but it takes a thread that is writing, or that failed or crashed
\* while it was, to leave a blob or descriptor half written: however threads of a process
\* share their temporary files and rename each other's, the last write is of the whole
\* (atomic_write).
THEOREM PartialFilesHaveWriters == Spec => []PartialHasWriter
<1>1. FInv => PartialHasWriter
  BY DEF FInv, FileTypes, NamedIsAccounted, Named, Accounted, PartialHasWriter
<1> QED
  BY <1>1, FInvInit, FInvStep, PTL DEF Spec

===========================================================================
