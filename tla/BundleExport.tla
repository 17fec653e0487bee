--------------------------- MODULE BundleExport ---------------------------
(***************************************************************************)
(* Assembling dispute bundles (bundle_export.rs) over the local evidence   *)
(* store (evidence.rs of piteka-storage).  The store writes a file under a *)
(* temporary name, shared by the threads of a process, and renames it into *)
(* place; the file system is modelled by directory entries that refer to   *)
(* inodes, since a thread goes on writing an inode another has renamed.    *)
(***************************************************************************)
EXTENDS Naturals, Sequences, FiniteSets

CONSTANTS
    Nodes,        \* evidence node identifiers
    Recordable,   \* those a webhook or a dispatch records; the others are gaps
    Receipts,     \* receipts on record
    Refs,         \* the nodes of each receipt: dispatch, target and gaps, in order
    Processes,    \* processes sharing the evidence directory
    Exporters,    \* threads that assemble bundles
    ProcessOf,    \* the process of each thread
    MaxInode,     \* bound: inodes
    NoFile        \* no directory entry

ASSUME BundleAssumption ==
    /\ Recordable \subseteq Nodes
    /\ Refs \in [Receipts -> Seq(Nodes)]
    /\ ProcessOf \in [Exporters -> Processes]
    /\ MaxInode \in Nat \ {0}
    /\ Receipts # {}

VARIABLES
    nodes,     \* the evidence nodes recorded
    bundles,   \* receipts whose bundle is in the protocol object store
    entry,     \* the file at each path, an inode
    temp,      \* the temporary file of each process and path
    content,   \* what each inode holds
    pc,        \* the next step of each exporter
    job,       \* the receipt it exports
    dir,       \* the directory it writes to, "blobs" then "descriptors"
    index,     \* the position of the node it is at
    fd,        \* the inode it has open
    broken     \* history: inodes left half written by a failed write or a crash

vars == <<nodes, bundles, entry, temp, content, pc, job, dir, index, fd, broken>>

Paths == {"blobs", "descriptors"} \X Nodes

Inodes == 1..MaxInode

TypeOK ==
    /\ nodes \subseteq Recordable
    /\ bundles \subseteq Receipts
    /\ entry \in [Paths -> Inodes \cup {NoFile}]
    /\ temp \in [Processes \X Paths -> Inodes \cup {NoFile}]
    /\ content \in [Inodes -> {"part", "full"}]
    /\ pc \in [Exporters -> {"idle", "next", "open", "write", "rename", "bundle"}]
    /\ job \in [Exporters -> Receipts]
    /\ dir \in [Exporters -> {"blobs", "descriptors"}]
    /\ index \in [Exporters -> Nat]
    /\ fd \in [Exporters -> Inodes]
    /\ broken \subseteq Inodes

Init ==
    /\ nodes = {} /\ bundles = {} /\ broken = {}
    /\ entry = [p \in Paths |-> NoFile]
    /\ temp = [x \in Processes \X Paths |-> NoFile]
    /\ content = [i \in Inodes |-> "part"]
    /\ pc = [e \in Exporters |-> "idle"]
    /\ job = [e \in Exporters |-> CHOOSE r \in Receipts : TRUE]
    /\ dir = [e \in Exporters |-> "blobs"]
    /\ index = [e \in Exporters |-> 1]
    /\ fd = [e \in Exporters |-> 1]

-----------------------------------------------------------------------------

\* Ingestion and dispatch record the evidence nodes, concurrently.
RecordNode ==
    /\ \E n \in Recordable \ nodes : nodes' = nodes \cup {n}
    /\ UNCHANGED <<bundles, entry, temp, content, pc, job, dir, index, fd, broken>>

\* Mutant: nodes that are missing are left out of the bundle.
Fetched_Any(r) == TRUE

\* fetch_nodes finds every node the receipt refers to.
Fetched(r) == \A i \in DOMAIN Refs[r] : Refs[r][i] \in nodes

\* A receipt that refers to a missing node is refused as IncompleteEvidence.
Assemble(e) ==
    /\ pc[e] = "idle"
    /\ \E r \in Receipts :
          /\ Fetched(r)
          /\ job' = [job EXCEPT ![e] = r]
    /\ pc' = [pc EXCEPT ![e] = "next"]
    /\ dir' = [dir EXCEPT ![e] = "blobs"]
    /\ index' = [index EXCEPT ![e] = 1]
    /\ UNCHANGED <<nodes, bundles, entry, temp, content, fd, broken>>

Path(e) == <<dir[e], Refs[job[e]][index[e]]>>

Temp(e) == <<ProcessOf[e], Path(e)>>

Done(e) == index[e] > Len(Refs[job[e]])

\* put: a blob that exists is taken to be whole; a descriptor is always written.
Exists(e) == dir[e] = "blobs" /\ entry[Path(e)] # NoFile

NextFile(e) ==
    /\ pc[e] = "next"
    /\ \/ /\ ~ Done(e) /\ Exists(e)
          /\ index' = [index EXCEPT ![e] = @ + 1]
          /\ UNCHANGED pc
       \/ /\ ~ Done(e) /\ ~ Exists(e)
          /\ pc' = [pc EXCEPT ![e] = "open"]
          /\ UNCHANGED index
       \/ /\ Done(e)
          /\ pc' = [pc EXCEPT ![e] = IF dir[e] = "blobs" THEN "bundle" ELSE "idle"]
          /\ UNCHANGED index
    /\ UNCHANGED <<nodes, bundles, entry, temp, content, job, dir, fd, broken>>

InUse ==
    {entry[p] : p \in Paths} \cup {temp[x] : x \in Processes \X Paths}
    \cup {fd[e] : e \in {x \in Exporters : pc[x] = "write"}}

\* The temporary name holds the process id and no more, so a file another thread has
\* under it is opened, and truncated.
OpenedAt(e) == temp[Temp(e)]

Open(e) ==
    /\ pc[e] = "open"
    /\ IF OpenedAt(e) # NoFile
       THEN fd' = [fd EXCEPT ![e] = OpenedAt(e)]
       ELSE /\ Inodes \ InUse # {}
            /\ fd' = [fd EXCEPT ![e] = CHOOSE i \in Inodes \ InUse : TRUE]
    /\ temp' = [temp EXCEPT ![Temp(e)] = fd'[e]]
    /\ content' = [content EXCEPT ![fd'[e]] = "part"]
    /\ pc' = [pc EXCEPT ![e] = "write"]
    /\ UNCHANGED <<nodes, bundles, entry, job, dir, index, broken>>

Write(e) ==
    /\ pc[e] = "write"
    /\ content' = [content EXCEPT ![fd[e]] = "full"]
    /\ broken' = broken \ {fd[e]}
    /\ pc' = [pc EXCEPT ![e] = "rename"]
    /\ fd' = [fd EXCEPT ![e] = 1]
    /\ UNCHANGED <<nodes, bundles, entry, temp, job, dir, index>>

\* The rename fails when another thread has taken the temporary file away, and with it
\* the export.
Rename(e) ==
    /\ pc[e] = "rename"
    /\ \/ /\ temp[Temp(e)] # NoFile
          /\ entry' = [entry EXCEPT ![Path(e)] = temp[Temp(e)]]
          /\ temp' = [temp EXCEPT ![Temp(e)] = NoFile]
          /\ index' = [index EXCEPT ![e] = @ + 1]
          /\ pc' = [pc EXCEPT ![e] = "next"]
       \/ /\ temp[Temp(e)] = NoFile
          /\ pc' = [pc EXCEPT ![e] = "idle"]
          /\ UNCHANGED <<entry, temp, index>>
    /\ UNCHANGED <<nodes, bundles, content, job, dir, fd, broken>>

\* The bundle is put under the digest of its own bytes, so a repeated put is the same;
\* the descriptors follow.
PutBundle(e) ==
    /\ pc[e] = "bundle"
    /\ bundles' = bundles \cup {job[e]}
    /\ dir' = [dir EXCEPT ![e] = "descriptors"]
    /\ index' = [index EXCEPT ![e] = 1]
    /\ pc' = [pc EXCEPT ![e] = "next"]
    /\ UNCHANGED <<nodes, entry, temp, content, job, fd, broken>>

\* The inodes threads were writing when a write failed or a process ended.
LeftBy(es) == {fd[e] : e \in {x \in es : pc[x] = "write"}}

\* A file or a store cannot be written, or a file not be renamed: the export fails, its
\* files stay as they are.
Fail(e) ==
    /\ pc[e] \in {"open", "write", "rename", "bundle"}
    /\ pc' = [pc EXCEPT ![e] = "idle"]
    /\ broken' = broken \cup LeftBy({e})
    /\ UNCHANGED <<nodes, bundles, entry, temp, content, job, dir, index, fd>>

\* A process ends and is started again, in a container with the same process id: the
\* temporary files stay.
Crash(p) ==
    /\ pc' = [e \in Exporters |-> IF ProcessOf[e] = p THEN "idle" ELSE pc[e]]
    /\ broken' = broken \cup LeftBy({e \in Exporters : ProcessOf[e] = p})
    /\ UNCHANGED <<nodes, bundles, entry, temp, content, job, dir, index, fd>>

Next ==
    \/ RecordNode
    \/ \E e \in Exporters :
          Assemble(e) \/ NextFile(e) \/ Open(e) \/ Write(e) \/ Rename(e) \/ PutBundle(e) \/ Fail(e)
    \/ \E p \in Processes : Crash(p)

Spec == Init /\ [][Next]_vars

-----------------------------------------------------------------------------
(* Properties *)

\* A bundle in the protocol object store has all of its evidence: every node its receipt
\* refers to is on record and has a blob in the store, whatever threads interleave, fail
\* or crash (the order of steps 2, 3 and 5 of assemble_bundle).  So a receipt with a gap,
\* whose node nobody records, never has a bundle.
BundleIsBacked ==
    \A r \in bundles : \A i \in DOMAIN Refs[r] :
        Refs[r][i] \in nodes /\ entry[<<"blobs", Refs[r][i]>>] # NoFile

-----------------------------------------------------------------------------
(* What the documents say and the code does not do *)

\* evidence.rs: "Writes are atomic (temp file + rename)", under a "unique temp name".  So
\* what is found under the name of a blob or a descriptor would be whole.  But a thread
\* renames what another of its process, which shares the name, has just truncated
\* (atomic_write), and if that one then fails or the process ends, the blob stays half
\* written: put takes one that exists for a whole one.
WritesAreAtomic == \A p \in Paths : entry[p] # NoFile => content[entry[p]] = "full"

-----------------------------------------------------------------------------
(* How far it goes: who leaves a file half written *)

\* A blob or descriptor that is not whole is being written by a live thread, or the
\* thread that was writing it failed or crashed.  In the second case it stays so.
PartialHasWriter ==
    \A p \in Paths : entry[p] # NoFile /\ content[entry[p]] = "part" =>
        entry[p] \in broken \/ \E e \in Exporters : pc[e] = "write" /\ fd[e] = entry[p]

\* A file is reached under its own name or under a temporary one.
Named(i) ==
    i # NoFile /\ ( \/ \E p \in Paths : entry[p] = i
                    \/ \E x \in Processes \X Paths : temp[x] = i )

\* An inode that is not whole has a writer, or lost it.
Accounted(i) ==
    content[i] = "part" => i \in broken \/ \E e \in Exporters : pc[e] = "write" /\ fd[e] = i

\* So does a temporary file: a rename may put it in place at any moment.
NamedIsAccounted == \A i \in Inodes : Named(i) => Accounted(i)

=============================================================================
