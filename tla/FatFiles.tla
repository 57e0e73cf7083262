------------------------------- MODULE FatFiles -------------------------------
(***************************************************************************)
(* Files on a FAT volume: the file functions of fat_driver.c (1096-1445)   *)
(* with the functions of fat_driver.c and fat_write.c that find, extend,   *)
(* truncate and delete the cluster chains of files.                        *)
(*                                                                         *)
(* One caller.  A step reads one buffer of a chain or takes one cluster;   *)
(* task is the call that is under way.  The files are in the root          *)
(* directory of a FAT12 or FAT16 volume, which is not a chain; positions   *)
(* are counted in units, ClusterBytes of them in a cluster.                *)
(***************************************************************************)
EXTENDS FatChain

CONSTANTS File,           \* names
          Slots,          \* open files (MAX_FILES, 16)
          SeekSize,       \* DIR_CHAIN_SIZE, 32
          ClusterBytes,   \* units of a position in one cluster
          MaxSize,        \* bound on the size of a file
          ByPath,         \* are names given with a path ("/a")?
          Media           \* volumes that can be mounted

ASSUME FilesAssumption ==
  /\ Slots \in Nat \ {0}
  /\ SeekSize \in Nat /\ SeekSize >= 2
  /\ ClusterBytes \in Nat \ {0}
  /\ MaxSize \in Nat
  /\ ByPath \in BOOLEAN

VARIABLES dirent,         \* directory entry of each file: start, size
          handle,         \* fsRec and fsDir
          task,           \* the call under way
          touched,        \* clusters it has used: <<cluster of the file, number>>
          ranOut          \* history: a write found no free cluster

vars == <<fatVars, dirent, handle, task, touched, ranOut>>

Slot == 1 .. Slots
Seek == 0 .. SeekSize - 1
Size == 0 .. MaxSize
Position == Nat                     \* number of a cluster in its file, or of clusters

NoFile == [start |-> 0, size |-> 0]
Dirent == [start : Cluster \union {0}, size : Size]

SeekRecord == [cluster : FatIndex, index : Position]
Closed == [open |-> FALSE]
OpenFile == [open : {TRUE}, file : File, size : Size, sizeChange : BOOLEAN,
             chain : [Seek -> SeekRecord], lastCluster : FatIndex]

Idle == [op |-> "none"]
TableTask == [op : {"table"}, slot : Slot, cluster : FatIndex, index : Position]
GrowTask == [op : {"grow"}, slot : Slot, pos : Size, size : Size, need : Position,
             cur : Cluster]
IOTask == [op : {"io"}, slot : Slot, end : Size, write : BOOLEAN, grown : BOOLEAN,
           cluster : FatIndex, index : Position, skip : Position, left : Position,
           start : BOOLEAN]
DeleteTask == [op : {"delete"}, file : File, cluster : FatIndex, truncate : {0} \union Slot]
Task == {Idle} \union TableTask \union GrowTask \union IOTask \union DeleteTask

TypeOK ==
  /\ FatTypeOK
  /\ dirent \in [File -> Dirent]
  /\ handle \in [Slot -> OpenFile \union {Closed}]
  /\ task \in Task
  /\ touched \subseteq (Position \X FatIndex)
  /\ ranOut \in BOOLEAN

Exists(f) == dirent[f].start # 0

(* Clusters that n units take.                                             *)
Clusters(n) == (n + ClusterBytes - 1) \div ClusterBytes

(* fs_findFileSlotByName compares the name of the open file with the name  *)
(* that was given, path and all.                                           *)
FindByName(f) == {s \in Slot : ~ ByPath /\ handle[s].open /\ handle[s].file = f}

Busy(f) == FindByName(f) # {}

FreeSlot(s) == ~ handle[s].open /\ \A t \in Slot : t < s => handle[t].open

(* The slot after fat_setFatDir; the table of fat_setFatDirChain follows.  *)
NewHandle(f, start, size) ==
  [open |-> TRUE, file |-> f, size |-> size, sizeChange |-> FALSE,
   chain |-> [j \in Seek |-> [cluster |-> start, index |-> 0]], lastCluster |-> start]

ReadTable(s, start) == task' = [op |-> "table", slot |-> s, cluster |-> start, index |-> 0]
-----------------------------------------------------------------------------
(* fs_open of a file that exists, without O_TRUNC.                         *)
Open(s, f) ==
  /\ task = Idle /\ FreeSlot(s)
  /\ ~ Busy(f) /\ Exists(f)
  /\ handle' = [handle EXCEPT ![s] = NewHandle(f, dirent[f].start, dirent[f].size)]
  /\ ReadTable(s, dirent[f].start)
  /\ UNCHANGED <<fatVars, dirent, touched, ranOut>>

(* fs_open with O_TRUNC: fat_truncateFile deletes the chain first.         *)
OpenTruncated(s, f) ==
  /\ task = Idle /\ FreeSlot(s)
  /\ ~ Busy(f) /\ Exists(f)
  /\ task' = [op |-> "delete", file |-> f, cluster |-> dirent[f].start, truncate |-> s]
  /\ UNCHANGED <<fatVars, dirent, handle, touched, ranOut>>

(* fs_open with O_CREAT of a file that does not exist: fat_modifyDirSpace  *)
(* takes one cluster for it.                                               *)
Create(s, f) ==
  /\ task = Idle /\ FreeSlot(s)
  /\ ~ Busy(f) /\ ~ Exists(f)
  /\ \E c \in Cluster :
       /\ GetFreeCluster(0, c)
       /\ dirent' = [dirent EXCEPT ![f] = [start |-> c, size |-> 0]]
       /\ handle' = [handle EXCEPT ![s] = NewHandle(f, c, 0)]
       /\ ReadTable(s, c)
  /\ UNCHANGED <<chainVars, touched, ranOut>>

(* fs_close writes the size to the directory entry (fat_updateSfn), which  *)
(* may be a deleted one if names come with a path.                         *)
Close(s) ==
  /\ task = Idle /\ handle[s].open
  /\ dirent' = IF handle[s].sizeChange
               THEN [dirent EXCEPT ![handle[s].file].size = handle[s].size] ELSE dirent
  /\ handle' = [handle EXCEPT ![s] = Closed]
  /\ UNCHANGED <<fatVars, task, touched, ranOut>>

(* fs_remove: the directory entry goes first, then the chain.              *)
Remove(f) ==
  /\ task = Idle
  /\ ~ Busy(f) /\ Exists(f)
  /\ task' = [op |-> "delete", file |-> f, cluster |-> dirent[f].start, truncate |-> 0]
  /\ dirent' = [dirent EXCEPT ![f] = NoFile]
  /\ UNCHANGED <<fatVars, handle, touched, ranOut>>
-----------------------------------------------------------------------------
(* Cluster of the file in which entry j of the seek table points: the      *)
(* first one that ends at or after j blocks of 1/SeekSize of the size.     *)
SeekIndex(size, j) ==
  LET end == j * (size \div SeekSize)
  IN  IF end = 0 THEN 0 ELSE Clusters(end) - 1

(* fat_setFatDirChain, one buffer of the chain.  Buffers after the first   *)
(* one begin with the last cluster of the buffer before.                   *)
SetFatDirChain ==
  /\ task.op = "table"
  /\ LET s == task.slot
         got == GetClusterChain(task.cluster, TRUE)
         n == ChainSize(got.result)
         At(i) == got.buf[i - task.index + 1]
         InBuffer(i) == i >= task.index /\ i < task.index + n
         i0(j) == SeekIndex(handle[s].size, j)
     IN  /\ Loaded(got, task.cluster)
         /\ handle' = [handle EXCEPT ![s].chain = [j \in Seek |->
                         IF j > 0 /\ InBuffer(i0(j))
                         THEN [cluster |-> At(i0(j)), index |-> i0(j)] ELSE @[j]],
                         ![s].lastCluster = got.buf[n]]
         /\ task' = IF got.result # 0 THEN Idle
                    ELSE [task EXCEPT !.cluster = got.buf[BufSize],
                                      !.index = @ + BufSize - 1]
  /\ UNCHANGED <<fat, stackVars, dirent, touched, ranOut>>

(* fat_getClusterAtFilePos: the entry of the seek table before pos.        *)
SeekEntry(h, pos) ==
  LET S == {j \in 0 .. SeekSize - 2 : /\ h.chain[j].index * ClusterBytes <= pos
                                      /\ h.chain[j + 1].index * ClusterBytes > pos}
  IN  IF S = {} THEN h.chain[SeekSize - 1] ELSE h.chain[CHOOSE j \in S : \A k \in S : j <= k]

(* The loop over the chain for n units at pos, about to read its first     *)
(* buffer.                                                                 *)
StartIO(s, pos, n, write, grown) ==
  LET e == SeekEntry(handle[s], pos)
  IN  [op |-> "io", slot |-> s, end |-> pos + n, write |-> write, grown |-> grown,
       cluster |-> e.cluster, index |-> pos \div ClusterBytes,
       skip |-> (pos \div ClusterBytes) - e.index,
       left |-> Clusters(pos + n) - (pos \div ClusterBytes), start |-> TRUE]

(* fs_lseek and fs_read: no more than the file has.                        *)
Read(s) ==
  /\ task = Idle /\ handle[s].open
  /\ \E pos \in 0 .. handle[s].size : \E n \in 1 .. handle[s].size - pos :
       task' = StartIO(s, pos, n, FALSE, FALSE)
  /\ UNCHANGED <<fatVars, dirent, handle, touched, ranOut>>

(* fs_lseek and fs_write: fat_writeFile sees first if the clusters that    *)
(* the size takes (at least one) are enough.                               *)
Write(s) ==
  /\ task = Idle /\ handle[s].open
  /\ \E pos \in 0 .. handle[s].size : \E n \in 1 .. MaxSize - pos :
       LET have == IF handle[s].size = 0 THEN 1 ELSE Clusters(handle[s].size)
           need == Clusters(pos + n) - have
       IN  task' = IF need <= 0 THEN StartIO(s, pos, n, TRUE, FALSE)
                   ELSE [op |-> "grow", slot |-> s, pos |-> pos, size |-> n,
                         need |-> need, cur |-> handle[s].lastCluster]
  /\ UNCHANGED <<fatVars, dirent, handle, touched, ranOut>>

(* fat_writeFile takes one more cluster; with the last one the slot gets   *)
(* its new lastCluster and the chain in cbuf is forgotten.                 *)
Grow ==
  /\ task.op = "grow"
  /\ \E c \in Cluster :
       /\ GetFreeCluster(task.cur, c)
       /\ \/ /\ task.need > 1
             /\ task' = [task EXCEPT !.need = @ - 1, !.cur = c]
             /\ UNCHANGED <<handle, chainVars>>
          \/ /\ task.need = 1
             /\ handle' = [handle EXCEPT ![task.slot].lastCluster = c]
             /\ task' = StartIO(task.slot, task.pos, task.size, TRUE, TRUE)
             /\ Invalidated
  /\ UNCHANGED <<dirent, touched, ranOut>>

(* No cluster is left: the call fails, the slot keeps its lastCluster.     *)
GrowFails ==
  /\ task.op = "grow"
  /\ NoFreeCluster
  /\ task' = Idle
  /\ ranOut' = TRUE
  /\ UNCHANGED <<fatVars, dirent, handle, touched>>

(* The end of fs_write: the file may be longer, and a longer chain has its *)
(* seek table read again.                                                  *)
EndIO ==
  LET s == task.slot
      longer == task.write /\ task.end > handle[s].size
  IN  /\ handle' = IF longer THEN [handle EXCEPT ![s].size = task.end, ![s].sizeChange = TRUE]
                   ELSE handle
      /\ touched' = {}
      /\ IF longer /\ task.grown THEN ReadTable(s, handle[s].chain[0].cluster) ELSE task' = Idle

(* Mutant: the clusters behind the end of the transfer are used too.       *)
UsedToTheEnd(n) == IF n > task.skip THEN n - task.skip ELSE 0

(* How many of the n clusters in cbuf the transfer uses.                   *)
Used(n) ==
  LET here == IF n > task.skip THEN n - task.skip ELSE 0
  IN  IF here < task.left THEN here ELSE task.left

(* fat_readFile, fat_writeFile: one buffer of the chain.  It is passed     *)
(* over if the position is beyond it, else its clusters are used.          *)
Transfer ==
  /\ task.op = "io" /\ task.left > 0
  /\ LET got == GetClusterChain(task.cluster, task.start)
         n == ChainSize(got.result)
         next == IF got.result = 0 THEN got.buf[BufSize] ELSE task.cluster
         skipped == task.skip >= BufSize
         used == Used(n)
     IN  /\ Loaded(got, task.cluster)
         /\ \/ /\ skipped
               /\ task' = [task EXCEPT !.cluster = next, !.start = FALSE, !.skip = @ - BufSize]
               /\ UNCHANGED touched
            \/ /\ ~ skipped
               /\ touched' = touched \union
                    {<<task.index + i, got.buf[task.skip + 1 + i]>> : i \in 0 .. used - 1}
               /\ task' = [task EXCEPT !.cluster = next, !.start = FALSE, !.skip = 0,
                             !.index = @ + used,
                             !.left = IF got.result = 0 THEN @ - used ELSE 0]
  /\ UNCHANGED <<fat, stackVars, dirent, handle, ranOut>>

TransferDone ==
  /\ task.op = "io" /\ task.left = 0
  /\ EndIO
  /\ UNCHANGED <<fatVars, dirent, ranOut>>

(* fat_deleteClusterChain, one buffer of the chain; at its end             *)
(* fat_truncateFile makes the first cluster a chain of its own again.      *)
DeleteClusterChain ==
  /\ task.op = "delete"
  /\ LET got == GetClusterChain(task.cluster, TRUE)
         f == task.file
         s == task.truncate
         gone == Deleted(fat, got)
     IN  /\ cbuf' = got.buf /\ lastResult' = got.result /\ lastChain' = 0
         /\ \/ /\ ChainSize(got.result) = BufSize
               /\ fat' = gone
               /\ task' = [task EXCEPT !.cluster = got.buf[BufSize]]
               /\ UNCHANGED <<dirent, handle>>
            \/ /\ ChainSize(got.result) # BufSize /\ s = 0
               /\ fat' = gone
               /\ task' = Idle
               /\ UNCHANGED <<dirent, handle>>
            \/ /\ ChainSize(got.result) # BufSize /\ s # 0
               /\ fat' = [gone EXCEPT ![dirent[f].start] = EOF]
               /\ dirent' = [dirent EXCEPT ![f].size = 0]
               /\ handle' = [handle EXCEPT ![s] = NewHandle(f, dirent[f].start, 0)]
               /\ ReadTable(s, dirent[f].start)
  /\ UNCHANGED <<stackVars, touched, ranOut>>

(* Another medium is mounted: fat_initDriver forgets the chain in cbuf,    *)
(* and nothing else; files may be open.                                    *)
Remount ==
  /\ task = Idle
  /\ \E m \in Media : fat' = m.fat /\ dirent' = m.dirent
  /\ lastChain' = NoChain /\ lastResult' = -1
  /\ UNCHANGED <<cbuf, stackVars, handle, task, touched, ranOut>>

(* The user closes the files before the medium is changed: an assumption   *)
(* about the surroundings, the code does not look.                         *)
ChangeMedium == Remount /\ \A s \in Slot : ~ handle[s].open

Call == \/ \E s \in Slot, f \in File : Open(s, f) \/ OpenTruncated(s, f) \/ Create(s, f)
        \/ \E s \in Slot : Close(s) \/ Read(s) \/ Write(s)
        \/ \E f \in File : Remove(f)

Work == SetFatDirChain \/ Grow \/ GrowFails \/ Transfer \/ TransferDone \/ DeleteClusterChain

Next == Call \/ Work \/ ChangeMedium

Init ==
  /\ \E m \in Media : fat = m.fat /\ dirent = m.dirent
  /\ cbuf = [i \in 1 .. BufSize |-> 0]
  /\ lastChain = NoChain /\ lastResult = -1
  /\ clStack = {} /\ clStackLast = 0
  /\ handle = [s \in Slot |-> Closed]
  /\ task = Idle
  /\ touched = {}
  /\ ranOut = FALSE

(* A call that has started goes on.                                        *)
Spec == Init /\ [][Next]_vars /\ WF_vars(Work)
-----------------------------------------------------------------------------
(* The chain of file f, as the table has it.                               *)
FileChain(f) == ChainOf(dirent[f].start)

(* Two files never share a cluster, and no chain leads into free clusters: *)
(* what is written to one file stays out of the others.                    *)
NoCrossLinks ==
  /\ \A f, g \in File : f # g /\ Exists(f) /\ Exists(g)
                          => ClustersOf(dirent[f].start) \intersect ClustersOf(dirent[g].start) = {}
  /\ \A f \in File : Exists(f) /\ task.op # "delete" => 0 \notin ClustersOf(dirent[f].start)

(* Clusters are not lost: when no call is under way every cluster that is  *)
(* in use belongs to a file.  Only a write that ran out of space may leave *)
(* clusters behind: the slot keeps the end of the chain from before.       *)
InUse == {c \in Cluster : fat[c] # 0}
NoLostClusters ==
  task = Idle /\ ~ ranOut
    => InUse = UNION {ClustersOf(dirent[f].start) : f \in {g \in File : Exists(g)}}

(* The copy of the chain that an open file keeps is right: its seek table  *)
(* and its last cluster are those of the table, however the file was       *)
(* extended, and the size says how many clusters there are.                *)
SeekTableRight ==
  task = Idle /\ ~ ranOut => \A s \in Slot : handle[s].open =>
    LET h == handle[s]
        w == FileChain(h.file)
    IN  /\ h.lastCluster = w[Len(w)]
        /\ Len(w) = IF h.size = 0 THEN 1 ELSE Clusters(h.size)
        /\ \A j \in Seek : h.chain[j].cluster = w[h.chain[j].index + 1]

(* "file is opened - can't delete the file" (fat_driver.c:1403): the entry *)
(* and the chain of an open file stay as long as it is open.  This holds   *)
(* for a name that fs_findFileSlotByName can compare, and fails with       *)
(* ByPath.                                                                 *)
OpenFilesExist == \A s \in Slot : handle[s].open => Exists(handle[s].file)

(* A read or write at a position uses the cluster that holds the position. *)
UsesItsClusters ==
  task.op = "io" => \A t \in touched :
    LET w == FileChain(handle[task.slot].file)
    IN  t[1] < Len(w) /\ t[2] = w[t[1] + 1]

(* Every call ends: no loop over a chain goes on for ever.                 *)
CallsEnd == task # Idle ~> task = Idle
=============================================================================
