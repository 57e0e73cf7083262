-------------------------------- MODULE PowerCut --------------------------------
(***************************************************************************)
(* What is on the medium when the power goes: files over the write-back    *)
(* cache.  A call changes directory entries, the table and data in cached  *)
(* blocks; a block reaches the device when its slot is reused or the cache *)
(* is flushed, in any order.  fs_close, fs_remove flush, fs_open with      *)
(* O_TRUNC and fs_write do not (fat_driver.c 1166-1420, fat_write.c        *)
(* 1702-2000, scache.c 138-199).                                           *)
(*                                                                         *)
(* After a power cut the driver starts again from what the medium has.     *)
(* Sizes and positions are counted in clusters.                            *)
(***************************************************************************)
EXTENDS Integers, Sequences, FiniteSets

CONSTANTS File, 
          LastCluster,    \* clusters are numbered 2 .. LastCluster
          FatBlock,       \* block of the table that has the entry of each cluster
          MaxSize         \* bound on the size of a file

Cluster == 2 .. LastCluster
EOF     == LastCluster + 1
Junk    == "junk"         \* what a cluster held before any file used it

ASSUME PowerCutAssumption ==
  /\ LastCluster \in Nat /\ LastCluster >= 2
  /\ DOMAIN FatBlock = Cluster
  /\ MaxSize \in Nat
  /\ Junk \notin File

VARIABLES
  cached,        \* the volume as the driver sees it, cache included
  medium,        \* the volume as the device has it
  handle,        \* size and sizeChange of each open file
  task,          \* the call that is under way
  kept,          \* history: what each file held when it was closed
  truncated,     \* history: a chain was cut since the last flush
  sound          \* history: no power cut left a medium with damaged chains

vars == <<cached, medium, handle, task, kept, truncated, sound>>

Volume == [dirent : [File -> [start : Cluster \union {0}, size : 0 .. MaxSize]],
           fat    : [Cluster -> {0} \union 2 .. EOF],
           data   : [Cluster -> File \union {Junk}]]

NoFile  == [start |-> 0, size |-> 0]
Closed  == [open |-> FALSE]
Idle    == [op |-> "none"]
Nothing == [known |-> FALSE]
Gone    == [known |-> TRUE, there |-> FALSE, content |-> <<>>]
Held    == [known : {TRUE}, there : BOOLEAN, content : Seq(File \union {Junk})]

TypeOK ==
  /\ cached \in Volume /\ medium \in Volume
  /\ handle \in [File -> {Closed} \union [open : {TRUE}, size : 0 .. MaxSize, changed : BOOLEAN]]
  /\ task \in {Idle} \union [op : {"append"}, file : File, cluster : Cluster]
                     \union [op : {"delete"}, file : File, cluster : Cluster, start : Cluster \union {0}]
                     \union [op : {"flush"}, file : File, held : Held]
  /\ kept \in [File -> {Nothing} \union Held]
  /\ truncated \in BOOLEAN /\ sound \in BOOLEAN
-----------------------------------------------------------------------------
(* The chain at c in the table of volume v, up to its end or to a cluster  *)
(* that is free.                                                           *)
Chain(v, c) ==
  LET walk[n \in 1 .. LastCluster] ==
        IF n = 1 THEN <<c>>
        ELSE LET w == walk[n - 1]
                 next == v.fat[w[Len(w)]]
             IN  IF next \in {0, EOF} THEN w ELSE Append(w, next)
  IN  walk[LastCluster]

Exists(v, f) == v.dirent[f].start # 0
FileChain(v, f) == Chain(v, v.dirent[f].start)
ClustersOf(v, f) == LET w == FileChain(v, f) IN {w[i] : i \in DOMAIN w}

(* The first n clusters of file f of volume v; what a reader finds in f.   *)
Filled(v, f, n) ==
  LET w == FileChain(v, f)
  IN  [known |-> TRUE, there |-> TRUE,
       content |-> [i \in 1 .. (IF n < Len(w) THEN n ELSE Len(w)) |-> v.data[w[i]]]]

Content(v, f) == IF Exists(v, f) THEN Filled(v, f, v.dirent[f].size) ELSE Gone

Free(v) == {c \in Cluster : v.fat[c] = 0}
LastOf(v, f) == LET w == FileChain(v, f) IN w[Len(w)]

(* No two files of v share a cluster; every chain has an end, and not      *)
(* before the size of its file.                                            *)
Disjoint(v) ==
  \A f, g \in File : f # g /\ Exists(v, f) /\ Exists(v, g)
    => ClustersOf(v, f) \intersect ClustersOf(v, g) = {}
Complete(v) ==
  \A f \in File : Exists(v, f) =>
    v.fat[LastOf(v, f)] = EOF /\ v.dirent[f].size <= Len(FileChain(v, f))
-----------------------------------------------------------------------------
(* fs_open without O_TRUNC.                                                *)
Open(f) ==
  /\ task = Idle /\ ~ handle[f].open /\ Exists(cached, f)
  /\ handle' = [handle EXCEPT ![f] = [open |-> TRUE, size |-> cached.dirent[f].size, changed |-> FALSE]]
  /\ UNCHANGED <<cached, medium, task, kept, truncated, sound>>

(* fs_open with O_CREAT: a cluster is taken and the entry stored.          *)
Create(f) ==
  /\ task = Idle /\ ~ handle[f].open /\ ~ Exists(cached, f)
  /\ \E c \in Free(cached) :
       cached' = [cached EXCEPT !.fat[c] = EOF, !.dirent[f] = [start |-> c, size |-> 0]]
  /\ handle' = [handle EXCEPT ![f] = [open |-> TRUE, size |-> 0, changed |-> FALSE]]
  /\ kept' = [kept EXCEPT ![f] = Nothing]
  /\ UNCHANGED <<medium, task, truncated, sound>>

(* fs_open with O_TRUNC: the chain is deleted but for its first cluster.   *)
Truncate(f) ==
  /\ task = Idle /\ ~ handle[f].open /\ Exists(cached, f)
  /\ LET c == cached.dirent[f].start
     IN  task' = [op |-> "delete", file |-> f, cluster |-> c, start |-> c]
  /\ kept' = [kept EXCEPT ![f] = Nothing]
  /\ truncated' = TRUE
  /\ UNCHANGED <<cached, medium, handle, sound>>

(* fs_write within the file.                                               *)
Overwrite(f) ==
  /\ task = Idle /\ handle[f].open
  /\ \E i \in 1 .. handle[f].size :
       cached' = [cached EXCEPT !.data[FileChain(cached, f)[i]] = f]
  /\ kept' = [kept EXCEPT ![f] = Nothing]
  /\ UNCHANGED <<medium, handle, task, truncated, sound>>

Grown(f) == [handle EXCEPT ![f].size = @ + 1, ![f].changed = TRUE]

(* fs_write behind the end: into the first cluster, which every file has,  *)
(* or into the next one, after a cluster was put at the end of the chain   *)
(* (fat_appendClusterChain), the link to it first.                         *)
WriteFirst(f) ==
  /\ task = Idle /\ handle[f].open /\ handle[f].size = 0 /\ MaxSize > 0
  /\ cached' = [cached EXCEPT !.data[cached.dirent[f].start] = f]
  /\ handle' = Grown(f)
  /\ kept' = [kept EXCEPT ![f] = Nothing]
  /\ UNCHANGED <<medium, task, truncated, sound>>

AppendCluster(f) ==
  /\ task = Idle /\ handle[f].open /\ handle[f].size \in 1 .. MaxSize - 1
  /\ \E c \in Free(cached) :
       /\ cached' = [cached EXCEPT !.fat[LastOf(cached, f)] = c]
       /\ task' = [op |-> "append", file |-> f, cluster |-> c]
  /\ kept' = [kept EXCEPT ![f] = Nothing]
  /\ UNCHANGED <<medium, handle, truncated, sound>>

WriteAppended ==
  /\ task.op = "append"
  /\ LET ended == [cached EXCEPT !.fat[task.cluster] = EOF]
     IN  cached' = [ended EXCEPT !.data[FileChain(ended, task.file)[handle[task.file].size + 1]] = task.file]
  /\ handle' = Grown(task.file)
  /\ task' = Idle
  /\ UNCHANGED <<medium, kept, truncated, sound>>

(* Mutant: the size is only in the handle.                                 *)
CloseUnsized(f) ==
  /\ task = Idle /\ handle[f].open
  /\ handle' = [handle EXCEPT ![f] = Closed]
  /\ task' = [op |-> "flush", file |-> f, held |-> Filled(cached, f, handle[f].size)]
  /\ UNCHANGED <<cached, medium, kept, truncated, sound>>

(* fs_close: the size of the file goes into its entry (fat_updateSfn),     *)
(* then everything to the device.                                          *)
Close(f) ==
  /\ task = Idle /\ handle[f].open
  /\ cached' = IF handle[f].changed THEN [cached EXCEPT !.dirent[f].size = handle[f].size] ELSE cached
  /\ handle' = [handle EXCEPT ![f] = Closed]
  /\ task' = [op |-> "flush", file |-> f, held |-> Filled(cached, f, handle[f].size)]
  /\ UNCHANGED <<medium, kept, truncated, sound>>

(* fs_remove: the entry first, then the chain, then everything to the      *)
(* device.                                                                 *)
Remove(f) ==
  /\ task = Idle /\ ~ handle[f].open /\ Exists(cached, f)
  /\ task' = [op |-> "delete", file |-> f, cluster |-> cached.dirent[f].start, start |-> 0]
  /\ cached' = [cached EXCEPT !.dirent[f] = NoFile]
  /\ kept' = [kept EXCEPT ![f] = Nothing]
  /\ UNCHANGED <<medium, handle, truncated, sound>>

(* fat_deleteClusterChain, one entry of the table.                         *)
Deleted == [cached EXCEPT !.fat[task.cluster] = 0]
DeleteLast == cached.fat[task.cluster] \in {0, EOF}

DeleteOne ==
  /\ ~ DeleteLast
  /\ cached' = Deleted
  /\ task' = [task EXCEPT !.cluster = cached.fat[task.cluster]]
  /\ UNCHANGED handle

(* Mutant: nothing is flushed after a chain was deleted.                   *)
DeleteEntryUnflushed ==
  /\ DeleteLast /\ task.start = 0
  /\ cached' = Deleted
  /\ task' = Idle
  /\ UNCHANGED handle

DeleteEntry ==
  /\ DeleteLast /\ task.start = 0
  /\ cached' = Deleted
  /\ task' = [op |-> "flush", file |-> task.file, held |-> Gone]
  /\ UNCHANGED handle

(* fat_truncateFile makes the first cluster a chain of its own again, and  *)
(* fs_open opens the file.                                                 *)
EndTruncate ==
  /\ DeleteLast /\ task.start # 0
  /\ cached' = [Deleted EXCEPT !.fat[task.start] = EOF, !.dirent[task.file].size = 0]
  /\ handle' = [handle EXCEPT ![task.file] = [open |-> TRUE, size |-> 0, changed |-> FALSE]]
  /\ task' = Idle

Delete ==
  /\ task.op = "delete"
  /\ DeleteOne \/ DeleteEntry \/ EndTruncate
  /\ UNCHANGED <<medium, kept, truncated, sound>>

(* scache_flushSectors at the end of fs_close and fs_remove.               *)
Flush ==
  /\ task.op = "flush"
  /\ medium' = cached
  /\ truncated' = FALSE
  /\ kept' = [kept EXCEPT ![task.file] = task.held]
  /\ task' = Idle
  /\ UNCHANGED <<cached, handle, sound>>

(* One block reaches the device: its slot is reused, or a flush is at it.  *)
StoreDirent(f) ==
  /\ medium' = [medium EXCEPT !.dirent[f] = cached.dirent[f]]
  /\ UNCHANGED <<cached, handle, task, kept, truncated, sound>>

StoreFat(b) ==
  /\ medium' = [medium EXCEPT !.fat = [c \in Cluster |->
                  IF FatBlock[c] = b THEN cached.fat[c] ELSE @[c]]]
  /\ UNCHANGED <<cached, handle, task, kept, truncated, sound>>

StoreData(c) ==
  /\ medium' = [medium EXCEPT !.data[c] = cached.data[c]]
  /\ UNCHANGED <<cached, handle, task, kept, truncated, sound>>

(* The power goes and comes back.                                          *)
PowerCut ==
  /\ cached' = medium
  /\ handle' = [f \in File |-> Closed]
  /\ task' = Idle
  /\ truncated' = FALSE
  /\ sound' = (sound /\ Disjoint(medium) /\ Complete(medium))
  /\ UNCHANGED <<medium, kept>>

Call == \/ \E f \in File : \/ Open(f) \/ Create(f) \/ Truncate(f) \/ Remove(f)
                           \/ Overwrite(f) \/ WriteFirst(f) \/ AppendCluster(f) \/ Close(f)
        \/ WriteAppended \/ Delete \/ Flush

(* Bound: no calls after a power cut has left damaged chains.              *)
Next == \/ sound /\ Call
        \/ \E f \in File : StoreDirent(f)
        \/ \E c \in Cluster : StoreFat(FatBlock[c]) \/ StoreData(c)
        \/ PowerCut

Init ==
  /\ cached = [dirent |-> [f \in File |-> NoFile], fat |-> [c \in Cluster |-> 0],
               data |-> [c \in Cluster |-> Junk]]
  /\ medium = cached
  /\ handle = [f \in File |-> Closed]
  /\ task = Idle
  /\ kept = [f \in File |-> Nothing]
  /\ truncated = FALSE /\ sound = TRUE

Spec == Init /\ [][Next]_vars
-----------------------------------------------------------------------------
(* What was closed or removed is on the medium as it was then, whatever    *)
(* other files do and whenever the power goes, until the file itself is    *)
(* used again.                                                             *)
ClosedIsKept ==
  sound => \A f \in File : kept[f] # Nothing => Content(medium, f) = kept[f]

(* Whatever part of the calls the medium has, no two files on it share a   *)
(* cluster - unless a file was truncated: its clusters are given to others *)
(* before the device knows.                                                *)
MediumDisjoint == sound /\ ~ truncated => Disjoint(medium)
=============================================================================
