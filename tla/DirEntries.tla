------------------------------ MODULE DirEntries ------------------------------
(***************************************************************************)
(* The entries of directories (fat_write.c, 1050-1805): a name takes one   *)
(* or more entries of its long name and the entry of its short name behind *)
(* them.  fat_fillDirentryInfo looks for a name and collects the places of *)
(* its entries in deSec, deOfs and deIdx, three static variables that the  *)
(* removal of the name uses.                                               *)
(*                                                                         *)
(* One caller, calls are atomic.  The root directory of a FAT12 or FAT16   *)
(* volume, of fixed size, and directories in it that are chains of         *)
(* clusters.  A directory is a sequence of as many entries as it has room. *)
(***************************************************************************)
EXTENDS Integers, Sequences, FiniteSets

CONSTANTS Root,           \* the root directory
          Name,           \* names of files and directories
          DirName,        \* those under which there may be a directory
          Parts,          \* entries of the long name of each name
          RootSlots,      \* entries of the root directory
          ClusterSlots,   \* entries of one cluster
          MaxClusters,    \* bound on the clusters of a directory
          MaxRecord,      \* DIRENTRY_COUNT, 1024
          DeStackSize,    \* MAX_DE_STACK, 21
          Labelled        \* does the root directory begin with a volume label?

ASSUME DirAssumption ==
  /\ DirName \subseteq Name /\ Root \notin Name
  /\ Parts \in [Name -> Nat \ {0}]
  /\ RootSlots \in Nat \ {0} /\ MaxClusters \in Nat \ {0}
  /\ DeStackSize \in Nat /\ \A n \in Name : Parts[n] + 1 <= DeStackSize
  /\ ClusterSlots \in Nat /\ ClusterSlots >= DeStackSize    \* clusters of 1 KB or more
  /\ MaxRecord \in Nat
  /\ MaxRecord >= RootSlots /\ MaxRecord >= MaxClusters * ClusterSlots
  /\ Labelled \in BOOLEAN

VARIABLES slots,          \* the entries of each directory
          deStack,        \* deSec, deOfs: places of entries; its length is deIdx
          last            \* history: the last call and its answer

vars == <<slots, deStack, last>>

Kind == {"file", "dir"}
Dir  == {Root} \union DirName

End     == [type |-> "end"]             \* never used, ends the directory
Deleted == [type |-> "deleted"]
Label   == [type |-> "label"]
Dot     == [type |-> "dot"]             \* "." or ".."
Lfn(n, p) == [type |-> "lfn", name |-> n, part |-> p]
Sfn(n, k) == [type |-> "sfn", name |-> n, kind |-> k]

Entry == {End, Deleted, Label, Dot}
         \union {Lfn(n, p) : n \in Name, p \in 1 .. DeStackSize - 1}
         \union {Sfn(n, k) : n \in Name, k \in Kind}

Place == Dir \X (1 .. MaxRecord)

TypeOK ==
  /\ \A d \in Dir : /\ slots[d] \in Seq(Entry)
                    /\ \/ d = Root /\ Len(slots[d]) = RootSlots
                       \/ d # Root /\ Len(slots[d]) \in {ClusterSlots * m : m \in 0 .. MaxClusters}
  /\ deStack \in Seq(Place)

IsThere(d) == slots[d] # <<>>

First(S) == CHOOSE i \in S : \A j \in S : i <= j
Last(S)  == CHOOSE i \in S : \A j \in S : j <= i
-----------------------------------------------------------------------------
(* The records that fat_fillDirentryInfo makes of a directory: the first   *)
(* entry that ends it is one of them.                                      *)
RecordCount(s) ==
  LET E == {i \in DOMAIN s : s[i] = End}
      n == IF E = {} THEN Len(s) ELSE First(E)
  IN  IF n < MaxRecord THEN n ELSE MaxRecord

Empty(e) == e \in {End, Deleted}

(* deSec and deOfs after the scan of the first m entries: those of long    *)
(* names since the last entry of another kind (the first entry that was    *)
(* never used ends the scan).  If there is none, what the scan before left *)
(* stays in front.                                                         *)
Collected(stack, d, m) ==
  LET R == {i \in 1 .. m : slots[d][i].type \notin {"lfn", "end"}}
      from == IF R = {} THEN 1 ELSE Last(R) + 1
      to == IF m > 0 /\ slots[d][m] = End THEN m - 1 ELSE m
  IN  (IF R = {} THEN stack ELSE <<>>) \o [i \in 1 .. to - from + 1 |-> <<d, from + i - 1>>]

(* Mutant: an entry of the other kind is not the one.                      *)
FillDirentryInfoByKind(stack, d, n, k) ==
  LET H == {i \in 1 .. RecordCount(slots[d]) : slots[d][i] = Sfn(n, k)}
  IN  IF H = {}
      THEN [at |-> 0, kind |-> k, stack |-> Collected(stack, d, RecordCount(slots[d]))]
      ELSE [at |-> First(H), kind |-> k,
            stack |-> Append(Collected(stack, d, First(H) - 1), <<d, First(H)>>)]

(* fat_fillDirentryInfo for name n of kind k: where its short name is, 0   *)
(* if nowhere, and the places.  An entry of the other kind is an error.    *)
FillDirentryInfo(stack, d, n, k) ==
  LET H == {i \in 1 .. RecordCount(slots[d]) : \E x \in Kind : slots[d][i] = Sfn(n, x)}
      before == Collected(stack, d, First(H) - 1)
  IN  IF H = {}
      THEN [at |-> 0, kind |-> k, stack |-> Collected(stack, d, RecordCount(slots[d]))]
      ELSE IF slots[d][First(H)].kind # k
      THEN [at |-> First(H), kind |-> slots[d][First(H)].kind, stack |-> before]
      ELSE [at |-> First(H), kind |-> k, stack |-> Append(before, <<d, First(H)>>)]

(* Runs of empty records with a used one behind them.                      *)
Runs(s) == LET N == RecordCount(s)
           IN  {r \in (1 .. N) \X (1 .. N) :
                  /\ r[1] <= r[2] /\ r[2] < N
                  /\ \A i \in r[1] .. r[2] : Empty(s[i])
                  /\ ~ Empty(s[r[2] + 1])
                  /\ r[1] > 1 => ~ Empty(s[r[1] - 1])}

(* Mutants: a loose run is filled one entry too late; the last record is   *)
(* never used.                                                             *)
GetDirentryStoreOffsetLate(s, size) ==
  LET tight == {r[1] : r \in {q \in Runs(s) : q[2] - q[1] + 1 = size}}
      loose == {r[2] - size + 2 : r \in {q \in Runs(s) : q[2] - q[1] + 1 > size}}
      n == RecordCount(s)
  IN  IF tight # {} THEN First(tight)
      ELSE IF loose # {} THEN First(loose)
      ELSE IF Empty(s[n]) THEN n ELSE n + 1

GetDirentryStoreOffsetBehind(s, size) == RecordCount(s) + 1

(* getDirentryStoreOffset: a run that fits exactly, the end of a longer    *)
(* one, or the end of the directory.                                       *)
GetDirentryStoreOffset(s, size) ==
  LET tight == {r[1] : r \in {q \in Runs(s) : q[2] - q[1] + 1 = size}}
      loose == {r[2] - size + 1 : r \in {q \in Runs(s) : q[2] - q[1] + 1 > size}}
      n == RecordCount(s)
  IN  IF tight # {} THEN First(tight)
      ELSE IF loose # {} THEN First(loose)
      ELSE IF Empty(s[n]) THEN n ELSE n + 1

(* The entries of a name, the last part of the long name first.            *)
CreateDirentry(n, k) == [p \in 1 .. Parts[n] |-> Lfn(n, Parts[n] + 1 - p)] \o <<Sfn(n, k)>>

(* saveDirentry                                                            *)
Saved(s, at, buf) ==
  [i \in DOMAIN s |-> IF i >= at /\ i < at + Len(buf) THEN buf[i - at + 1] ELSE s[i]]

(* A cluster of entries that were never used.                              *)
NewCluster == [i \in 1 .. ClusterSlots |-> End]

(* Mutant: the root directory is enlarged too.                             *)
EnlargedAlways(d, needed) ==
  CASE needed <= Len(slots[d]) -> {slots[d]}
    [] needed > Len(slots[d]) -> {slots[d] \o NewCluster}

(* enlargeDirentryClusterSpace: what the directory can become to hold      *)
(* needed entries; nothing if it cannot.                                   *)
Enlarged(d, needed) ==
  CASE needed <= Len(slots[d]) -> {slots[d]}
    [] needed > Len(slots[d]) /\ d = Root -> {}
    [] needed > Len(slots[d]) /\ d # Root ->
         IF Len(slots[d]) < MaxClusters * ClusterSlots THEN {slots[d] \o NewCluster} ELSE {}

(* createDirectorySpace                                                    *)
NewDirectory == [i \in 1 .. ClusterSlots |-> IF i <= 2 THEN Dot ELSE End]

(* Mutant: the entry of the short name is not marked.                      *)
MarkedLongOnly(stack) ==
  [d \in Dir |-> [i \in DOMAIN slots[d] |->
     IF slots[d][i].type = "lfn" /\ \E j \in DOMAIN stack : stack[j] = <<d, i>>
     THEN Deleted ELSE slots[d][i]]]

(* fat_clearDirSpace marks the entries at the collected places.            *)
Marked(stack) ==
  [d \in Dir |-> [i \in DOMAIN slots[d] |->
     IF \E j \in DOMAIN stack : stack[j] = <<d, i>> THEN Deleted ELSE slots[d][i]]]
-----------------------------------------------------------------------------
Answer(op, d, n, k, a) ==
  last' = [op |-> op, dir |-> d, name |-> n, kind |-> k, answer |-> a]

(* fs_open without O_CREAT: fat_createFile with escapeNotExist.            *)
Look(d, n) ==
  /\ IsThere(d)
  /\ LET f == FillDirentryInfo(deStack, d, n, "file")
     IN  /\ deStack' = f.stack
         /\ Answer("look", d, n, "file", IF f.at = 0 THEN "absent"
                                         ELSE IF f.kind = "file" THEN "found" ELSE "other kind")
  /\ UNCHANGED slots

(* fs_open with O_CREAT, fs_mkdir: fat_modifyDirSpace.  The directory is   *)
(* enlarged before the cluster of the new name is taken; either may fail.  *)
(* Directories are made in the root directory only.                        *)
Make(d, n, k) ==
  /\ IsThere(d)
  /\ k = "dir" => d = Root /\ n \in DirName
  /\ LET f == FillDirentryInfo(deStack, d, n, k)
         size == Parts[n] + 1
         at == GetDirentryStoreOffset(slots[d], size)
     IN  /\ deStack' = f.stack
         /\ \/ /\ f.at # 0
               /\ Answer("make", d, n, k, IF f.kind = k THEN "found" ELSE "other kind")
               /\ UNCHANGED slots
            \/ /\ f.at = 0
               /\ Answer("make", d, n, k, "no space")
               /\ slots' \in {slots} \union {[slots EXCEPT ![d] = s] : s \in Enlarged(d, at - 1 + size)}
            \/ /\ f.at = 0
               /\ Answer("make", d, n, k, "made")
               /\ \E s \in Enlarged(d, at - 1 + size) :
                    slots' = [e \in Dir |-> IF e = d THEN Saved(s, at, CreateDirentry(n, k))
                                            ELSE IF k = "dir" /\ e = n THEN NewDirectory
                                            ELSE slots[e]]

(* fs_remove: fat_clearDirSpace for a file.                                *)
Remove(d, n) ==
  /\ IsThere(d)
  /\ LET f == FillDirentryInfo(deStack, d, n, "file")
         found == f.at # 0 /\ f.kind = "file"
     IN  /\ deStack' = f.stack
         /\ slots' = IF found THEN Marked(f.stack) ELSE slots
         /\ Answer("drop", d, n, "file", IF found THEN "dropped" ELSE "absent")

(* checkDirspaceEmpty                                                      *)
DirspaceEmpty(s) == \A i \in 3 .. RecordCount(s) : Empty(s[i])

(* fs_rmdir: the directory is looked for, then it is seen if it is empty,  *)
(* then it is looked for again.                                            *)
RemoveDir(n) ==
  LET f == FillDirentryInfo(deStack, Root, n, "dir")
      found == f.at # 0 /\ f.kind = "dir"
      inner == Collected(f.stack, n, RecordCount(slots[n]))
      again == FillDirentryInfo(inner, Root, n, "dir").stack
  IN  \/ /\ ~ found
         /\ deStack' = f.stack
         /\ Answer("drop", Root, n, "dir", "absent")
         /\ UNCHANGED slots
      \/ /\ found /\ ~ DirspaceEmpty(slots[n])
         /\ deStack' = inner
         /\ Answer("drop", Root, n, "dir", "not empty")
         /\ UNCHANGED slots
      \/ /\ found /\ DirspaceEmpty(slots[n])
         /\ deStack' = again
         /\ Answer("drop", Root, n, "dir", "dropped")
         /\ slots' = [Marked(again) EXCEPT ![n] = <<>>]

Init ==
  /\ slots = [d \in Dir |-> IF d # Root THEN <<>>
                            ELSE [i \in 1 .. RootSlots |-> IF Labelled /\ i = 1 THEN Label ELSE End]]
  /\ deStack = <<>>
  /\ last = [op |-> "none"]

Next == \/ \E d \in Dir, n \in Name : Look(d, n) \/ Remove(d, n) \/ \E k \in Kind : Make(d, n, k)
        \/ \E n \in DirName : RemoveDir(n)

Spec == Init /\ [][Next]_vars
-----------------------------------------------------------------------------
(* Every short name has all the entries of its long name in front of it,   *)
(* and no entry of a long name is left over: no name was written over      *)
(* another, none was removed in part.                                      *)
EntriesWhole ==
  \A d \in Dir : \A i \in DOMAIN slots[d] :
    /\ slots[d][i].type = "sfn" =>
         LET n == slots[d][i].name
         IN  i > Parts[n] /\ \A p \in 1 .. Parts[n] : slots[d][i - p] = Lfn(n, p)
    /\ slots[d][i].type = "lfn" =>
         LET j == i + slots[d][i].part
         IN  j <= Len(slots[d]) /\ \E k \in Kind : slots[d][j] = Sfn(slots[d][i].name, k)

(* A scan stops at the first entry that was never used: nothing that was   *)
(* stored is behind it, however the room was found.                        *)
NothingHidden ==
  \A d \in Dir : \A i, j \in DOMAIN slots[d] : i < j /\ slots[d][i] = End => slots[d][j] = End

(* A name is in a directory once, as a file or as a directory.             *)
NamesOnce ==
  \A d \in Dir : \A i, j \in DOMAIN slots[d] :
    slots[d][i].type = "sfn" /\ slots[d][j].type = "sfn" /\ slots[d][i].name = slots[d][j].name
      => i = j

(* "Enough for long filename of length 260 characters (20*13) and one      *)
(* short filename" (fat_write.c:51): deSec and deOfs never overflow.  They *)
(* do in a root directory that does not begin with a label (~ Labelled).   *)
StackSuffices == Len(deStack) <= DeStackSize

(* The directories hold sets of names for their user: a call answers by    *)
(* what is there and changes the name it was called with, none else.       *)
NamesIn(d) == {<<slots[d][i].name, slots[d][i].kind>> :
                 i \in {j \in 1 .. RecordCount(slots[d]) : slots[d][j].type = "sfn"}}

Names == INSTANCE DirNames WITH names <- [d \in Dir |-> NamesIn(d)]

NamesSpec == Names!Spec
=============================================================================
