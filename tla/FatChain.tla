------------------------------- MODULE FatChain -------------------------------
(***************************************************************************)
(* The file allocation table and the state the driver keeps beside it: the *)
(* buffer cbuf with the chain that was read last (fat_driver.c, 134-330)   *)
(* and the stack of free clusters (fat_write.c, 57-625).                   *)
(*                                                                         *)
(* A FAT16 or FAT32 volume, one caller.  The copies of the table are one   *)
(* function: fat_saveClusterRecord writes the same value to each of them.  *)
(***************************************************************************)
EXTENDS Integers, FiniteSets, Sequences

CONSTANTS LastCluster,    \* clusters are numbered 2 .. LastCluster
          BufSize,        \* MAX_DIR_CLUSTER, 512
          StackSize       \* MAX_CLUSTER_STACK, 128

ASSUME FatAssumption ==
  /\ LastCluster \in Nat /\ LastCluster >= 2
  /\ BufSize \in Nat /\ BufSize >= 2
  /\ StackSize \in Nat \ {0}

VARIABLES fat,            \* the table: [FatIndex -> FatValue]
          cbuf,           \* cluster index buffer
          lastChain,      \* lastChainCluster
          lastResult,     \* lastChainResult
          clStack,        \* the free clusters in the stack
          clStackLast     \* "last free cluster of the fat table"

chainVars == <<cbuf, lastChain, lastResult>>
stackVars == <<clStack, clStackLast>>
fatVars   == <<fat, cbuf, lastChain, lastResult, clStack, clStackLast>>

Cluster  == 2 .. LastCluster
FatIndex == 0 .. LastCluster        \* entries 0 and 1 hold end markers
EOF      == LastCluster + 1         \* any end marker, 0xFFF8 and above
FatValue == 0 .. EOF
NoChain  == -1                      \* 0xFFFFFFFF, no chain in cbuf

FatTypeOK ==
  /\ fat \in [FatIndex -> FatValue]
  /\ cbuf \in [1 .. BufSize -> FatIndex]
  /\ lastChain \in FatIndex \union {NoChain}
  /\ lastResult \in -1 .. BufSize
  /\ clStack \subseteq Cluster
  /\ clStackLast \in FatIndex
-----------------------------------------------------------------------------
(* The first n clusters of the chain that starts at c, or all of it.       *)
ChainFrom(f, c, n) ==
  LET walk[i \in 1 .. n] ==
        IF i = 1 THEN <<c>>
        ELSE LET w == walk[i - 1]
             IN  IF f[w[Len(w)]] = EOF THEN w ELSE Append(w, f[w[Len(w)]])
  IN  walk[n]

ChainOf(c) == ChainFrom(fat, c, LastCluster)

ClustersOf(c) == LET w == ChainOf(c) IN {w[i] : i \in DOMAIN w}

(* Mutant: the buffer is reused whatever chain is in it.                   *)
GetClusterChainStale(c, start) ==
  IF lastChain # NoChain THEN [buf |-> cbuf, result |-> lastResult]
  ELSE LET w == ChainFrom(fat, c, BufSize)
       IN  [buf |-> [i \in 1 .. BufSize |-> IF i <= Len(w) THEN w[i] ELSE cbuf[i]],
            result |-> IF Len(w) = BufSize THEN 0 ELSE Len(w)]

(* fat_getClusterChain: cbuf and the result after reading the chain at c,  *)
(* with c itself if start.  The chain that is in the buffer already is not *)
(* read again.  The result is 0 if the buffer is full.                     *)
GetClusterChain(c, start) ==
  IF c = lastChain THEN [buf |-> cbuf, result |-> lastResult]
  ELSE LET w == IF start THEN ChainFrom(fat, c, BufSize)
                         ELSE Tail(ChainFrom(fat, c, BufSize + 1))
       IN  [buf |-> [i \in 1 .. BufSize |-> IF i <= Len(w) THEN w[i] ELSE cbuf[i]],
            result |-> IF Len(w) = BufSize THEN 0 ELSE Len(w)]

(* Mutant: the result is not looked at.                                    *)
ChainSizeFull(result) == BufSize

(* The callers take the result 0 for a full buffer.                        *)
ChainSize(result) == IF result = 0 THEN BufSize ELSE result

(* cbuf after the call got, which was about the chain at c.                *)
Loaded(got, c) ==
  /\ cbuf' = got.buf
  /\ lastChain' = c
  /\ lastResult' = got.result

(* Mutant: the chain in cbuf is still taken for the one on the device.     *)
InvalidatedNot == UNCHANGED chainVars

(* fat_invalidateLastChainResult                                           *)
Invalidated == lastChain' = 0 /\ UNCHANGED <<cbuf, lastResult>>
-----------------------------------------------------------------------------
(* fat_readEmptyClusters scans from the last cluster it found before.      *)
EmptyClusters(from) == {c \in Cluster : c >= from /\ fat[c] = 0}

(* The stack, filled if it is empty.                                       *)
Stack ==
  IF clStack # {} THEN clStack
  ELSE LET E == EmptyClusters(clStackLast)
       IN  {c \in E : Cardinality({d \in E : d < c}) < StackSize}

(* swapClStack: the clusters leave the stack in increasing order.          *)
IsTop(c) == c \in Stack /\ \A d \in Stack : c <= d

(* fat_appendClusterChain, fat_createClusterChain                          *)
Linked(f, cur, c) ==
  IF cur = 0 THEN [f EXCEPT ![c] = EOF] ELSE [f EXCEPT ![cur] = c, ![c] = EOF]

(* Mutant: the cluster stays on the stack.                                 *)
GetFreeClusterKept(cur, c) ==
  /\ IsTop(c)
  /\ clStack' = Stack
  /\ IF clStack # {} THEN UNCHANGED clStackLast
     ELSE clStackLast' \in Stack /\ \A d \in Stack : d <= clStackLast'
  /\ fat' = Linked(fat, cur, c)

(* fat_getFreeCluster takes c off the stack and puts it at the end cur of  *)
(* a chain, or starts a chain with it (cur = 0).                           *)
GetFreeCluster(cur, c) ==
  /\ IsTop(c)
  /\ clStack' = Stack \ {c}
  /\ IF clStack # {} THEN UNCHANGED clStackLast
     ELSE clStackLast' \in Stack /\ \A d \in Stack : d <= clStackLast'
  /\ fat' = Linked(fat, cur, c)

(* It fails if the scan finds nothing from clStackLast on.                 *)
NoFreeCluster == Stack = {}

(* Mutant: the last cluster is left out at the end of the chain too.       *)
DeletedButLast(f, got) ==
  LET D == {got.buf[i] : i \in 1 .. ChainSize(got.result) - 1}
  IN  [c \in FatIndex |-> IF c \in D THEN 0 ELSE f[c]]

(* One round of fat_deleteClusterChain at cluster c of table f: what was   *)
(* read, but the last cluster if the buffer was full.                      *)
Deleted(f, got) ==
  LET n == ChainSize(got.result) - (IF ChainSize(got.result) = BufSize THEN 1 ELSE 0)
      D == {got.buf[i] : i \in 1 .. n}
  IN  [c \in FatIndex |-> IF c \in D THEN 0 ELSE f[c]]
=============================================================================
