------------------------------ MODULE MountProofs ------------------------------
(***************************************************************************)
(* Proofs about Volume and Mount.  For every boot sector that formatting   *)
(* writes the driver finds the type of the table and the data, whatever    *)
(* volume was mounted before.  For any number of devices and threads and   *)
(* any media a mounted volume is that of the device that is there, until   *)
(* the flag says that a device went away, and the driver takes it for what *)
(* it is.                                                                  *)
(***************************************************************************)
EXTENDS Mount, MassDeviceProofs

LEMMA Division ==
  ASSUME NEW x \in Int, NEW n \in Nat \ {0}
  PROVE  /\ x \div n \in Int
         /\ n * (x \div n) <= x
         /\ x < n * (x \div n) + n
  BY SMTT(30)

LEMMA Times == \A a, b \in Int : a * b \in Int
  BY SMT

LEMMA TimesNext == \A n, p \in Int : n * (p + 1) = n * p + n
  BY SMTT(30)

LEMMA TimesMono == \A n \in Nat, p, q \in Int : p <= q => n * p <= n * q
  BY SMTT(30)

LEMMA QuotientIs ==
  ASSUME NEW x \in Int, NEW n \in Nat \ {0}, NEW q \in Int, n * q <= x, x < n * q + n
  PROVE  x \div n = q
  <1> DEFINE p == x \div n
  <1>1. p \in Int /\ n * p <= x /\ x < n * p + n
    BY Division
  <1> HIDE DEF p
  <1>2. n * p \in Int /\ n * q \in Int
    BY <1>1, Times
  <1>3. ~ (p + 1 <= q)
    <2>1. p + 1 <= q => n * (p + 1) <= n * q
      BY <1>1, TimesMono
    <2> QED BY <1>1, <1>2, <2>1, TimesNext
  <1>4. ~ (q + 1 <= p)
    <2>1. q + 1 <= p => n * (q + 1) <= n * p
      BY <1>1, TimesMono
    <2> QED BY <1>1, <1>2, <2>1, TimesNext
  <1> QED BY <1>1, <1>3, <1>4 DEF p

LEMMA QuotientMono ==
  ASSUME NEW x \in Int, NEW y \in Int, x <= y, NEW n \in Nat \ {0}
  PROVE  x \div n <= y \div n
  <1> DEFINE p == x \div n
             q == y \div n
  <1>1. /\ p \in Int /\ n * p <= x
        /\ q \in Int /\ y < n * q + n
    BY Division
  <1> HIDE DEF p, q
  <1>2. n * p \in Int /\ n * q \in Int
    BY <1>1, Times
  <1>3. ~ (q + 1 <= p)
    <2>1. q + 1 <= p => n * (q + 1) <= n * p
      BY <1>1, TimesMono
    <2> QED BY <1>1, <1>2, <2>1, TimesNext
  <1> QED BY <1>1, <1>3 DEF p, q

LEMMA QuotientPlusTwo ==
  ASSUME NEW x \in Int, NEW n \in Nat \ {0}
  PROVE  (x + 2 * n) \div n = x \div n + 2
  <1> DEFINE q == x \div n
  <1>1. q \in Int /\ n * q <= x /\ x < n * q + n
    BY Division
  <1> HIDE DEF q
  <1>2. n * (q + 2) = n * q + 2 * n
    BY <1>1, SMTT(30)
  <1>3. n * q \in Int /\ x + 2 * n \in Int /\ q + 2 \in Int
    BY <1>1, Times
  <1>4. n * (q + 2) <= x + 2 * n /\ x + 2 * n < n * (q + 2) + n
    BY <1>1, <1>2, <1>3
  <1>5. (x + 2 * n) \div n = q + 2
    BY <1>3, <1>4, QuotientIs
  <1> QED BY <1>5 DEF q
-----------------------------------------------------------------------------
LEMMA TypeIs == \A n \in Int : TypeOf(n) \in FatTypes
  BY DEF TypeOf, FatTypes

LEMMA TypeBetween ==
  \A l, m, n \in Int : l <= m /\ m <= n /\ TypeOf(n) = TypeOf(l) => TypeOf(m) = TypeOf(l)
  BY DEF TypeOf

LEMMA TypeAbove == \A m, n \in Int : m <= n /\ TypeOf(m) = 32 => TypeOf(n) = 32
  BY DEF TypeOf

(* The room that is left for the data, with none for the root directory of *)
(* a FAT32 volume.                                                         *)
DataRoom(boot) == boot.sectorCount - DataStart(boot)

LEMMA BootSizes ==
  ASSUME NEW boot \in Boot
  PROVE  /\ {boot.resSectors, boot.fatCount, boot.fatSize, boot.fatSize32, boot.rootSectors,
             boot.sectorCount, boot.rootDirCluster} \subseteq Nat
         /\ boot.clusterSize \in Nat \ {0}
         /\ boot.fatCount * boot.fatSize \in Nat
         /\ boot.fatCount * boot.fatSize32 \in Nat
         /\ DataStart(boot) \in Nat /\ DataRoom(boot) \in Int /\ DataClusters(boot) \in Int
  <1>1. /\ {boot.resSectors, boot.fatCount, boot.fatSize, boot.fatSize32, boot.rootSectors,
            boot.sectorCount, boot.rootDirCluster} \subseteq Nat
        /\ boot.clusterSize \in Nat \ {0}
    BY DEF Boot
  <1>2. \A a, b \in Nat : a * b \in Nat
    BY SMT
  <1>3. /\ boot.fatCount * boot.fatSize \in Nat
        /\ boot.fatCount * boot.fatSize32 \in Nat
        /\ boot.fatCount * (boot.fatSize + boot.fatSize32) \in Nat
    BY <1>1, <1>2
  <1>4. DataStart(boot) \in Nat /\ DataRoom(boot) \in Int
    BY <1>1, <1>3 DEF DataStart, DataRoom
  <1>5. DataClusters(boot) \in Int
    BY <1>1, <1>4, Division DEF DataClusters, DataRoom
  <1> QED BY <1>1, <1>3, <1>4, <1>5

(* What fat_determineFatType divides: the room, two clusters, and at most  *)
(* the root directory if the volume before was FAT32.                      *)
LEMMA Counted ==
  ASSUME NEW boot \in Boot, NEW start \in Int, NEW old
  PROVE  \E extra \in {0, boot.rootSectors} :
           DetermineFatType(Common(boot, start, old))
             = TypeOf((boot.sectorCount - (boot.resSectors + boot.fatCount * boot.fatSize
                         + boot.rootSectors) + extra + 2 * boot.clusterSize) \div boot.clusterSize)
  <1> DEFINE cs == boot.clusterSize
             tables == boot.fatCount * boot.fatSize
             extra == IF old.fatType = 32 THEN boot.rootSectors ELSE 0
             bpb == Common(boot, start, old)
  <1>1. /\ {boot.resSectors, boot.rootSectors, boot.sectorCount, tables} \subseteq Nat
        /\ cs \in Nat \ {0}
    BY BootSizes
  <1>2. bpb.sectorCount - (Cluster2Sector(bpb, 0) - bpb.partStart)
          = boot.sectorCount - (boot.resSectors + tables + boot.rootSectors) + extra + 2 * cs
    <2>1. /\ bpb.sectorCount = boot.sectorCount /\ bpb.partStart = start
          /\ bpb.clusterSize = cs /\ bpb.fatType = old.fatType
          /\ bpb.rootSectors = boot.rootSectors
          /\ bpb.rootDirStart = start + tables + boot.resSectors
      BY DEF Common
    <2>2. cs * (0 - 2) = 0 - 2 * cs
      BY <1>1
    <2> HIDE DEF bpb, tables, cs
    <2> QED BY <1>1, <2>1, <2>2 DEF Cluster2Sector
  <1>3. bpb.clusterSize = cs
    BY DEF Common
  <1> QED BY <1>2, <1>3 DEF DetermineFatType

LEMMA RightType ==
  ASSUME NEW boot \in Boot, WellFormed(boot), ~ NearLimit(boot), NEW start \in Int, NEW old
  PROVE  DetermineFatType(Common(boot, start, old)) = TypeOf(DataClusters(boot))
  <1> DEFINE cs == boot.clusterSize
             tables == boot.fatCount * boot.fatSize
             fixed == boot.resSectors + tables + boot.rootSectors
  <1>1. /\ {boot.resSectors, boot.rootSectors, boot.sectorCount, tables, boot.fatSize} \subseteq Nat
        /\ {boot.fatCount, boot.fatSize32, boot.fatCount * boot.fatSize32} \subseteq Nat
        /\ cs \in Nat \ {0}
        /\ DataRoom(boot) \in Int /\ DataClusters(boot) \in Int
    BY BootSizes
  <1>2. PICK extra \in {0, boot.rootSectors} :
          DetermineFatType(Common(boot, start, old))
            = TypeOf((boot.sectorCount - fixed + extra + 2 * cs) \div cs)
    BY Counted
  <1> DEFINE counted == (boot.sectorCount - fixed + extra + 2 * cs) \div cs
  <1>3. CASE boot.fatSize # 0
    <2>1. boot.fatSize32 = 0 /\ TypeOf(Overcounted(boot)) = TypeOf(DataClusters(boot))
      BY <1>3 DEF WellFormed, NearLimit
    <2>2. boot.sectorCount - fixed = DataRoom(boot)
      BY <1>1, <2>1 DEF DataRoom, DataStart
    <2>3. counted = (DataRoom(boot) + extra) \div cs + 2
      <3>1. DataRoom(boot) + extra \in Int
        BY <1>1
      <3>2. ((DataRoom(boot) + extra) + 2 * cs) \div cs = (DataRoom(boot) + extra) \div cs + 2
        BY <1>1, <3>1, QuotientPlusTwo
      <3> QED BY <2>2, <3>2
    <2>4. /\ DataRoom(boot) <= DataRoom(boot) + extra
          /\ DataRoom(boot) + extra <= DataRoom(boot) + boot.rootSectors
          /\ DataRoom(boot) + extra \in Int /\ DataRoom(boot) + boot.rootSectors \in Int
      BY <1>1
    <2>5. /\ DataRoom(boot) \div cs <= (DataRoom(boot) + extra) \div cs
          /\ (DataRoom(boot) + extra) \div cs <= (DataRoom(boot) + boot.rootSectors) \div cs
      BY <1>1, <2>4, QuotientMono
    <2>6. /\ (DataRoom(boot) + extra) \div cs \in Int
          /\ (DataRoom(boot) + boot.rootSectors) \div cs \in Int
      BY <1>1, <2>4, Division
    <2>7. /\ DataClusters(boot) = DataRoom(boot) \div cs
          /\ Overcounted(boot) = (DataRoom(boot) + boot.rootSectors) \div cs + 2
      BY DEF DataClusters, Overcounted, DataRoom
    <2>8. /\ DataClusters(boot) <= counted /\ counted <= Overcounted(boot)
          /\ counted \in Int /\ Overcounted(boot) \in Int
      BY <1>1, <2>3, <2>5, <2>6, <2>7
    <2> QED BY <1>1, <1>2, <2>1, <2>8, TypeBetween
  <1>4. CASE boot.fatSize = 0
    <2>1. boot.rootSectors = 0 /\ TypeOf(DataClusters(boot)) = 32
      BY <1>4 DEF WellFormed
    <2>2. tables = 0 /\ extra = 0
      BY <1>1, <1>4, <2>1
    <2>3. fixed \in Nat /\ fixed <= DataStart(boot)
      <3>1. DataStart(boot) = boot.resSectors + boot.fatCount * boot.fatSize32
        BY <1>1, <1>4, <2>1 DEF DataStart
      <3> QED BY <1>1, <2>1, <2>2, <3>1
    <2>4. /\ DataRoom(boot) <= boot.sectorCount - fixed + extra + 2 * cs
          /\ boot.sectorCount - fixed + extra + 2 * cs \in Int
      <3>1. DataStart(boot) \in Nat
        BY BootSizes
      <3> HIDE DEF fixed, tables, cs
      <3> QED BY <1>1, <2>2, <2>3, <3>1 DEF DataRoom
    <2>5. DataClusters(boot) <= counted /\ counted \in Int
      BY <1>1, <2>4, QuotientMono, Division DEF DataClusters, DataRoom
    <2> QED BY <1>1, <1>2, <2>1, <2>5, TypeAbove
  <1> QED BY <1>3, <1>4

(* After fat_getPartitionBootSector the type of FAT is the one that the    *)
(* number of clusters gives, cluster 2 is at the start of the data, and    *)
(* the last cluster ends inside the partition.                             *)
THEOREM BootSectorRight ==
  ASSUME NEW boot \in Boot, WellFormed(boot), ~ NearLimit(boot), NEW start \in Int, NEW old
  PROVE  LET bpb == PartitionBootSector(boot, start, old)
         IN  /\ bpb.fatType = TypeOf(DataClusters(boot))
             /\ Cluster2Sector(bpb, 2) = start + DataStart(boot)
             /\ Cluster2Sector(bpb, DataClusters(boot) + 2) <= start + boot.sectorCount
  <1> DEFINE cs == boot.clusterSize
             type == TypeOf(DataClusters(boot))
             bpb == PartitionBootSector(boot, start, old)
             clusters == DataClusters(boot)
  <1>1. /\ {boot.resSectors, boot.rootSectors, boot.sectorCount, boot.fatCount * boot.fatSize,
            boot.fatCount * boot.fatSize32, boot.fatCount, boot.fatSize, boot.fatSize32} \subseteq Nat
        /\ cs \in Nat \ {0}
        /\ DataStart(boot) \in Nat /\ DataRoom(boot) \in Int /\ clusters \in Int
    BY BootSizes
  <1>2. DetermineFatType(Common(boot, start, old)) = type
    BY RightType
  <1>3. /\ bpb.fatType = type /\ bpb.clusterSize = cs
        /\ bpb.rootDirStart + (IF type = 32 THEN 0 ELSE bpb.rootSectors) = start + DataStart(boot)
    <2>1. CASE boot.fatSize # 0
      <3>1. boot.fatSize32 = 0 /\ type # 32
        BY <2>1 DEF WellFormed
      <3>2. bpb = [Common(boot, start, old) EXCEPT !.fatType = type]
        BY <1>2, <3>1 DEF PartitionBootSector
      <3>3. /\ bpb.fatType = type /\ bpb.clusterSize = cs /\ bpb.rootSectors = boot.rootSectors
            /\ bpb.rootDirStart = start + boot.fatCount * boot.fatSize + boot.resSectors
        BY <3>2 DEF Common
      <3>4. DataStart(boot) = boot.resSectors + boot.fatCount * boot.fatSize + boot.rootSectors
        BY <1>1, <3>1 DEF DataStart
      <3> HIDE DEF bpb, type
      <3> QED BY <1>1, <3>1, <3>3, <3>4
    <2>2. CASE boot.fatSize = 0
      <3>1. boot.rootSectors = 0 /\ type = 32
        BY <2>2 DEF WellFormed
      <3>2. bpb = [Common(boot, start, old) EXCEPT !.fatType = type, !.fatSize = boot.fatSize32,
                         !.rootDirStart = @ + boot.fatCount * boot.fatSize32,
                         !.rootDirCluster = boot.rootDirCluster]
        BY <1>2, <2>2, <3>1 DEF PartitionBootSector
      <3>3. /\ bpb.fatType = type /\ bpb.clusterSize = cs
            /\ bpb.rootDirStart = start + boot.fatCount * boot.fatSize + boot.resSectors
                                    + boot.fatCount * boot.fatSize32
        BY <3>2 DEF Common
      <3>4. boot.fatCount * boot.fatSize = 0
        BY <1>1, <2>2
      <3>5. DataStart(boot) = boot.resSectors + boot.fatCount * boot.fatSize32
        BY <1>1, <2>2, <3>1 DEF DataStart
      <3> HIDE DEF bpb, type
      <3> QED BY <1>1, <3>1, <3>3, <3>4, <3>5
    <2> QED BY <2>1, <2>2
  <1> HIDE DEF bpb, type, clusters
  <1>4. ASSUME NEW c \in Int
        PROVE  Cluster2Sector(bpb, c) = start + DataStart(boot) + cs * (c - 2)
    BY <1>3 DEF Cluster2Sector
  <1>5. Cluster2Sector(bpb, 2) = start + DataStart(boot)
    <2>1. cs * (2 - 2) = 0
      BY <1>1
    <2> QED BY <1>1, <1>4, <2>1
  <1>6. Cluster2Sector(bpb, clusters + 2) <= start + boot.sectorCount
    <2>1. clusters + 2 \in Int /\ (clusters + 2) - 2 = clusters
      BY <1>1
    <2>2. cs * clusters <= DataRoom(boot)
      BY <1>1, Division DEF clusters, DataClusters, DataRoom
    <2>3. Cluster2Sector(bpb, clusters + 2) = start + DataStart(boot) + cs * clusters
      BY <1>4, <2>1
    <2>4. cs * clusters \in Int
      BY <1>1, Times
    <2> QED BY <1>1, <2>2, <2>3, <2>4 DEF DataRoom
  <1> QED BY <1>3, <1>5, <1>6 DEF bpb, type, clusters
-----------------------------------------------------------------------------
(* No device has left yet: the flag is never taken back.                   *)
FirstDevice == DISCONNECTED \notin status

(* What the threads and the mount know of the device: an answer with a     *)
(* device is still true, and whoever mounts is reading the device that the *)
(* answer was about.                                                       *)
AnswersHold == \A c \in Client : DETECTED \in ret[c] => DETECTED \in status

MountingDevice ==
  \A c \in Client :
    /\ op[c] = "initDriver" => DETECTED \in status /\ reading[c] = devId
    /\ op[c] = "bootSector" =>
         /\ DETECTED \in status /\ metaOf = devId
         /\ record.start # 0 => reading[c] = devId

MountedDevice == mounted => DETECTED \in status /\ metaOf = devId /\ bootOf = devId

(* The record in use is that of the medium it was read from.               *)
RecordOfMedium == metaOf # NoDevice => record = WorkPartition(Medium[metaOf].table)

MountInv ==
  /\ MassTypeOK /\ IndInv /\ RecordOfMedium
  /\ reading \in [Client -> plugged \union {NoDevice}]
  /\ op \in [Client -> {"none", "getStatus", "initDriver", "bootSector", "checked"}]
  /\ FirstDevice => AnswersHold /\ MountingDevice /\ MountedDevice
-----------------------------------------------------------------------------
LEMMA MountInitInv == Init => MountInv
  <1> SUFFICES ASSUME Init PROVE MountInv
    OBVIOUS
  <1>1. MassTypeOK /\ IndInv
    BY TypeInit, InitInv DEF Init
  <1>2. \A c \in Client : ret[c] = Error /\ op[c] = "none"
    BY DEF Init, MassInit
  <1>3. DETECTED \notin Error
    BY DEF DETECTED, Error
  <1>4. op \in [Client -> {"none", "getStatus", "initDriver", "bootSector", "checked"}]
    BY DEF Init
  <1>5. AnswersHold /\ MountingDevice /\ MountedDevice
    BY <1>2, <1>3 DEF AnswersHold, MountingDevice, MountedDevice, Init
  <1>6. RecordOfMedium /\ reading \in [Client -> plugged \union {NoDevice}]
    BY DEF Init, RecordOfMedium
  <1> QED BY <1>1, <1>4, <1>5, <1>6 DEF MountInv

(* Every step is one of the device and the threads that ask for it, or     *)
(* leaves them alone.                                                      *)
LEMMA DeviceStep == [Next]_vars => [MassNext]_massVars
  BY DEF Next, vars, MassNext, Plugging, StartCheck, Check, NotReady, AlreadyMounted, InitDriver,
         ReadPartitionTable, ReadBootSector, Open, Look, Write, Close

(* As long as no device leaves the detected device stays, and a thread is  *)
(* told what is true.                                                      *)
DeviceKept ==
  /\ FirstDevice
  /\ DETECTED \in status => DETECTED \in status' /\ devId' = devId
  /\ AnswersHold'

(* An answer is an error, or the status.                                   *)
LEMMA ReturnKeeps ==
  ASSUME MountInv, FirstDevice, NEW c \in Client, NEW r \in {Error, status},
         Return(c, r), UNCHANGED <<devId, status>>
  PROVE  DeviceKept
  <1>1. DETECTED \notin Error
    BY DEF DETECTED, Error
  <1>2. /\ ret' = [ret EXCEPT ![c] = r]
        /\ ret \in [Client -> (SUBSET Flags) \union {Error}]
    BY DEF Return, MountInv, MassTypeOK
  <1>3. AnswersHold'
    <2> SUFFICES ASSUME NEW b \in Client, DETECTED \in ret'[b] PROVE DETECTED \in status
      BY DEF AnswersHold
    <2>1. AnswersHold
      BY DEF MountInv
    <2>2. CASE b = c
      BY <1>1, <1>2, <2>2
    <2>3. CASE b # c
      BY <1>2, <2>1, <2>3 DEF AnswersHold
    <2> QED BY <2>2, <2>3
  <1> QED BY <1>3 DEF DeviceKept

(* So is one that was given before.                                        *)
LEMMA GrowKeeps ==
  ASSUME MountInv, FirstDevice, status \subseteq status', UNCHANGED ret,
         DETECTED \in status => devId' = devId
  PROVE  DeviceKept
  BY DEF MountInv, DeviceKept, AnswersHold

LEMMA CallKeeps ==
  ASSUME MountInv, FirstDevice, NEW c \in Client, Call(c)
  PROVE  DeviceKept
  <1>1. DETECTED \notin Error
    BY DEF DETECTED, Error
  <1>2. AnswersHold'
    BY <1>1 DEF Call, devVars, MountInv, MassTypeOK, AnswersHold
  <1> QED BY <1>2 DEF DeviceKept, Call, devVars

LEMMA ReleaseSaysSo == Release => ~ FirstDevice'
  BY DEF Release, FirstDevice

LEMMA DeviceStays ==
  ASSUME MountInv, [MassNext]_massVars, FirstDevice'
  PROVE  DeviceKept
  <1>1. CASE UNCHANGED massVars \/ SignalReady
    BY <1>1, GrowKeeps DEF massVars, SignalReady, devVars, clientVars, FirstDevice
  <1>2. ASSUME NEW d \in Device, Plug(d) PROVE DeviceKept
    <2>1. FirstDevice
      BY <1>2 DEF Plug, Connect, FirstDevice
    <2>2. status \subseteq status' /\ UNCHANGED ret /\ (DETECTED \in status => devId' = devId)
      BY <1>2 DEF Plug, Connect, clientVars
    <2> QED BY <2>1, <2>2, GrowKeeps
  <1>3. ASSUME NEW d \in Device, Unplug(d) PROVE DeviceKept
    BY <1>3, GrowKeeps, ReleaseSaysSo DEF Unplug, clientVars, FirstDevice
  <1>4. ASSUME NEW c \in Client,
               \/ Call(c) \/ WaitReady(c) \/ PollAgain(c) \/ Configure(c) \/ Configured(c)
               \/ NextTransfer(c) \/ Inquired(c) \/ Prepared(c)
        PROVE  DeviceKept
    <2>1. UNCHANGED <<devId, status>> /\ FirstDevice
      BY <1>4 DEF Call, WaitReady, PollAgain, Configure, Configured, NextTransfer, Inquired,
                  Prepared, devVars, FirstDevice
    <2>2. CASE Call(c)
      BY <2>1, <2>2, CallKeeps
    <2>3. CASE ~ Call(c)
      BY <1>4, <2>1, <2>3, GrowKeeps
      DEF WaitReady, PollAgain, Configure, Configured, NextTransfer, Inquired, Prepared, Exchange
    <2> QED BY <2>2, <2>3
  <1>5. ASSUME NEW c \in Client,
               PollTimeout(c) \/ AlreadyConfigured(c) \/ WarmupOK(c) \/ WarmupNoCapacity(c)
        PROVE  DeviceKept
    <2>1. UNCHANGED <<devId, status>>
      BY <1>5 DEF PollTimeout, AlreadyConfigured, WarmupOK, WarmupNoCapacity, devVars
    <2>2. Return(c, Error) \/ Return(c, status)
      BY <1>5 DEF PollTimeout, AlreadyConfigured, WarmupOK, WarmupNoCapacity
    <2> QED BY <2>1, <2>2, ReturnKeeps DEF FirstDevice
  <1>6. ASSUME NEW c \in Client, InterfaceSet(c) PROVE DeviceKept
    <2>1. CASE DETECTED \in status
      <3>1. status' = status \union {CONFIGURED} /\ UNCHANGED <<devId, ret>>
        BY <1>6, <2>1 DEF InterfaceSet, Exchange
      <3>2. FirstDevice
        BY <3>1 DEF FirstDevice
      <3> QED BY <3>1, <3>2, GrowKeeps
    <2>2. CASE DETECTED \notin status
      BY <1>6, <2>2, ReleaseSaysSo DEF InterfaceSet
    <2> QED BY <2>1, <2>2
  <1>7. ASSUME NEW c \in Client, WarmupFails(c) PROVE DeviceKept
    BY <1>7, ReleaseSaysSo DEF WarmupFails
  <1> QED BY <1>1, <1>2, <1>3, <1>4, <1>5, <1>6, <1>7 DEF MassNext, Bus, GetStatus
-----------------------------------------------------------------------------
(* The device and the threads move on: whoever mounts has its device.      *)
LEMMA DeviceMovesInv ==
  ASSUME MountInv, [MassNext]_massVars, UNCHANGED <<mounted, metaOf, bootOf, record>>,
         op' \in [Client -> {"none", "getStatus", "initDriver", "bootSector", "checked"}],
         reading' \in [Client -> plugged' \union {NoDevice}],
         \A c \in Client : op'[c] \in {"initDriver", "bootSector"} =>
                             /\ op'[c] = op[c]
                             /\ reading[c] \in plugged' => reading'[c] = reading[c]
  PROVE  MountInv'
  <1>1. MassTypeOK' /\ IndInv' /\ RecordOfMedium'
    BY TypeStep, NextInv DEF MountInv, RecordOfMedium
  <1>2. ASSUME FirstDevice' PROVE AnswersHold' /\ MountingDevice' /\ MountedDevice'
    <2>1. DeviceKept /\ MountingDevice /\ MountedDevice
      BY <1>2, DeviceStays DEF MountInv, DeviceKept
    <2>2. DETECTED \in status => devId \in plugged'
      BY <1>1, <2>1 DEF DeviceKept, IndInv, EndpointsMatchDevice
    <2>3. DETECTED \in status => DETECTED \in status' /\ devId' = devId
      BY <2>1 DEF DeviceKept
    <2>4. AnswersHold' /\ MountedDevice'
      BY <2>1, <2>3 DEF DeviceKept, MountedDevice
    <2>5. MountingDevice'
      <3> SUFFICES ASSUME NEW c \in Client
                   PROVE  /\ op'[c] = "initDriver" => DETECTED \in status' /\ reading'[c] = devId'
                          /\ op'[c] = "bootSector" =>
                               /\ DETECTED \in status' /\ metaOf' = devId'
                               /\ record'.start # 0 => reading'[c] = devId'
        BY DEF MountingDevice
      <3>1. /\ op[c] = "initDriver" => DETECTED \in status /\ reading[c] = devId
            /\ op[c] = "bootSector" =>
                 /\ DETECTED \in status /\ metaOf = devId
                 /\ record.start # 0 => reading[c] = devId
        BY <2>1 DEF MountingDevice
      <3>2. op'[c] \in {"initDriver", "bootSector"} =>
              op'[c] = op[c] /\ (reading[c] \in plugged' => reading'[c] = reading[c])
        OBVIOUS
      <3>3. metaOf' = metaOf /\ record' = record
        OBVIOUS
      <3> QED BY <2>2, <2>3, <3>1, <3>2, <3>3
    <2> QED BY <2>4, <2>5
  <1> QED BY <1>1, <1>2 DEF MountInv

(* A thread that has an answer starts to mount.                            *)
LEMMA DetectedIsRead ==
  ASSUME MountInv, DETECTED \in status
  PROVE  Submitted(bulkEpI) = devId
  BY DEF MountInv, IndInv, EndpointsMatchDevice, Submitted

LEMMA ReadTyped ==
  ASSUME reading \in [Client -> plugged \union {NoDevice}], UNCHANGED plugged,
         NEW c \in Client, Read(c) \/ ReadOver(c) \/ UNCHANGED reading
  PROVE  reading' \in [Client -> plugged' \union {NoDevice}]
  BY DEF Read, ReadOver, Submitted

LEMMA InitDriverInv ==
  ASSUME MountInv, NEW c \in Client, InitDriver(c)
  PROVE  MountInv'
  <1> USE DEF InitDriver
  <1>1. UNCHANGED massVars
    OBVIOUS
  <1>2. MassTypeOK' /\ IndInv'
    BY <1>1, TypeStep, NextInv DEF MountInv
  <1>3. ASSUME FirstDevice PROVE AnswersHold' /\ MountingDevice' /\ MountedDevice'
    <2>1. DETECTED \in status
      BY <1>3 DEF MountInv, AnswersHold, Ready
    <2>2. reading' = [reading EXCEPT ![c] = devId]
      BY <2>1, DetectedIsRead DEF Read
    <2> QED BY <1>1, <1>3, <2>1, <2>2
            DEF MountInv, massVars, devVars, volumeVars, AnswersHold, MountingDevice, MountedDevice
  <1>4. reading' \in [Client -> plugged' \union {NoDevice}]
    BY <1>1, ReadTyped DEF MountInv, massVars, devVars
  <1>5. op' \in [Client -> {"none", "getStatus", "initDriver", "bootSector", "checked"}]
    BY DEF MountInv
  <1> QED BY <1>1, <1>2, <1>3, <1>4, <1>5
          DEF MountInv, RecordOfMedium, FirstDevice, massVars, devVars, volumeVars

(* It reads the partition table, and the boot sector, of the device that   *)
(* is detected.                                                            *)
LEMMA ReadInv ==
  ASSUME MountInv, NEW c \in Client, ReadPartitionTable(c) \/ ReadBootSector(c)
  PROVE  MountInv'
  <1>1. UNCHANGED massVars
    BY DEF ReadPartitionTable, ReadBootSector
  <1>2. MassTypeOK' /\ IndInv'
    BY <1>1, TypeStep, NextInv DEF MountInv
  <1>3. op' \in [Client -> {"none", "getStatus", "initDriver", "bootSector", "checked"}]
    BY DEF MountInv, ReadPartitionTable, ReadBootSector
  <1>4. ASSUME FirstDevice PROVE AnswersHold' /\ MountingDevice' /\ MountedDevice'
    <2>1. AnswersHold /\ MountingDevice /\ MountedDevice
      BY <1>4 DEF MountInv
    <2>2. DETECTED \in status /\ devId # NoDevice /\ Submitted(bulkEpI) = devId
      <3>1. op[c] \in {"initDriver", "bootSector"}
        BY DEF ReadPartitionTable, ReadBootSector
      <3>2. DETECTED \in status
        BY <2>1, <3>1 DEF MountingDevice
      <3> QED BY <3>2, DetectedIsRead DEF MountInv, IndInv, DeviceTypeOK, EndpointsMatchDevice
    <2>3. CASE ReadPartitionTable(c)
      <3> USE DEF ReadPartitionTable
      <3>1. reading[c] = devId
        BY <2>1, <2>3 DEF MountingDevice
      <3>2. metaOf' = devId /\ record' = WorkPartition(Medium[devId].table)
        BY <2>2, <2>3, <3>1 DEF TablesOf
      <3>3. metaOf = devId => record' = record
        BY <2>2, <3>2 DEF MountInv, RecordOfMedium
      <3>4. record'.start # 0 => reading' = [reading EXCEPT ![c] = devId]
        BY <2>2, <2>3 DEF Read
      <3>5. record'.start = 0 => reading' = [reading EXCEPT ![c] = NoDevice]
        BY <2>3 DEF ReadOver
      <3>6. UNCHANGED <<status, devId, ret>> /\ op' = [op EXCEPT ![c] = "bootSector"]
        BY <1>1, <2>3 DEF massVars, devVars, clientVars
      <3>7. MountingDevice'
        <4> SUFFICES ASSUME NEW b \in Client
                     PROVE  /\ op'[b] = "initDriver" => reading'[b] = devId
                            /\ op'[b] = "bootSector" /\ record'.start # 0 => reading'[b] = devId
          BY <2>2, <3>2, <3>6 DEF MountingDevice
        <4>1. CASE b = c
          BY <3>4, <3>5, <3>6, <4>1 DEF MountInv
        <4>2. CASE b # c
          <5>1. reading'[b] = reading[b] /\ op'[b] = op[b]
            BY <2>3, <3>6, <4>2 DEF MountInv, Read, ReadOver
          <5>2. /\ op[b] = "initDriver" => reading[b] = devId
                /\ op[b] = "bootSector" => metaOf = devId /\ (record.start # 0 => reading[b] = devId)
            BY <2>1 DEF MountingDevice
          <5> QED BY <3>3, <5>1, <5>2
        <4> QED BY <4>1, <4>2
      <3> QED BY <2>1, <2>2, <2>3, <3>2, <3>6, <3>7 DEF AnswersHold, MountedDevice
    <2>4. CASE ReadBootSector(c)
      <3> USE DEF ReadBootSector
      <3>1. metaOf = devId /\ bootOf' = devId
        <4>1. op[c] = "bootSector" /\ bootOf' = IF record.start = 0 THEN metaOf ELSE reading[c]
          BY <2>4
        <4>2. metaOf = devId /\ (record.start # 0 => reading[c] = devId)
          BY <2>1, <4>1 DEF MountingDevice
        <4> QED BY <4>1, <4>2
      <3>2. reading' = [reading EXCEPT ![c] = devId]
        BY <2>2, <2>4 DEF Read
      <3>3. UNCHANGED <<status, devId, ret>>
        BY <1>1 DEF massVars, devVars, clientVars
      <3> QED BY <2>1, <2>2, <2>4, <3>1, <3>2, <3>3
              DEF MountInv, AnswersHold, MountingDevice, MountedDevice
    <2> QED BY <2>3, <2>4
  <1>5. reading' \in [Client -> plugged' \union {NoDevice}]
    BY <1>1, ReadTyped DEF MountInv, massVars, devVars, ReadPartitionTable, ReadBootSector
  <1>6. RecordOfMedium'
    BY DEF MountInv, RecordOfMedium, ReadPartitionTable, ReadBootSector, TablesOf
  <1> QED BY <1>1, <1>2, <1>3, <1>4, <1>5, <1>6 DEF MountInv, FirstDevice, massVars, devVars

LEMMA NotReadyInv ==
  ASSUME MountInv, NEW c \in Client, NotReady(c)
  PROVE  MountInv'
  <1> USE DEF NotReady
  <1>1. UNCHANGED massVars
    OBVIOUS
  <1>2. MassTypeOK' /\ IndInv'
    BY <1>1, TypeStep, NextInv DEF MountInv
  <1>3. FirstDevice => AnswersHold' /\ MountingDevice' /\ MountedDevice'
    BY <1>1 DEF MountInv, massVars, devVars, clientVars, volumeVars, AnswersHold, MountingDevice,
                MountedDevice
  <1> QED BY <1>1, <1>2, <1>3
          DEF MountInv, RecordOfMedium, FirstDevice, massVars, devVars, volumeVars

LEMMA GetStatusPlugs ==
  ASSUME NEW c \in Client, GetStatus(c)
  PROVE  UNCHANGED plugged
  BY DEF GetStatus, WaitReady, PollAgain, PollTimeout, AlreadyConfigured, Configure, Configured,
         InterfaceSet, NextTransfer, Inquired, Prepared, WarmupOK, WarmupNoCapacity, WarmupFails,
         devVars

LEMMA MountNextInv ==
  ASSUME MountInv, [Next]_vars
  PROVE  MountInv'
  <1>1. CASE Plugging \/ UNCHANGED vars
    <2>1. UNCHANGED <<mounted, metaOf, bootOf, record, op>>
      BY <1>1 DEF Plugging, vars, mountVars, volumeVars
    <2>2. /\ reading' \in [Client -> plugged' \union {NoDevice}]
          /\ \A c \in Client : reading[c] \in plugged' => reading'[c] = reading[c]
      BY <1>1 DEF Plugging, vars, mountVars, massVars, devVars, MountInv
    <2> QED BY <2>1, <2>2, DeviceStep, DeviceMovesInv DEF MountInv
  <1>2. ASSUME NEW c \in Client,
               \/ StartCheck(c) \/ AlreadyMounted(c)
               \/ Open(c) \/ Look(c) \/ Write(c) \/ Close(c)
        PROVE  MountInv'
    <2>1. UNCHANGED <<mounted, metaOf, bootOf, record, plugged>>
      BY <1>2 DEF StartCheck, Call, AlreadyMounted, Open, Look, Write, Close, volumeVars, massVars,
                  devVars
    <2>2. \/ UNCHANGED op
          \/ \E at \in {"none", "getStatus", "checked"} : op' = [op EXCEPT ![c] = at]
      BY <1>2 DEF StartCheck, AlreadyMounted, Open, Look, Write, Close
    <2>3. Read(c) \/ ReadOver(c) \/ UNCHANGED reading
      BY <1>2 DEF StartCheck, AlreadyMounted, Open, Look, Write, Close
    <2>4. reading' \in [Client -> plugged' \union {NoDevice}]
      BY <2>1, <2>3, ReadTyped DEF MountInv
    <2>5. op' \in [Client -> {"none", "getStatus", "initDriver", "bootSector", "checked"}]
      BY <2>2 DEF MountInv
    <2>6. ASSUME NEW b \in Client, op'[b] \in {"initDriver", "bootSector"}
          PROVE  op'[b] = op[b] /\ reading'[b] = reading[b]
      <3>1. CASE b = c
        BY <1>2, <2>2, <2>6, <3>1
        DEF MountInv, StartCheck, AlreadyMounted, Open, Look, Write, Close
      <3>2. CASE b # c
        BY <2>2, <2>3, <3>2 DEF MountInv, Read, ReadOver
      <3> QED BY <3>1, <3>2
    <2> QED BY <2>1, <2>4, <2>5, <2>6, DeviceStep, DeviceMovesInv
  <1>3. ASSUME NEW c \in Client, GetStatus(c) /\ UNCHANGED mountVars
        PROVE  MountInv'
    <2>1. UNCHANGED <<mounted, metaOf, bootOf, record, op, reading, plugged>>
      BY <1>3, GetStatusPlugs DEF mountVars, volumeVars
    <2> QED BY <2>1, DeviceStep, DeviceMovesInv DEF MountInv
  <1> QED BY <1>1, <1>2, <1>3, NotReadyInv, InitDriverInv, ReadInv
          DEF Next, Check, vars

(* A mount is of one medium, and of the one that is there: partition table *)
(* and boot sector were read from the detected device, or a device went    *)
(* away and the next fat_mountCheck mounts again.  The threads that mount  *)
(* at the same time and the usbd thread do not disturb this.               *)
THEOREM StaleMountsAreDetected == Spec => []StaleMountIsDetected
  <1>1. MountInv => StaleMountIsDetected
    BY DEF MountInv, FirstDevice, MountedDevice, StaleMountIsDetected
  <1> QED BY <1>1, MountInitInv, MountNextInv, PTL DEF Spec
-----------------------------------------------------------------------------
LEMMA RecordTyped ==
  ASSUME NEW d \in Device
  PROVE  WorkPartition(Medium[d].table) \in [sid : Nat, start : Nat]
  <1> DEFINE table == Medium[d].table
             fat == {i \in 1 .. 4 : table[i].sid \in Suitable}
  <1>1. table \in [1 .. 4 -> [sid : Nat, start : Nat]]
    BY MediumAssumption
  <1>2. CASE fat = {}
    BY <1>2 DEF WorkPartition
  <1>3. CASE fat # {}
    <2>1. \E i \in fat : \A j \in fat : j <= i
      BY <1>3, Z3
    <2>2. (CHOOSE i \in fat : \A j \in fat : j <= i) \in fat
      BY <2>1
    <2>3. table[CHOOSE i \in fat : \A j \in fat : j <= i] \in [sid : Nat, start : Nat]
      BY <1>1, <2>2
    <2> QED BY <1>3, <2>3, Zenon DEF WorkPartition
  <1> QED BY <1>2, <1>3

(* The record in use is that of the medium it was read from, and once      *)
(* nobody is between the two reads of a mount, partBpb is what the driver  *)
(* makes of the boot sector there, after some other partBpb.               *)
RecordInv == record \in [sid : Nat, start : Nat] /\ RecordOfMedium

NobodyBetweenReads == \A c \in Client : op[c] # "bootSector"

BpbInv ==
  NobodyBetweenReads /\ bootOf # NoDevice /\ record.start \in DOMAIN Medium[bootOf].boot =>
    \E old : partBpb = PartitionBootSector(Medium[bootOf].boot[record.start], record.start, old)

VolumeInv == TypeOK /\ RecordInv /\ BpbInv
-----------------------------------------------------------------------------
LEMMA BpbType ==
  ASSUME NEW boot \in Boot, NEW start \in Int, NEW old
  PROVE  PartitionBootSector(boot, start, old).fatType \in FatTypes
  <1> DEFINE type == DetermineFatType(Common(boot, start, old))
  <1>1. type \in FatTypes
    BY DEF DetermineFatType, TypeOf, FatTypes
  <1>2. PartitionBootSector(boot, start, old).fatType = type
    BY DEF PartitionBootSector, Common
  <1> QED BY <1>1, <1>2

(* A boot sector that can be read is one of some medium.                   *)
LEMMA BootsTyped ==
  ASSUME NEW d \in Device \union {NoDevice}, NEW s, NEW boot \in BootsOf(d, s)
  PROVE  boot \in Boot
  <1>1. CASE d # NoDevice /\ s \in DOMAIN Medium[d].boot
    BY <1>1, MediumAssumption DEF BootsOf
  <1>2. CASE ~ (d # NoDevice /\ s \in DOMAIN Medium[d].boot)
    BY <1>2, MediumAssumption DEF BootsOf
  <1> QED BY <1>1, <1>2

LEMMA VolumeInitInv == Init => VolumeInv
  <1> SUFFICES ASSUME Init PROVE VolumeInv
    OBVIOUS
  <1>1. TypeOK
    BY TypeInit DEF Init, TypeOK, NoBpb
  <1>2. RecordInv /\ BpbInv
    BY DEF Init, RecordInv, RecordOfMedium, BpbInv
  <1> QED BY <1>1, <1>2 DEF VolumeInv

(* Steps that read nothing from the medium.                                *)
LEMMA UnreadInv ==
  ASSUME VolumeInv, [MassNext]_massVars, UNCHANGED volumeVars,
         mounted' \in BOOLEAN, dirty' \in BOOLEAN,
         file' \in [Client -> Device \union {NoDevice}],
         op' \in [Client -> {"none", "getStatus", "initDriver", "bootSector", "checked"}],
         reading' \in [Client -> plugged' \union {NoDevice}],
         \A c \in Client : op[c] = "bootSector" => op'[c] = "bootSector"
  PROVE  VolumeInv'
  <1>1. TypeOK'
    BY TypeStep DEF VolumeInv, TypeOK, volumeVars
  <1>2. RecordInv' /\ BpbInv'
    BY DEF VolumeInv, volumeVars, RecordInv, RecordOfMedium, BpbInv, NobodyBetweenReads
  <1> QED BY <1>1, <1>2 DEF VolumeInv

LEMMA TableReadInv ==
  ASSUME VolumeInv, NEW c \in Client, ReadPartitionTable(c)
  PROVE  VolumeInv'
  <1> USE DEF ReadPartitionTable
  <1>1. /\ UNCHANGED massVars /\ reading[c] \in Device \union {NoDevice}
        /\ op \in [Client -> {"none", "getStatus", "initDriver", "bootSector", "checked"}]
        /\ reading \in [Client -> plugged \union {NoDevice}] /\ UNCHANGED plugged
    BY DEF VolumeInv, TypeOK, MassTypeOK, massVars, devVars
  <1>2. TypeOK'
    <2>1. reading' \in [Client -> plugged' \union {NoDevice}]
      BY <1>1, ReadTyped
    <2>2. MassTypeOK'
      BY <1>1, TypeStep DEF VolumeInv, TypeOK
    <2> QED BY <1>1, <2>1, <2>2 DEF VolumeInv, TypeOK
  <1>3. RecordInv'
    <2>1. PICK d \in Device : /\ reading[c] # NoDevice => d = reading[c]
                              /\ record' = WorkPartition(Medium[d].table)
      BY <1>1 DEF TablesOf
    <2> QED BY <2>1, RecordTyped DEF RecordInv, RecordOfMedium
  <1>4. BpbInv'
    BY <1>1 DEF BpbInv, NobodyBetweenReads
  <1> QED BY <1>2, <1>3, <1>4 DEF VolumeInv

LEMMA BootReadInv ==
  ASSUME VolumeInv, NEW c \in Client, ReadBootSector(c)
  PROVE  VolumeInv'
  <1> USE DEF ReadBootSector
  <1>1. /\ UNCHANGED massVars
        /\ bootOf' \in Device \union {NoDevice}
        /\ op \in [Client -> {"none", "getStatus", "initDriver", "bootSector", "checked"}]
        /\ reading \in [Client -> plugged \union {NoDevice}] /\ UNCHANGED plugged
        /\ record.start \in Int
    BY DEF VolumeInv, TypeOK, MassTypeOK, RecordInv, massVars, devVars
  <1>2. PICK boot \in BootsOf(bootOf', record.start) :
          partBpb' = PartitionBootSector(boot, record.start, partBpb)
    OBVIOUS
  <1>3. partBpb'.fatType \in FatTypes
    BY <1>1, <1>2, BootsTyped, BpbType
  <1>4. TypeOK'
    <2>1. reading' \in [Client -> plugged' \union {NoDevice}]
      BY <1>1, ReadTyped
    <2>2. MassTypeOK'
      BY <1>1, TypeStep DEF VolumeInv, TypeOK
    <2> QED BY <1>1, <1>3, <2>1, <2>2 DEF VolumeInv, TypeOK
  <1>5. RecordInv'
    BY DEF VolumeInv, RecordInv, RecordOfMedium
  <1>6. BpbInv'
    <2> SUFFICES ASSUME bootOf' # NoDevice, record.start \in DOMAIN Medium[bootOf'].boot
                 PROVE  \E old : partBpb' = PartitionBootSector(Medium[bootOf'].boot[record.start],
                                                               record.start, old)
      BY DEF BpbInv
    <2>1. boot = Medium[bootOf'].boot[record.start]
      BY <1>2 DEF BootsOf
    <2> QED BY <1>2, <2>1
  <1> QED BY <1>4, <1>5, <1>6 DEF VolumeInv

LEMMA VolumeNextInv ==
  ASSUME VolumeInv, [Next]_vars
  PROVE  VolumeInv'
  <1>1. CASE Plugging \/ UNCHANGED vars
    <2>1. reading' \in [Client -> plugged' \union {NoDevice}]
      BY <1>1 DEF Plugging, vars, mountVars, massVars, devVars, VolumeInv, TypeOK
    <2>2. UNCHANGED <<mounted, volumeVars, dirty, file, op>>
      BY <1>1 DEF Plugging, vars, mountVars
    <2> QED BY <2>1, <2>2, DeviceStep, UnreadInv DEF VolumeInv, TypeOK
  <1>2. ASSUME NEW c \in Client,
               \/ StartCheck(c) \/ NotReady(c) \/ AlreadyMounted(c) \/ InitDriver(c)
               \/ Open(c) \/ Look(c) \/ Write(c) \/ Close(c)
        PROVE  VolumeInv'
    <2>1. /\ UNCHANGED volumeVars
          /\ mounted' \in {mounted, FALSE} /\ dirty' \in {dirty, TRUE, FALSE}
      BY <1>2 DEF StartCheck, NotReady, AlreadyMounted, InitDriver, Open, Look, Write, Close
    <2>2. \/ UNCHANGED op
          \/ /\ op[c] # "bootSector"
             /\ \E at \in {"none", "getStatus", "initDriver", "checked"} :
                  op' = [op EXCEPT ![c] = at]
      BY <1>2 DEF StartCheck, NotReady, AlreadyMounted, InitDriver, Answered,
                  Open, Look, Write, Close
    <2>3. \E d \in {file[c], metaOf, NoDevice} : file' = [file EXCEPT ![c] = d]
      BY <1>2 DEF StartCheck, NotReady, AlreadyMounted, InitDriver, Open, Look, Write, Close,
                  VolumeInv, TypeOK
    <2>4. /\ op' \in [Client -> {"none", "getStatus", "initDriver", "bootSector", "checked"}]
          /\ \A b \in Client : op[b] = "bootSector" => op'[b] = "bootSector"
          /\ file' \in [Client -> Device \union {NoDevice}]
          /\ mounted' \in BOOLEAN /\ dirty' \in BOOLEAN
      <3>1. /\ op \in [Client -> {"none", "getStatus", "initDriver", "bootSector", "checked"}]
            /\ file \in [Client -> Device \union {NoDevice}]
            /\ {file[c], metaOf, NoDevice} \subseteq Device \union {NoDevice}
            /\ mounted \in BOOLEAN /\ dirty \in BOOLEAN
        BY DEF VolumeInv, TypeOK
      <3>2. /\ op' \in [Client -> {"none", "getStatus", "initDriver", "bootSector", "checked"}]
            /\ \A b \in Client : op[b] = "bootSector" => op'[b] = "bootSector"
        BY <2>2, <3>1
      <3>3. file' \in [Client -> Device \union {NoDevice}]
        BY <2>3, <3>1
      <3> QED BY <2>1, <3>1, <3>2, <3>3
    <2>5. reading' \in [Client -> plugged' \union {NoDevice}]
      <3>1. Read(c) \/ ReadOver(c) \/ UNCHANGED reading
        BY <1>2 DEF StartCheck, NotReady, AlreadyMounted, InitDriver, Open, Look, Write, Close
      <3>2. UNCHANGED plugged
        BY <1>2 DEF StartCheck, Call, NotReady, AlreadyMounted, InitDriver, Open, Look, Write,
                    Close, massVars, devVars
      <3> QED BY <3>1, <3>2, ReadTyped DEF VolumeInv, TypeOK
    <2> QED BY <2>1, <2>4, <2>5, DeviceStep, UnreadInv
  <1>3. ASSUME NEW c \in Client, GetStatus(c) /\ UNCHANGED mountVars
        PROVE  VolumeInv'
    <2>1. UNCHANGED <<mounted, volumeVars, dirty, file, op, reading, plugged>>
      BY <1>3, GetStatusPlugs DEF mountVars
    <2> QED BY <2>1, DeviceStep, UnreadInv DEF VolumeInv, TypeOK
  <1> QED BY <1>1, <1>2, <1>3, TableReadInv, BootReadInv DEF Next, Check, vars

(* Type correctness of the mount.                                          *)
THEOREM MountTyped == Spec => []TypeOK
  <1>1. VolumeInv => TypeOK
    BY DEF VolumeInv
  <1> QED BY <1>1, VolumeInitInv, VolumeNextInv, PTL DEF Spec

LEMMA MountedVolume ==
  ASSUME Formatted, VolumeInv, NobodyBetweenReads
  PROVE  FatTypeRight /\ ClustersInVolume
  <1> SUFFICES ASSUME WholeMount, ~ NearLimit(MountedBoot)
               PROVE  /\ partBpb.fatType = TypeOf(DataClusters(MountedBoot))
                      /\ Cluster2Sector(partBpb, 2) = record.start + DataStart(MountedBoot)
                      /\ Cluster2Sector(partBpb, DataClusters(MountedBoot) + 2)
                           <= record.start + MountedBoot.sectorCount
    BY DEF FatTypeRight, ClustersInVolume
  <1>1. metaOf \in Device /\ bootOf = metaOf
    BY DEF WholeMount, VolumeInv, TypeOK
  <1>2. record = WorkPartition(Medium[metaOf].table) /\ record.start \in Int
    BY <1>1, DeviceAssumption DEF VolumeInv, RecordInv, RecordOfMedium
  <1>3. /\ record.start \in DOMAIN Medium[metaOf].boot
        /\ MountedBoot \in Boot /\ WellFormed(MountedBoot)
    BY <1>1, <1>2, MediumAssumption DEF Formatted, MountedBoot
  <1>4. PICK old : partBpb = PartitionBootSector(MountedBoot, record.start, old)
    BY <1>1, <1>3, DeviceAssumption DEF VolumeInv, BpbInv, MountedBoot
  <1> QED BY <1>2, <1>3, <1>4, BootSectorRight

(* On media that were formatted the driver takes the volume for what it is *)
(* and finds its clusters, whatever was mounted before, whatever is        *)
(* plugged and unplugged, and with any number of threads: while no thread  *)
(* is between its reads of the partition table and of the boot sector.     *)
THEOREM VolumesAreTakenRight ==
  ASSUME Formatted
  PROVE  Spec => [](NobodyBetweenReads => FatTypeRight /\ ClustersInVolume)
  <1>1. VolumeInv => (NobodyBetweenReads => FatTypeRight /\ ClustersInVolume)
    BY MountedVolume
  <1> QED BY <1>1, VolumeInitInv, VolumeNextInv, PTL DEF Spec
-----------------------------------------------------------------------------
(* One thread, as when only the RPC module uses the file system: while it  *)
(* mounts nothing is mounted.                                              *)
OneThread == \E c : Client = {c}

UnmountedMeanwhile == \A c \in Client : op[c] \in {"initDriver", "bootSector"} => ~ mounted

SoleInv == VolumeInv /\ UnmountedMeanwhile

LEMMA SoleNextInv ==
  ASSUME OneThread, SoleInv, [Next]_vars
  PROVE  SoleInv'
  <1>1. VolumeInv'
    BY VolumeNextInv DEF SoleInv
  <1>2. UnmountedMeanwhile'
    <2> USE DEF SoleInv, UnmountedMeanwhile
    <2>0. PICK c : Client = {c}
      BY DEF OneThread
    <2>1. op \in [Client -> {"none", "getStatus", "initDriver", "bootSector", "checked"}]
      BY DEF VolumeInv, TypeOK
    <2>2. CASE UNCHANGED mountVars \/ Plugging
      BY <2>2 DEF mountVars, Plugging
    <2>3. CASE StartCheck(c) \/ NotReady(c) \/ AlreadyMounted(c) \/ InitDriver(c)
      BY <2>0, <2>1, <2>3 DEF StartCheck, NotReady, AlreadyMounted, InitDriver
    <2>4. CASE ReadPartitionTable(c) \/ ReadBootSector(c)
      BY <2>0, <2>1, <2>4 DEF ReadPartitionTable, ReadBootSector
    <2>5. CASE Open(c) \/ Look(c) \/ Write(c) \/ Close(c)
      BY <2>0, <2>1, <2>5 DEF Open, Look, Write, Close
    <2> QED BY <2>0, <2>2, <2>3, <2>4, <2>5 DEF Next, Check, vars
  <1> QED BY <1>1, <1>2 DEF SoleInv

LEMMA SoleInitInv == Init => SoleInv
  BY VolumeInitInv DEF SoleInv, UnmountedMeanwhile, Init

LEMMA SoleVolume ==
  ASSUME OneThread, Formatted, SoleInv
  PROVE  FatTypeRight /\ ClustersInVolume
  <1>1. CASE NobodyBetweenReads
    BY <1>1, MountedVolume DEF SoleInv
  <1>2. CASE ~ NobodyBetweenReads
    <2>1. ~ mounted
      BY <1>2 DEF NobodyBetweenReads, SoleInv, UnmountedMeanwhile
    <2> QED BY <2>1 DEF FatTypeRight, ClustersInVolume, WholeMount
  <1> QED BY <1>1, <1>2

(* With one thread the driver never uses a volume with the wrong type of   *)
(* table, after no order of mounts and replugs.                            *)
THEOREM FatTypesAreRight ==
  ASSUME OneThread, Formatted
  PROVE  Spec => []FatTypeRight
  <1>1. SoleInv => FatTypeRight
    BY SoleVolume
  <1>2. SoleInv /\ [Next]_vars => SoleInv'
    BY SoleNextInv
  <1> QED BY <1>1, <1>2, SoleInitInv, PTL DEF Spec

(* Nor does it look for the clusters outside of their volume.              *)
THEOREM ClustersAreInVolume ==
  ASSUME OneThread, Formatted
  PROVE  Spec => []ClustersInVolume
  <1>1. SoleInv => ClustersInVolume
    BY SoleVolume
  <1>2. SoleInv /\ [Next]_vars => SoleInv'
    BY SoleNextInv
  <1> QED BY <1>1, <1>2, SoleInitInv, PTL DEF Spec
-----------------------------------------------------------------------------
(* What the one thread knows of a device that stays: an answer that it is  *)
(* ready is still true, a volume that is mounted is that of a ready device *)
(* and the next answer will say so; and where nothing is mounted nothing   *)
(* is open, and nothing is in the cache only.                              *)
ThreadKnows(c) ==
  /\ Ready \subseteq ret[c] => Ready \subseteq status
  /\ DISCONNECTED \notin ret[c]
  /\ op[c] \in {"initDriver", "bootSector"} => Ready \subseteq status
  /\ mounted => Ready \subseteq status /\ pc[c] \notin SettingUp
  /\ mounted /\ op[c] = "getStatus" /\ pc[c] = "idle" => Ready \subseteq ret[c]
  /\ ~ mounted => ~ dirty /\ file[c] = NoDevice /\ op[c] # "checked"

DropInv ==
  /\ TypeOK
  /\ \A c \in Client : /\ op[c] # "getStatus" => pc[c] = "idle"
                       /\ FirstDevice => ThreadKnows(c)

(* Until a device leaves the flags are only added.                         *)
LEMMA StatusGrows ==
  ASSUME [MassNext]_massVars, FirstDevice'
  PROVE  FirstDevice /\ status \subseteq status'
  <1>1. CASE UNCHANGED massVars \/ SignalReady
    BY <1>1 DEF massVars, SignalReady, devVars, FirstDevice
  <1>2. ASSUME NEW d \in Device, Plug(d) \/ Unplug(d) PROVE status \subseteq status'
    BY <1>2, ReleaseSaysSo DEF Plug, Connect, Unplug
  <1>3. ASSUME NEW c \in Client, Call(c) \/ GetStatus(c) PROVE status \subseteq status'
    <2>1. CASE InterfaceSet(c) \/ WarmupFails(c)
      BY <2>1, ReleaseSaysSo DEF InterfaceSet, WarmupFails
    <2>2. CASE WarmupOK(c) \/ WarmupNoCapacity(c)
      BY <2>2 DEF WarmupOK, WarmupNoCapacity
    <2>3. CASE UNCHANGED devVars \/ Configured(c)
      BY <2>3 DEF devVars, Configured
    <2> QED BY <1>3, <2>1, <2>2, <2>3 DEF GetStatus, Call, WaitReady, PollAgain, PollTimeout,
                                          AlreadyConfigured, Configure, NextTransfer, Inquired,
                                          Prepared
  <1> QED BY <1>1, <1>2, <1>3 DEF MassNext, Bus, FirstDevice

LEMMA DropInitInv == Init => DropInv
  <1> SUFFICES ASSUME Init PROVE DropInv
    OBVIOUS
  <1>1. TypeOK
    BY VolumeInitInv DEF VolumeInv
  <1>2. \A c \in Client : /\ op[c] = "none" /\ pc[c] = "idle" /\ ret[c] = Error
                         /\ file[c] = NoDevice /\ ~ mounted /\ ~ dirty
    BY DEF Init, MassInit
  <1>3. ~ (Ready \subseteq Error) /\ DISCONNECTED \notin Error
    BY DEF Ready, Error, DETECTED, DISCONNECTED
  <1> QED BY <1>1, <1>2, <1>3 DEF DropInv, ThreadKnows

(* The device and the thread in mass_stor_getStatus move on.               *)
LEMMA StatusInv ==
  ASSUME NEW c, Client = {c}, DropInv, [MassNext]_massVars, UNCHANGED <<mounted, dirty, file>>,
         \/ Plugging
         \/ StartCheck(c)
         \/ op[c] = "getStatus" /\ UNCHANGED op /\ GetStatus(c)
         \/ UNCHANGED vars
  PROVE  /\ op'[c] # "getStatus" => pc'[c] = "idle"
         /\ FirstDevice' => ThreadKnows(c)'
  <1>1. /\ pc \in [Client -> PCs] /\ ret \in [Client -> (SUBSET Flags) \union {Error}]
        /\ op \in [Client -> {"none", "getStatus", "initDriver", "bootSector", "checked"}]
        /\ status \subseteq Flags /\ mounted \in BOOLEAN
        /\ c \in Client
        /\ op[c] # "getStatus" => pc[c] = "idle"
    BY DEF DropInv, TypeOK, MassTypeOK
  <1>2. ASSUME FirstDevice' PROVE /\ status \subseteq status' /\ FirstDevice /\ ThreadKnows(c)
    BY <1>1, <1>2, StatusGrows DEF DropInv
  <1>3. CASE Plugging \/ UNCHANGED vars
    <2>1. UNCHANGED <<pc, ret, op>>
      BY <1>3 DEF Plugging, Bus, SignalReady, Plug, Unplug, clientVars, vars, massVars, mountVars
    <2> QED BY <1>1, <1>2, <2>1 DEF ThreadKnows
  <1>4. CASE StartCheck(c)
    <2>1. /\ ret'[c] = Error /\ pc'[c] \in {"poll", "waitReady"} /\ op'[c] = "getStatus"
      BY <1>1, <1>4 DEF StartCheck, Call
    <2>2. ~ (Ready \subseteq Error) /\ DISCONNECTED \notin Error
      BY DEF Ready, Error, DETECTED, DISCONNECTED
    <2>3. pc'[c] \notin SettingUp /\ pc'[c] # "idle"
      BY <2>1 DEF SettingUp, Exchanges
    <2> QED BY <1>1, <1>2, <2>1, <2>2, <2>3 DEF ThreadKnows
  <1>5. CASE op[c] = "getStatus" /\ UNCHANGED op /\ GetStatus(c)
    <2>1. SUFFICES ASSUME FirstDevice' PROVE ThreadKnows(c)'
      BY <1>5
    <2>2. status \subseteq status' /\ FirstDevice /\ ThreadKnows(c)
      BY <1>2, <2>1
    <2>3. ASSUME UNCHANGED ret, pc'[c] # "idle",
                 mounted => pc'[c] \notin SettingUp
          PROVE  ThreadKnows(c)'
      BY <1>5, <2>2, <2>3 DEF ThreadKnows
    <2>4. CASE WaitReady(c) \/ PollAgain(c)
      <3>1. UNCHANGED ret /\ pc'[c] = "poll"
        BY <1>1, <2>4 DEF WaitReady, PollAgain
      <3> QED BY <2>3, <3>1 DEF SettingUp, Exchanges
    <2>5. CASE Configure(c) \/ Configured(c)
      <3>1. UNCHANGED ret /\ pc'[c] \in SettingUp /\ ~ mounted
        BY <1>1, <2>2, <2>5 DEF Configure, Configured, SettingUp, ThreadKnows, Ready
      <3> QED BY <2>3, <3>1 DEF SettingUp, Exchanges
    <2>6. CASE InterfaceSet(c) \/ NextTransfer(c) \/ Inquired(c) \/ Prepared(c)
      <3>1. UNCHANGED ret /\ pc'[c] \in Exchanges
        BY <1>1, <2>1, <2>6, ReleaseSaysSo
        DEF InterfaceSet, NextTransfer, Inquired, Prepared, Exchange, Exchanges
      <3>2. pc[c] \in SettingUp
        BY <2>6 DEF InterfaceSet, NextTransfer, Inquired, Prepared, SettingUp, Exchanges
      <3>3. ~ mounted
        BY <2>2, <3>2 DEF ThreadKnows
      <3> QED BY <2>3, <3>1, <3>3 DEF Exchanges
    <2>7. CASE PollTimeout(c)
      <3>1. Return(c, Error) /\ ~ mounted
        BY <2>2, <2>7 DEF PollTimeout, ThreadKnows, Ready
      <3>2. ret'[c] = Error /\ pc'[c] = "idle"
        BY <1>1, <3>1 DEF Return
      <3>3. ~ (Ready \subseteq Error) /\ DISCONNECTED \notin Error
        BY DEF Ready, Error, DETECTED, DISCONNECTED
      <3> QED BY <1>5, <2>2, <3>1, <3>2, <3>3 DEF ThreadKnows
    <2>8. CASE AlreadyConfigured(c) \/ WarmupOK(c) \/ WarmupNoCapacity(c)
      <3>1. Return(c, status) /\ UNCHANGED status
        BY <2>8 DEF AlreadyConfigured, WarmupOK, WarmupNoCapacity, devVars
      <3>2. ret'[c] = status /\ pc'[c] = "idle"
        BY <1>1, <3>1 DEF Return
      <3> QED BY <1>5, <2>2, <3>1, <3>2 DEF ThreadKnows, FirstDevice, SettingUp, Exchanges
    <2>9. CASE WarmupFails(c)
      BY <2>1, <2>9, ReleaseSaysSo DEF WarmupFails
    <2> QED BY <1>5, <2>4, <2>5, <2>6, <2>7, <2>8, <2>9 DEF GetStatus
  <1> QED BY <1>3, <1>4, <1>5

(* The thread does the rest of an operation: the device is as it was.      *)
LEMMA WorkInv ==
  ASSUME NEW c, Client = {c}, DropInv,
         \/ NotReady(c) \/ AlreadyMounted(c) \/ InitDriver(c)
         \/ ReadPartitionTable(c) \/ ReadBootSector(c)
         \/ Open(c) \/ Look(c) \/ Write(c) \/ Close(c)
  PROVE  /\ op'[c] # "getStatus" => pc'[c] = "idle"
         /\ FirstDevice' => ThreadKnows(c)'
  <1>1. UNCHANGED massVars
    BY DEF NotReady, AlreadyMounted, InitDriver, ReadPartitionTable, ReadBootSector,
           Open, Look, Write, Close
  <1>2. UNCHANGED <<pc, ret, status>>
    BY <1>1 DEF massVars, devVars, clientVars
  <1>3. /\ op \in [Client -> {"none", "getStatus", "initDriver", "bootSector", "checked"}]
        /\ file \in [Client -> Device \union {NoDevice}]
        /\ c \in Client
        /\ op[c] # "getStatus" => pc[c] = "idle"
        /\ FirstDevice => ThreadKnows(c)
    BY DEF DropInv, TypeOK
  <1>4. pc[c] = "idle"
    BY <1>3 DEF NotReady, AlreadyMounted, InitDriver, Answered, ReadPartitionTable,
                ReadBootSector, Open, Look, Write, Close
  <1>5. SUFFICES ASSUME FirstDevice PROVE ThreadKnows(c)'
    BY <1>2, <1>4 DEF FirstDevice
  <1> USE <1>2, <1>3, <1>4, <1>5 DEF ThreadKnows, SettingUp, Exchanges
  <1>6. CASE NotReady(c)
    <2>1. ~ mounted
      BY <1>6 DEF NotReady, Answered
    <2> QED BY <1>6, <2>1 DEF NotReady
  <1>7. CASE AlreadyMounted(c)
    BY <1>7 DEF AlreadyMounted
  <1>8. CASE InitDriver(c)
    BY <1>8 DEF InitDriver
  <1>9. CASE ReadPartitionTable(c) \/ ReadBootSector(c)
    BY <1>9 DEF ReadPartitionTable, ReadBootSector
  <1>10. CASE Open(c) \/ Look(c)
    BY <1>10 DEF Open, Look
  <1>11. CASE Write(c) \/ Close(c)
    BY <1>11 DEF Write, Close
  <1> QED BY <1>6, <1>7, <1>8, <1>9, <1>10, <1>11

LEMMA DropNextInv ==
  ASSUME OneThread, DropInv, TypeOK', [Next]_vars
  PROVE  DropInv'
  <1>0. PICK c : Client = {c}
    BY DEF OneThread
  <1>1. /\ op'[c] # "getStatus" => pc'[c] = "idle"
        /\ FirstDevice' => ThreadKnows(c)'
    <2>1. CASE Plugging \/ StartCheck(c) \/ UNCHANGED vars
      BY <1>0, <2>1, DeviceStep, StatusInv DEF Plugging, StartCheck, mountVars, vars
    <2>2. CASE GetStatus(c) /\ UNCHANGED mountVars
      <3>1. pc[c] # "idle"
        BY <2>2 DEF GetStatus, WaitReady, PollAgain, PollTimeout, AlreadyConfigured,
                    Configure, Configured, InterfaceSet, NextTransfer, Exchanges, Inquired, Prepared,
                    WarmupOK, WarmupNoCapacity, WarmupFails
      <3>2. op[c] = "getStatus"
        BY <1>0, <3>1 DEF DropInv
      <3> QED BY <1>0, <2>2, <3>2, DeviceStep, StatusInv DEF mountVars
    <2> QED BY <1>0, <2>1, <2>2, WorkInv DEF Next, Check
  <1> QED BY <1>0, <1>1 DEF DropInv

(* With one thread a mount drops what is in the cache only after a device  *)
(* went away: until then the answer of mass_stor_getStatus never makes the *)
(* driver give up a mount, whatever order plugs and calls come in.         *)
THEOREM NothingIsDropped ==
  ASSUME OneThread
  PROVE  Spec => DropsOnlyAfterDisconnect
  <1>1. DropInv /\ [Next]_vars =>
          [dirty /\ ~ dirty' => DISCONNECTED \in status \/ \E c \in Client : Close(c)]_vars
    <2> SUFFICES ASSUME DropInv, Next, dirty, ~ dirty', FirstDevice
                 PROVE  \E c \in Client : Close(c)
      BY DEF vars, mountVars, FirstDevice
    <2>1. PICK c \in Client : InitDriver(c) \/ Close(c)
      BY DEF Next, Check, Plugging, StartCheck, NotReady, AlreadyMounted, ReadPartitionTable,
             ReadBootSector, Open, Look, Write, mountVars
    <2>2. ~ InitDriver(c)
      BY DEF InitDriver, DropInv, ThreadKnows
    <2> QED BY <2>1, <2>2
  <1>2. VolumeInv /\ VolumeInv' => TypeOK'
    BY DEF VolumeInv
  <1>3. DropInv /\ TypeOK' /\ [Next]_vars => DropInv'
    BY DropNextInv
  <1> QED BY <1>1, <1>2, <1>3, DropInitInv, VolumeInitInv, VolumeNextInv, PTL
          DEF Spec, DropsOnlyAfterDisconnect
=============================================================================
