--------------------------------- MODULE Mount ---------------------------------
(***************************************************************************)
(* Mounting (fat_mountCheck, fat_initDriver) over the device of            *)
(* MassDevice, with what depends on the mount: the cached sectors and the  *)
(* open files.  What the mount reads is in Volume.                         *)
(*                                                                         *)
(* Operations on names start with fat_mountCheck: they ask for the status  *)
(* of the device and mount it, again if it went away in the meantime.      *)
(* Operations on an open file (fs_write, fs_close) do not.                 *)
(***************************************************************************)
EXTENDS MassDevice, Volume

CONSTANT Medium   \* of each device: partition table, and boot sector at each start

ASSUME MediumAssumption ==
  \A d \in Device :
    /\ Medium[d].table \in [1 .. 4 -> [sid : Nat, start : Nat]]
    /\ \A s \in DOMAIN Medium[d].boot : Medium[d].boot[s] \in Boot

(* Media that were formatted: at the start of the partition that is used   *)
(* there is a boot sector that says what it means.                         *)
Formatted ==
  \A d \in Device : LET boots == Medium[d].boot
                         start == WorkPartition(Medium[d].table).start
                     IN  start \in DOMAIN boots /\ WellFormed(boots[start])

VARIABLES
  mounted,     \* mounted
  metaOf,      \* device that partTable was read from
  record,      \* partTable.record[workPartition]
  bootOf,      \* device that partBpb was read from
  partBpb,     \* partBpb
  dirty,       \* the cache holds sectors that are not on the device
  file,        \* device on which the open file of each client was found
  op,          \* each client in an operation on a name
  reading      \* device whose answer the read of such an operation waits for

volumeVars == <<metaOf, record, bootOf, partBpb>>
mountVars == <<mounted, volumeVars, dirty, file, op, reading>>
vars == <<massVars, mountVars>>

TypeOK ==
  /\ MassTypeOK
  /\ mounted \in BOOLEAN
  /\ {metaOf, bootOf} \subseteq Device \union {NoDevice}
  /\ partBpb.fatType \in {0} \union FatTypes
  /\ dirty \in BOOLEAN
  /\ file \in [Client -> Device \union {NoDevice}]
  /\ op \in [Client -> {"none", "getStatus", "initDriver", "bootSector", "checked"}]
  /\ reading \in [Client -> plugged \union {NoDevice}]
-----------------------------------------------------------------------------
(* A read goes to the device whose endpoints are there when it begins.     *)
Read(c) == reading' = [reading EXCEPT ![c] = Submitted(bulkEpI)]
ReadOver(c) == reading' = [reading EXCEPT ![c] = NoDevice]

StartCheck(c) ==
  /\ op[c] = "none"
  /\ Call(c)
  /\ op' = [op EXCEPT ![c] = "getStatus"]
  /\ UNCHANGED <<mounted, volumeVars, dirty, file, reading>>

Answered(c) == op[c] = "getStatus" /\ pc[c] = "idle"

(* Mutant: only a negative status is a failure.                            *)
NotReadyErrorOnly(c) ==
  /\ Answered(c)
  /\ ret[c] = Error
  /\ mounted' = FALSE
  /\ op' = [op EXCEPT ![c] = "none"]
  /\ UNCHANGED <<massVars, volumeVars, dirty, file, reading>>

(* A negative status, or a device that is not ready: unmount and fail.     *)
NotReady(c) ==
  /\ Answered(c)
  /\ ~ (Ready \subseteq ret[c])
  /\ mounted' = FALSE
  /\ op' = [op EXCEPT ![c] = "none"]
  /\ UNCHANGED <<massVars, volumeVars, dirty, file, reading>>

AlreadyMounted(c) ==
  /\ Answered(c)
  /\ Ready \subseteq ret[c] /\ DISCONNECTED \notin ret[c]
  /\ mounted
  /\ op' = [op EXCEPT ![c] = "checked"]
  /\ Read(c)
  /\ UNCHANGED <<massVars, mounted, volumeVars, dirty, file>>

(* Mutant: every operation on a name mounts again.                         *)
InitDriverAlways(c) ==
  /\ Answered(c)
  /\ Ready \subseteq ret[c]
  /\ mounted' = FALSE
  /\ dirty' = FALSE
  /\ op' = [op EXCEPT ![c] = "initDriver"]
  /\ Read(c)
  /\ UNCHANGED <<massVars, volumeVars, file>>

(* fat_initDriver up to its first read: scache_init empties the cache      *)
(* without writing it.                                                     *)
InitDriver(c) ==
  /\ Answered(c)
  /\ Ready \subseteq ret[c]
  /\ DISCONNECTED \in ret[c] \/ ~ mounted
  /\ mounted' = FALSE
  /\ dirty' = FALSE
  /\ op' = [op EXCEPT ![c] = "initDriver"]
  /\ Read(c)
  /\ UNCHANGED <<massVars, volumeVars, file>>

(* What a read can give: the partition table of the device, its boot       *)
(* sector at s.  A read never reports an error: where no device answered,  *)
(* and where no boot sector is, any of the media will do for what is in    *)
(* the buffer.                                                             *)
TablesOf(d) == {Medium[e].table : e \in IF d = NoDevice THEN Device ELSE {d}}

BootsOf(d, s) ==
  IF d # NoDevice /\ s \in DOMAIN Medium[d].boot THEN {Medium[d].boot[s]}
  ELSE UNION {{Medium[e].boot[r] : r \in DOMAIN Medium[e].boot} : e \in Device}

(* fat_getPartitionTable in fat_initDriver; the boot sector is read next.  *)
ReadPartitionTable(c) ==
  /\ op[c] = "initDriver"
  /\ metaOf' = reading[c]
  /\ \E table \in TablesOf(reading[c]) : record' = WorkPartition(table)
  /\ op' = [op EXCEPT ![c] = "bootSector"]
  /\ IF record'.start = 0 THEN ReadOver(c) ELSE Read(c)
  /\ UNCHANGED <<massVars, mounted, bootOf, partBpb, dirty, file>>

(* fat_getPartitionBootSector; sector 0 is in the cache already.  The rest *)
(* of the operation reads on.                                              *)
ReadBootSector(c) ==
  /\ op[c] = "bootSector"
  /\ bootOf' = IF record.start = 0 THEN metaOf ELSE reading[c]
  /\ \E boot \in BootsOf(bootOf', record.start) :
       partBpb' = PartitionBootSector(boot, record.start, partBpb)
  /\ mounted' = TRUE
  /\ op' = [op EXCEPT ![c] = "checked"]
  /\ Read(c)
  /\ UNCHANGED <<massVars, metaOf, record, dirty, file>>

(* The rest of fs_open: the file is found on the mounted medium.           *)
Open(c) ==
  /\ op[c] = "checked" /\ file[c] = NoDevice
  /\ file' = [file EXCEPT ![c] = metaOf]
  /\ op' = [op EXCEPT ![c] = "none"]
  /\ ReadOver(c)
  /\ UNCHANGED <<massVars, mounted, volumeVars, dirty>>

(* The rest of an operation on a name that opens nothing (fs_getstat).     *)
Look(c) ==
  /\ op[c] = "checked"
  /\ op' = [op EXCEPT ![c] = "none"]
  /\ ReadOver(c)
  /\ UNCHANGED <<massVars, mounted, volumeVars, dirty, file>>

(* fs_write: the clusters of the file are changed in the cache.            *)
Write(c) ==
  /\ op[c] = "none" /\ file[c] # NoDevice
  /\ dirty' = TRUE
  /\ UNCHANGED <<massVars, mounted, volumeVars, file, op, reading>>

(* fs_close flushes the cache.                                             *)
Close(c) ==
  /\ op[c] = "none" /\ file[c] # NoDevice
  /\ file' = [file EXCEPT ![c] = NoDevice]
  /\ dirty' = FALSE
  /\ UNCHANGED <<massVars, mounted, volumeVars, op, reading>>

Check(c) == \/ GetStatus(c) /\ UNCHANGED mountVars
            \/ NotReady(c) \/ AlreadyMounted(c) \/ InitDriver(c)
            \/ ReadPartitionTable(c) \/ ReadBootSector(c)

(* The reads from a device that is unplugged are over, as its transfers    *)
(* are.                                                                    *)
Plugging ==
  /\ Bus
  /\ reading' = [c \in Client |-> IF reading[c] \in plugged' THEN reading[c] ELSE NoDevice]
  /\ UNCHANGED <<mounted, volumeVars, dirty, file, op>>

Next ==
  \/ Plugging
  \/ \E c \in Client : \/ StartCheck(c) \/ Check(c)
                       \/ Open(c) \/ Look(c) \/ Write(c) \/ Close(c)

Init ==
  /\ MassInit
  /\ mounted = FALSE /\ dirty = FALSE
  /\ metaOf = NoDevice /\ record = [sid |-> 0, start |-> 0]
  /\ bootOf = NoDevice /\ partBpb = NoBpb
  /\ file = [c \in Client |-> NoDevice]
  /\ op = [c \in Client |-> "none"]
  /\ reading = [c \in Client |-> NoDevice]

(* As MassFairness: no read has a timeout either.                          *)
Waits(c, d) == d \in {target[c], reading[c]}

Fairness ==
  /\ WF_vars(SignalReady /\ UNCHANGED mountVars)
  /\ \A c \in Client : WF_vars(~ (\E d \in Device : Waits(c, d)) /\ (Check(c) \/ Look(c)))

Spec == Init /\ [][Next]_vars /\ Fairness
-----------------------------------------------------------------------------
(* A mount survives the medium it was made from only until the next check, *)
(* also if the medium was changed between the partition table and the boot *)
(* sector: the flag that makes fat_mountCheck mount again says so.         *)
StaleMountIsDetected ==
  mounted /\ DETECTED \in status /\ DISCONNECTED \notin status => metaOf = devId /\ bootOf = devId

(* The volume that is mounted, if all of it is from one medium.            *)
WholeMount == mounted /\ metaOf # NoDevice /\ bootOf = metaOf
MountedBoot == Medium[metaOf].boot[record.start]

(* Whatever was mounted before, the driver takes the volume for what it is *)
(* - the type decides how wide the entries of the table are - unless its   *)
(* clusters are a few short of a limit.                                    *)
FatTypeRight ==
  WholeMount /\ ~ NearLimit(MountedBoot) => partBpb.fatType = TypeOf(DataClusters(MountedBoot))

(* And it finds the data where they are: cluster 2 lies behind the table   *)
(* and the root directory, the last cluster inside the partition.          *)
ClustersInVolume ==
  WholeMount /\ ~ NearLimit(MountedBoot) =>
    /\ Cluster2Sector(partBpb, 2) = record.start + DataStart(MountedBoot)
    /\ Cluster2Sector(partBpb, DataClusters(MountedBoot) + 2)
         <= record.start + MountedBoot.sectorCount

(* Changes that are in the cache only are dropped by a mount only after a  *)
(* device went away; until then they leave the cache through a flush.      *)
DropsOnlyAfterDisconnect ==
  [][dirty /\ ~ dirty' => DISCONNECTED \in status \/ \E c \in Client : Close(c)]_vars

(* Every operation on a name ends, unless a device that stays plugged      *)
(* never answers one of its requests.                                      *)
ChecksReturn ==
  \A c \in Client : \/ []<>(op[c] = "none")
                    \/ \E d \in Device : <>[](d \in plugged /\ Waits(c, d))
=============================================================================
