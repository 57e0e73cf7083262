# Verification of the usb_mass driver

TLA+ models of the PS2 USB mass storage driver in this repository: the sector
cache, the bulk-only transport, the life of the device, mounting, cluster
chains and files, what survives a power cut, directory entries, short names
and directory listings. TLC checks them on small instances,
TLAPS proves for every size that the cache is a store of sectors, how threads
share the transport, the set-up of the device, that a stale mount is detected
and a volume taken for what it is, and that directories are sets of names.
`PROJECT.json` maps every definition to the lines it models and lists runs,
mutants, hazards, findings and theorems.

Contents: [the system](#1-the-system), [modules](#2-modules),
[runs](#3-runs), [fairness](#4-fairness), [proofs](#5-proofs),
[what the runs found](#6-what-the-runs-found),
[known deviations without a run](#7-known-deviations-without-a-run),
[what is not modelled](#8-what-is-not-modelled), [plan](#9-plan).

To run: `tlc -config SectorCache.cfg MCSectorCache.tla`, and
`tlapm SectorCacheProofs.tla` (and the other modules that end in `Proofs`).

## 1. The system

```
 EE program -- RPC --> usb_mass.c --+
 IOP file I/O (ioman) ------------- fat_driver.c: fs_* --- fat_write.c
                                        |      |
                                   sbuf, cbuf  |  clStack, deSec/deOfs
                                        scache.c (32 slots of 4096 bytes)
                                        |
                                   mass_stor.c: read/writeSector4096
                                        |
 usbd thread -- probe, connect, -- mass_device -- bulk-only transport -- device
                disconnect
```

Everything is static: one device, one mounted partition, one cache, one chain
buffer, one table of open files. Nothing is locked. Two threads come in from
above (file operations of the IOP, and the RPC server), one from below (the
usbd thread), and every USB transfer waits on a semaphore and lets the others
run.

| Component | State | Operations | Interacts with | Hard behaviour | What makes it correct |
|---|---|---|---|---|---|
| Sector cache, `scache.c` | `rec[]` (label, tax, dirty count), `sectorBuf`, `writeFlag`, `flushCounter` | read, alloc, write, flush, init, close | hands out pointers into its slots (`sbuf`); transfers of 4096 bytes | eviction under a pointer, failed transfers, flush short cuts, aliasing | one slot per sector; a dirty block reaches the device before its slot is reused; a flush leaves nothing; bounded loss |
| Bulk-only transport, `mass_stor.c` 248-728 | `returnCode`, `returnSize`, `residue`, tag; the device's own stage | command, data, status, clear halt, reset | device, usbd callbacks | two threads without a lock; stalls, short packets, phase errors, unplug in the middle | each thread and the device agree on the stage; a thread finds the result of its own transfer; every operation ends |
| Device life, `mass_stor.c` 754-1104 | `mass_device` (devId, endpoints, status), `Size_Sector`, `driver_ready` | connect, disconnect, release, getStatus (wait, poll, configure, warm up) | usbd thread, all clients | replug during set-up, two clients, release by a client | endpoints belong to the device and no bulk endpoint stays open; ready means set up; every call returns |
| Mount, `fat_driver.c` 910-936, 1042-1068 | `mounted`, `partTable`, `partBpb` | fat_mountCheck, fat_initDriver | device life, cache, open files | media swapped at any moment, also between two reads of a mount | a stale mount is detected; dirty sectors are dropped only when they must be |
| Partition table and boot sector, `fat_driver.c` 108-123, 329-451 | `workPartition`, `partBpb` | read the table, read the boot sector, type of the FAT, sector of a cluster | the mount | `fatType` of the volume before; limits of the types | the type and the places of the clusters are those of the volume |
| Cluster chains, `fat_driver.c` 134-330, `fat_write.c` 57-625 | the table on the device, `cbuf`, `lastChainCluster/Result`, `clStack`, `clStackLast` | read a chain, take a free cluster, append, delete | cache; all users of chains | stale buffers, buffers that are exactly full, no space | no shared, no lost cluster; what is on the stack is free |
| Files, `fat_driver.c` 544-908, 1096-1421, `fat_write.c` 1817-2135 | `fsRec[]`, `fsDir[]` (size, seek table, last cluster) | open, create, truncate, lseek, read, write, close, remove | chains, directory entries, cache | the copy in `fsDir` against the table; growth that fails; power cuts | the seek table is that of the chain; a transfer uses the clusters of its position; an open file stays; what was closed is on the medium |
| Directory entries, `fat_write.c` 1050-1805 | entries on the device, `deSec`, `deOfs`, `deIdx` | look, create, remove, mkdir, rmdir | chains, cache | fragmentation, stale places of an earlier scan | entries are whole, visible and unique; a call changes its own name only |
| Short names, `fat_write.c` 848-1043 | none | mask, sequence number | directory entries | numbers that collide | new short names are unique |
| Directory cursor, `fat_driver.c` 939-1040, 1484-1537 | `direntryCluster`, `direntryIndex`, the chain in `cbuf`; the entry read ahead of each open directory | first, next entry; fs_dopen, fs_dread, fs_dclose | both threads share it | two readers, changes while reading, a mount | an undisturbed listing gives every entry once; listings end |
| IOP module and RPC, `usb_mass.c` | the RPC buffers | one command at a time | as a client of the above | runs beside the file operations | - |
| EE stub, `mass_rpc.c` | its RPC buffer | lists directories | RPC | calls in the middle of other listings | - |
| Example, PC test build | - | - | - | - | - |

The hazards, each at its line and with the properties that would catch it, are
in `PROJECT.json`.

## 2. Modules

| Module | Models | State and actions |
|---|---|---|
| `BlockStore` | what the cache promises: sectors that keep what their user stored, and a medium that may lag behind | abstract; `content`, `medium`, `open` |
| `SectorCache` | all of `scache.c`, for one caller | variables have the names of the code; `cur`, `sbuf`, `filled` are the caller's pointer and whether it has changed the sector; one action per branch: `ReadHit`, `ReadMiss`, `AllocMiss`, `Fill` (the caller's memcpy), `WriteSector`, `FlushSectors`, `Close`, `CacheInit` |
| `SectorCacheProofs` | the TLAPS proofs about its records and pointers, about what is in its sectors, and that it implements `BlockStore` | - |
| `BulkOnly` | threads that move blocks, and their device | `pc` and `left` are the stage of each thread, `ended` the threads whose transfer an unplug ended, `returned` is `returnCode` and `returnSize`; `phase`, `serving`, `halted`, `verdict` are the device's; one action per outcome of a stage, and one for the thread that wakes up and looks at the result; operations begin, and devices come and go, at any moment |
| `BulkOnlyProofs` | the TLAPS proofs about it | - |
| `MassDevice` | probe to disconnect, and `mass_stor_getStatus` for several threads | a device is a model value (one insertion of one medium); each wait in the code ends a step, `target` is the device whose answer is waited for; the transfers of INQUIRY, of what nobody looks at (`prepare`), and of READ CAPACITY are a stage each, with up to `Transfers` more after the first; `openI`, `openO` are the bulk endpoints that were opened and not closed |
| `MassDeviceProofs` | the TLAPS proofs about it | - |
| `Volume` | the record, the boot sector, the type of the FAT, the sector of a cluster | operators |
| `Mount` | EXTENDS `MassDevice`, `Volume`: the mount check with its reads, and what depends on it | `metaOf`, `bootOf` are the devices that the table and the boot sector were read from, `record` and `partBpb` what was in them; `reading` is the device a read waits for; `dirty` says that the cache holds changes |
| `MountProofs` | EXTENDS `Mount`, `MassDeviceProofs`: the TLAPS proofs about the volume and mounting | - |
| `FatChain` | the file allocation table with `cbuf` and `clStack` | operators and sub-actions: `GetClusterChain`, `GetFreeCluster`, `Deleted`, ... |
| `FatFiles` | EXTENDS `FatChain`: file operations | `handle` is `fsRec` and `fsDir`; `task` the call under way: one buffer of a chain or one cluster per step; `Remount` is the mount of a medium with files open or not, `ChangeMedium` the one that happens in `Next` |
| `FatFilesProofs` | the TLAPS proofs about it and about `FatChain` | - |
| `PowerCut` | files over the write-back cache | `cached` is the volume as the driver sees it, `medium` as the device has it; a call is split where a block may be written in between; `StoreDirent`, `StoreFat`, `StoreData` are the blocks that reach the device, `PowerCut` starts again from the medium |
| `PowerCutProofs` | the TLAPS proofs about it | - |
| `DirNames` | what directories promise: sets of names that only the call that names them changes | abstract; `names`, `last` |
| `DirEntries` | directory entries, looking for, storing and removing them | `slots` are the entries of each directory, `deStack` is `deSec`/`deOfs`/`deIdx`; one action per call |
| `DirEntriesProofs` | the TLAPS proofs about it, and that it implements `DirNames` | - |
| `ShortNames` | numbers of short names | `number` of the file at each place; `Create` is the count over the records of `fat_fillDirentryInfo`, `Remove` |
| `DirListing` | the directory cursor and its readers | `cursorDir`, `cursorIndex` are `direntryCluster`, `direntryIndex`; `scan` is a call of `fat_getNextDirentry` between two sectors; `Store`, `Remove`, `UseFile`, `Mount` are what other threads do meanwhile |
| `DirListingProofs` | the TLAPS proofs about it | - |
| `MC...` | constants and definitions for TLC | - |

Abstractions that matter:

- **One caller** in the cache, in files, directories and `PowerCut`. In the
  transport, the device life and the directory cursor there are two.
- In `BulkOnly` reads and writes of all threads **overlap as they like**, as in
  the build of the Makefile (`WRITE_SUPPORT=1`). A command that arrives between
  the command and the data of a write is taken for that data: the device then
  has something it cannot use (`clashed`), and the data that follow stall both
  of its pipes.
- In `MassDevice` an **endpoint** is the device it belongs to; usbd refuses the
  endpoint of a device that is gone, as it does an endpoint of -1
  (`Submitted`). A transaction of the warm-up is seen at its bulk IN endpoint.
  Opening an endpoint may fail, so `Connect` may fail after it has opened the
  control endpoint and bulk OUT. The control endpoint is never closed, by
  `mass_stor_connect` or by `mass_stor_release`: the properties count bulk
  endpoints only. A transfer may fail in any stage, SET_CONFIGURATION
  included, and the code goes on.
- The loop around TEST UNIT READY (mass_stor.c 976-982) runs once:
  `usb_bulk_manage_status` returns 0 on every path, so its condition never
  holds. `BulkOnly` has the same function as `Return`.
- `Size_Sector` is `NoDevice` when READ CAPACITY got no answer: what it then
  holds was in the buffer before.
- In `FatFiles` a medium is changed only while **no file is open**
  (`ChangeMedium`), which is what the user has to see to; the code mounts with
  files open as well (`Remount`), and such a file then reads and writes its old
  clusters of the new medium.
- A cluster of a directory is one sector in `DirListing`, and the entries of
  long names are holes: the cursor counts short names and labels only. A chain
  that is not the one of the directory any more may lead to any sector.
- `Volume` counts in sectors; `BootsOf` gives any boot sector where the medium
  has none or no device is there, because a read never reports an error.
- `PowerCut` has **no calls after damage** (`sound`): a power cut in the middle
  of a call may leave an entry that leads to a free cluster or to a chain that
  is too short, and nothing in the driver repairs that. The run shows what
  holds up to that point and says for which media it can happen.
- In `ShortNames` every file has the same mask and one entry of a long name.
- The **device** of `BulkOnly` and the **usbd** callbacks are external, modelled
  from how `mass_stor.c` uses them. A transfer that the device does not answer
  does not complete until the device is unplugged.
- The **contents** of sectors are members of a small set in `SectorCache` and
  absent in `FatFiles`, where what counts is which cluster is used for which
  part of a file (`touched`).
- In `FatFiles` the files are in the root directory of a FAT12 or FAT16 volume
  and every file has its one cluster at least, as those that the driver creates
  do. The copies of the table are one function. Reads do not fail: with
  `mass_stor.c` below they never report an error (section 7). On the PS2
  `O_RDONLY`, `O_WRONLY` and `O_RDWR` are 1, 2 and 3, so `mode & O_RDWR` holds
  for every open file and a file can be opened once only; the model has that.
- In `DirEntries` names compare equal only with themselves (long names never
  equal the short name of another); clusters have room for the longest name
  (1 KB or more) and directories no more than `DIRENTRY_COUNT` entries. What
  happens beyond these is in section 7.
- **History variables**, which no guard reads: `trouble` (a request of the
  set-up failed, or the driver lost a device while a client was setting it
  up), `faulty` (the device stalled or cut a data stage short since it was
  plugged, was changed for another in the middle of an operation, or was
  recovered by one thread in the middle of an operation of another), `clashed`
  (it took a command for data), `ranOut` (a write found no free cluster),
  `passed` (the last status packet said so), `moved`, `last`, `touched`, `kept`
  (what a file held when it was closed), `truncated` (a chain was cut since the
  last flush), `record` (what an undisturbed listing has given). `sound` is one too, but bounds `PowerCut`.

## 3. Runs

Times on two cores. Every property of a passing run has a mutant of the code in
`PROJECT.json` that breaks it.

| Run | Bounds | What it shows |
|---|---|---|
| `cache` (90 s) | 2 slots of 2 sectors, 6 sectors, flush after 3, 2 contents | with a device that reports no errors the cache implements `BlockStore`; clean slots equal the device; fewer than `FlushTrigger` sectors can be lost; a flush is complete |
| `cache_faults` (115 s) | 3 slots of 2 sectors, 8 sectors, flush after 3, contents left out (`Junk` and the one member of `Data` are the same), transfers may fail, sectors may be allocated | labels, pointers and the flag stay sound: the inductive invariant of the proofs |
| `cache_alloc` (violation) | as `cache`, with allocation | section 6 |
| `device` (20 s) | 2 insertions, 2 threads, 2 rounds of polling, up to one more transfer in each stage of the warm-up | endpoints and flags agree, and no bulk endpoint stays open, also after a connect that failed; ready means set up unless a request failed or a device was lost meanwhile; a call returns unless a device stays plugged and never answers |
| `mount` (95 s) | 2 insertions, 1 thread, no further transfers; a FAT32 medium without a table, a FAT12 and a FAT16 volume on one with four records | a stale mount is detected, the table and the boot sector taken from two media too; type and places of the clusters are right; nothing is dropped before a device went away; checks end unless a device stays plugged and never answers |
| `transport` (110 s) | 2 threads that read and write, blocks of 3 packets, all verdicts, stalls, short data, unplugging and plugging at any moment | each thread is in step with the device and finds its own results until something stalls, is cut short, recovered or changed under an operation, or a command is taken for data; a passed command moved its data; operations end and leave the device ready for the next command; an unplug frees the threads |
| `files` (155 s) | 4 clusters, buffer of 2, stack of 2, 2 files, 2 slots, seek table of 2, size up to 3 clusters | chains are disjoint and complete, the seek table right, transfers use their clusters, calls end |
| `files_seek` (violation) | the same as `files`, size up to 4 | section 6 |
| `dirs` (70 s) | root of 6 entries with a label, a directory of up to 2 clusters of 4, names of 2, 2 and 3 entries | entries are whole, visible, unique; directories implement `DirNames` |
| `listing` (10 s) | 1 reader behind the RPC server, 1 open directory; a root with a label, a name and a hole, a directory with a hole and two names, each of 2 sectors of 2 entries; one name of the directory comes and goes | an undisturbed listing gives each name that stays once; listings end |
| `power_cut` (105 s) | 2 files of up to 2 clusters, 3 clusters, the table in 2 blocks, any number of power cuts | what was closed or removed is on the medium; files on it share nothing unless one was truncated |
| `short_names` (violation) | 2 bits for a number (`Radix` 4) instead of 6, 6 files | section 6 |

Why the bounds are enough to be of interest:

- `cache`: three blocks compete for two slots (in `cache_faults` four for
  three), so every eviction pattern occurs; two sectors in a block show aliasing within a slot; `CharMod` 4 is
  just above `FlushTrigger`, as 256 is above 16. `TaxBound` bounds the ageing
  values: a step that would exceed it is not taken. The code compares taxes
  only, so with two or three slots every order occurs within the bound.
- `transport`: three packets are what a short packet and a rest need; two
  threads can be in every pair of stages, a command that is taken for data
  included. A third would only wait like the second.
- `listing`: two sectors, so that the chain is looked up once; labels, holes,
  names and ends, names on both sides of the boundary between the sectors, and
  a directory that may be changed before, at and behind the cursor.
- `power_cut`: with three clusters for two files of two every allocation
  competes; entries of one chain lie in different blocks of the table
  (`FatBlock`), so any prefix of a change can be on the medium.
- `short_names`: the code's arithmetic is the same for every `Radix`; with 64
  the counterexample needs 65 files, 130 of 1024 records.
- `device`, `mount`: two insertions are what a swap needs; a third would repeat
  the second. The rounds of polling include the last one. A stage of the
  warm-up has up to two transfers, so its device may be changed between two of
  them; for `mount`, which looks at the answer only, it has one. `mount` has one
  thread: two have 13 million states, and `DropsOnlyAfterDisconnect` does not
  hold for them (section 7).
- `files`: a chain of 3 clusters is longer than the buffer of 2, so chains need
  one buffer, exactly one, and more than one. 4 clusters for two files make
  writes run out of space. At size 4 the seek table of two entries leads into
  the middle of a chain, and `files_seek` shows what then happens; at sizes up
  to 3 it cannot, so `UsesItsClusters` of `files` is about the other ways to
  use a wrong cluster.
- `dirs`: a name of 3 entries that goes and one of 2 that comes make a loose
  slot, one of 3 a tight one; 6 entries are too few for all names. The
  directory must be enlarged for a second name and cannot be for a third.
- Deadlock is checked in every run.

## 4. Fairness

- `MassSpec`, `Mount!Spec`: weak fairness of the driver's announcement and of
  each thread inside `mass_stor_getStatus` (and inside a check) while it does
  not wait for a device (`target`, and `reading` in `Mount`, are `NoDevice`).
  A thread that can run does, the polling delay ends, and what is submitted to
  a device that leaves ends with an error. An answer of a device that is there
  has no fairness: the driver waits without a timeout ("reading of CSW packet
  just freeze ps2", mass_stor.c 1011-1014). `CallsReturn` and `ChecksReturn`
  therefore except a device that stays plugged and never answers, and nothing
  else. Plugging, unplugging and new calls have no fairness.
- `BulkOnly!Spec`: weak fairness of each thread's steps, and strong fairness of
  sending its command: transfers that wait at an endpoint are served in their
  order, so the commands of the other thread do not pass it for ever. A step
  is enabled only when the device answers, so a wait for an answer that does not come is not
  forced to end; `OperationsEnd` says when that cannot happen and
  `UnplugFrees` what ends it.
- `DirListing!Spec`: weak fairness of a reader that goes on: a client that lists
  a directory asks for the next entry, and a sector that is asked for comes.
  New listings and changes have none; `ListingEnds` excepts only listings that
  are started again and again.
- `FatFiles!Spec`: weak fairness of the steps of a call under way.
- `SectorCache`, `DirEntries`, `PowerCut` and `ShortNames` state safety only.

## 5. Proofs

`SectorCacheProofs` proves for every number of slots, sectors and contents,
with or without failing transfers and allocation:

| Theorem | Says |
|---|---|
| `TypeCorrect` | `Spec => []TypeOK`; `flushCounter` stays below `FlushTrigger`, so the test for equality in the code is enough |
| `NoDuplicateSectors` | `Spec => []OneSlotPerSector` |
| `PointerStaysValid` | `Spec => []HeldIsCached` |
| `FlushShortcutSound` | `Spec => []FlagCoversDirty` |

Assumptions: `SizesAssumption` (sizes are positive, the device is a whole
number of blocks, a char counts further than `FLUSH_TRIGGER`) and
`FaultsAssumption` (three Booleans).

The invariant `IndInv` is `TypeOK`, `UniqueLabels` (two slots with one label
are one), `HeldLabel` (the label and offset under the caller's pointer are
those of its sector), `FilledIsHeld` and `FlagCoversDirty`. `OneSlotPerSector`
is not inductive: a slot holds a sector if the sector lies in its block, and a
miss relabels a slot with a block; only because labels are first sectors of
blocks (`LabelOfSector`: the label of a slot that holds `s` is `Aligned(s)`)
does a miss on `s` mean that no slot has the label that is about to be given
out (`MissIsNewLabel`). `HeldIsCached` needs the label under the pointer, not
only that there is a hit. One lemma per action carries the invariant over it;
`FlushStep` and `CountAccessStep` say once what the flush inside a read or
write does to records and device.

The second part of `SectorCacheProofs` is about contents, for every number of
slots, sectors and contents too:

| Theorem | If | Says |
|---|---|---|
| `CleanSlotsMatch` | `NoFaults` | `Spec => []CleanMatchesDisk` |
| `FewSectorsWait` | `NoFaults` | `Spec => []LossBounded` |
| `DirtyCountsBounded` | `NoFaults` | no `writeDirty` passes `flushCounter`: the char does not wrap to clean |
| `FlushesAreDurable` | `NoFaults` | `Spec => FlushMakesDurable` |
| `CacheIsStore` | `NoFaults` | `Spec => StoreSpec`: the refinement of `BlockStore` |
| `NoJunkWithoutAlloc` | reads succeed, no allocation, `Junk` is no content | `Spec => []DeviceHoldsOnlyData`, whatever writes fail |

`NoFaults` is `~ ReadMayFail`, `~ WriteMayFail` and `~ UsesAlloc`. Transfers of
`mass_stor.c` never report an error (section 7), so the first two hold for the
driver on the PS2, as opposed to the one on a disk image. Allocation is used
when a directory is enlarged (`fat_write.c` 1324, 2154), and the run
`cache_alloc` shows that the properties fail with it (section 6).

The invariant `ContentInv` adds to `IndInv` that a clean slot holds what the
device holds (`CleanSectors`), that no dirty count is above `flushCounter`
(`DirtyCountBounded`), and that no more sectors wait (`Waiting`: in a dirty
slot and not as on the device) than `flushCounter` says. `LossBounded` alone is
not inductive: a slot that is written out takes all its sectors off `Waiting`
and an access adds one at most, but only the access that counts may do so.
Everything the cache does by itself (ageing, eviction, flush) is `Transparent`:
what the caller sees of a sector (`View`) stays, and the device keeps what it
has or gets that. This is the step of `BlockStore` that ages or is a stutter.

`BulkOnlyProofs`, for any number of threads that read and write, any size of a
block and any set of verdicts (`TransportAssumption`):

| Theorem | Says |
|---|---|
| `ThreadsInStep` | `Spec => []InStep`: data and status reach the thread whose command the device took |
| `ResultsAreOwn` | `Spec => []OwnResult`: a thread finds its own result in `returnCode` |
| `PassedBlockMoved` | `Spec => []PassedIsMoved` |
| `ReadyAgain` | `Spec => []ReadyForNextCBW`: when all operations have ended the device waits for a command |

Nothing keeps operations apart: the theorems say that as long as the device does
not fail, is not changed in the middle of an operation and is not recovered
under one (`faulty`), the *first* thing that can go wrong is a command that
comes between the command and the data of a write (`clashed`). It does go wrong
then (section 7).

`InStep` is not inductive: it does not say that a second thread cannot be
behind its command too, nor that a device in its data stage has a thread that
will ask for the data. The invariant is `TypeOK`, `PassedIsMoved`,
`EndedWaited` (an unplug ends only transfers that were waited for),
`WholeBlocks` (a command asks for a whole block) and, while nothing has gone
wrong, no ended transfer, `InTurn` (each stage of a thread is a stage of the
device that serves it, the result in `returnCode` included) and `Engaged` (the
thread the device serves is in the stage the device is in, nothing is stalled,
a status that says passed follows a block that moved). Together they say that
at most one thread is behind its command.

`MassDeviceProofs`, for any number of devices, threads, rounds of polling and
transfers of a stage (`DeviceAssumption`):

| Theorem | Says |
|---|---|
| `TypeCorrect` | `MassSpec => []MassTypeOK` |
| `EndpointsAreTheDevices` | `MassSpec => []EndpointsMatchDevice`: the endpoints of a detected device are its own, and the bulk endpoints open are those, none after a disconnect or a connect that failed |
| `ReadyMeansSetUp` | `MassSpec => []ReadyIsSetUp`: a ready device has executed SET_CONFIGURATION and its block size is known, unless a request failed or a device was lost during the set-up |

The invariant adds to these `GoneIsNoticed` (without a device nothing is
configured, and whoever is still setting one up is in trouble: this is what lets
the next device start clean) and `SetupIsForDevice` (without trouble the request
on its way is addressed to the device that is there, which has executed those
before). The condition of `ReadyIsSetUp` cannot be dropped: a device is flagged
whatever became of its configuration (section 7).

`MountProofs` begins with `Volume`: `BootSectorRight`. For every boot sector that is `WellFormed`
and not `NearLimit`, wherever the partition starts and whatever was mounted
before, `fat_getPartitionBootSector` finds the type of the FAT that the number
of clusters gives, the place of cluster 2, and a last cluster that ends within
the partition. `WellFormed` is what every formatter writes: a FAT32 volume has
no size of a FAT16 table and no root directory of fixed size, others have no
size of a FAT32 table, and the number of clusters is that of the type.
`NearLimit` excepts volumes for which the code is wrong (section 7).

Then `Mount`, for any number of devices, media and threads, which may be in
`fat_mountCheck` at the same time:

| Theorem | If | Says |
|---|---|---|
| `StaleMountsAreDetected` | - | `Spec => []StaleMountIsDetected` |
| `MountTyped` | - | `Spec => []TypeOK` |
| `VolumesAreTakenRight` | `Formatted` | while no thread is between its reads of the table and of the boot sector, `FatTypeRight` and `ClustersInVolume` |
| `FatTypesAreRight` | `Formatted`, `OneThread` | `Spec => []FatTypeRight` |
| `ClustersAreInVolume` | `Formatted`, `OneThread` | `Spec => []ClustersInVolume` |
| `NothingIsDropped` | `OneThread` | `Spec => DropsOnlyAfterDisconnect` |

Every step of `Mount` is a step of `MassDevice` or leaves it alone
(`DeviceStep`), so its invariant carries over. For the stale mount: as long as
no device has left, an answer with a device is still true (`AnswersHold`), a
thread that mounts has a device and has read the table from it
(`MountingDevice`), and a mounted volume is its (`MountedDevice`). For the
volume: the record is that of the medium `metaOf` (`RecordInv`), and while
nobody is between the two reads the parameters are those of a boot sector read
at its start (`BpbInv`). `Formatted` says that the working partition of each
medium starts with a well-formed boot sector. `OneThread` is needed: a second
thread that has read the table of a new medium and not its boot sector leaves
the old parameters beside the new record, and a volume that is mounted, with
it; and an answer that says the device is not there may come late, when
another thread has mounted and written (section 7). For one thread `DropInv`
says what it knows as long as no device has left (`ThreadKnows`): a device that
was ready stays ready, and the answer to a check of a mounted volume says so.

`DirEntriesProofs`, for any names, kinds of records, sizes of directories and of
clusters (`DirAssumption`), where the root directory begins with a label:

| Theorem | Says |
|---|---|
| `DirectoriesTyped` | `Spec => []TypeOK`: no directory outgrows its room |
| `EntriesStayWhole` | `Spec => []EntriesWhole` |
| `NothingIsHidden` | `Spec => []NothingHidden` |
| `NamesAreUnique` | `Spec => []NamesOnce` |
| `DirectoriesAreNames` | `Spec => NamesSpec`: the refinement of `DirNames` |

The condition is `Labelled`, a root directory that begins with a label, as
formatters write it: without one, stale places of an earlier scan break
`EntriesWhole` and run over the end of `deSec` (section 7). The invariant
`DirInv` (`DirInvariant`) says of each directory (`GoodDirectory`) that it fits
its room, begins with an entry that is no name's (`Headed`: a label or "."),
that parts of long names and records go together both ways (`Whole`), that only
free entries follow the first that was never used (`Visible`) and that a name
is there once (`Once`); of the directories together that those that are there
are the ones the root directory names (`Linked`); and of the places collected
(`StackOK`) that they are at most `DeStackSize`. Nothing needs to be said of
what an earlier scan left in `deIdx`: `Headed` makes it harmless, as a scan
meets an entry of no name first, and starts the places anew there.
`EntriesWhole` looks from the record back; the removal of a name needs that
nothing else leads to the entries it marks, so the other direction is part of
the invariant. The gap chosen by `getDirentryStoreOffset` is shown to be free,
large enough and behind no name (the minimum of a set of places exists:
`FirstIs`, by the well-foundedness of finite sets). `FindSound` ties what a
scan finds to the names of the directory, and this is the refinement.

`FatFilesProofs`, for any numbers of clusters, files and slots, any sizes of
`cbuf`, of the stack of free clusters and of a cluster (`FatAssumption`,
`FilesAssumption`), and names that the driver can compare (`~ ByPath`):

| Theorem | If | Says |
|---|---|---|
| `FilesInvariant` | every medium is `Sound` | `CarefulSpec => [](FilesInv /\ Truncation)` |
| `CarefulIsCorrect` | every medium is `Sound` | the three properties below, of `CarefulSpec` |
| `FilesTyped` | every medium is `Blank` | `Spec => []TypeOK` |
| `ChainsStayApart` | every medium is `Blank` | `Spec => []NoCrossLinks` |
| `ClustersAreNotLost` | every medium is `Blank` | `Spec => []NoLostClusters` |
| `SeekTablesAreKept` | every medium is `Sized` | `CarefulSpec => []SeekTableRight` |
| `SeekTablesAreRight` | every medium is `Blank` | `Spec => []SeekTableRight` |
| `TransfersUseTheirClusters` | every medium is `Blank`, `Clusters(MaxSize) <= BufSize` | `Spec => [](~ ranOut => UsesItsClusters)` |

A `Blank` medium is formatted and empty; a `Sound` one has files, each with a
chain of its own, and no other cluster in use; on a `Sized` one the sizes in
the directory entries say how long the chains are, too. `CarefulSpec` is `Spec` (without
its fairness) in which no medium with files is mounted while the stack holds
free clusters of the medium before (`StackNotStale`). Neither condition can be
left out: the code keeps the stack when the medium changes, and looks up an
open file by the name with its path (section 7).
Both specifications change the medium only while no file is open
(`ChangeMedium`), a restriction on the user and not on the code.

None of the properties is inductive. `NoCrossLinks` compares chains as a walk
from the directory entry finds them; a step, however, trusts copies of cluster
numbers: `cbuf` with the chain it is of, the seek table and the last cluster of
each slot, the numbers in the call under way, the stack. So the invariant
(`Owns`) gives each file a set of clusters: the sets are disjoint and free of
clusters of the stack, the table does not lead out of a set, no two clusters of
a set lead to the same one and none to the first (`OwnersOK`, `StartsOK`); what
`cbuf` holds is a stretch of one of these chains (`CacheOK`), what slots and
calls hold is of the set of their file (`HandlesOK`, `TaskOK`), and a file is
in one slot (`OpenOnce`). The set is larger than the chain after a write ran
out of space. Only as long as none did (`Lossless`) does the start reach all of
the set, are all clusters in use in a set, is the last cluster of a slot the
end of its chain, and is `cbuf` a chain the table has. The halves of a deletion
are in it, too: the clusters of a removed file stay its own until they are
freed, and each round begins at the last cluster of the round before. For the
truncation of a file `Truncation` adds what the walk from its entry meets: the
rest of the chain, or a free cluster, from which it goes to entry 0 of the
table, an end marker.

`SeekTableRight` speaks of positions: entry j of a seek table has the cluster
at its index, counted along the chain, and `lastCluster` is the last of as many
clusters as the size takes. Sets do not say that, so next to them there is a
numbering of the clusters (`Measured`): a cluster that leads to another has one
less than that (`Graded`), the first one of a file has 0, and the one at the
end has what the size says (`EndsAt`), where `LengthOf` is ahead of the size
while `fs_write` takes clusters and until it has written them. Each entry of a
table then only has to have the number of its cluster in `index` (`TableOK`),
and `fat_setFatDirChain` numbers what it finds in `cbuf` in the same way
(`BufferGraded`). That the numbers are places in the chain is said once
(`ChainGraded`). Steps that give or take clusters (`CreateMeasured`,
`GrowMeasured`, `DeleteMeasured`, `RemountMeasured`) choose new numbers, all
others keep them (`MeasuredStep`). After a write that ran out of space the
chain may be longer than the size says, and none of this holds.

`TransferOK` counts the transfer under way with the same numbers: what is
skipped is the way from the cluster of the seek table to the position. The
theorem wants files that have no more clusters than `cbuf` has room for, 512 in
the code, so that the first buffer of a transfer is its last one. This is where
the error of section 6 begins: after a second buffer `cbuf` holds a chain
without its first cluster.

`ChainFrom` is a recursive function; what it gives is derived from the
equation of its walk with a least counterexample (`ChainFollows`). `ChainCovers`
says that a walk of as many steps as there are clusters finds all that can be
reached (a walk longer than the set repeats itself: the pigeonhole principle),
`ChainBuffered` and `GotChain` what `fat_getClusterChain` leaves in `cbuf`,
`GrownChain` and `ShrunkChain` what putting a cluster to the end and freeing a
buffer do to a set, and `ClusterAdded` and `ClustersReplaced` what they do to
the sets of all files.

`PowerCutProofs`, for any numbers of files and clusters and any layout of the
table in blocks (`PowerCutAssumption`):

| Theorem | Says |
|---|---|
| `PowerCutInvariant` | `Spec => []Inv` |
| `PowerCutTypeOK` | `Spec => []TypeOK`, after damage too |
| `ClosedFilesAreKept` | `Spec => []ClosedIsKept`: what was closed or removed is on the medium as it was then |
| `MediumStaysDisjoint` | `Spec => []MediumDisjoint`: no part of the calls, in any order of the blocks, makes two files on the medium share a cluster, unless a chain was cut since the last flush |

Both properties speak of a medium that may have any block from before and any
from after, so no invariant can say what it holds. `Inv` says what it cannot
hold. It gives each file its chain in the table of the driver (`ChainsOK`,
`CachedOK`), also while the chain is put together (`End`: the new cluster is
still marked free) or taken apart (`Freed`: a first part is free already, the
rest is still chained and belongs to nobody else), and then: what was closed is
the same in the cache and on the medium, cluster by cluster (`KeptOK`); the
entry of a file and the table on the medium do not lead from the clusters of a
file to others, and of what is nobody's the medium has what the cache has
(`MediumOK`). The last part is what lets a free cluster be given away: the
medium has it as free, too. It holds because the chain of a removed file is
flushed before any other call gets a cluster, and does not hold for a truncated
one, which is why `MediumDisjoint` excepts it. The invariant is kept by storing
any part of the cache (`StoredPartOK`), of which one directory entry, one block
of the table and one cluster are cases (`StoresAreParts`). After a power cut
the chains are read from the medium: `sound` says that each has an end and that
they are disjoint, and a walk over a table that comes to an end has met no
cluster twice (`WalkIsChain`), so the same invariant holds again and the
theorems cover any number of power cuts, up to the first one that does damage.

`Chain` is a recursive function, like `ChainFrom` above: `ChainFollows` and
`ChainIs` derive from the equation of its walk, with a least counterexample and
the pigeonhole principle, that it stays in a set that the table does not leave
and finds exactly the chain of the table. `SameContent` says that what is in a
file depends on its entry and on its clusters only.

`DirListingProofs`, for any numbers of readers behind the RPC server, open
directories, directories and entries, any size of a sector and any number of
sectors (`ListingAssumption`, which TLC evaluates): `ListingInvariant`
(`Spec => []ListingInv`), `ListingTypeOK` (`Spec => []TypeOK`) and
`ListingsAreExact` (`Spec => []ListedExactly`). The directories are `Tidy` at
the start, as the driver keeps them (`NamesAreUnique` in `DirEntriesProofs`): a
name is there once, and nothing follows an end. A medium with old entries behind
an end, which only another system leaves, is excepted.

The property speaks of the names that were given, the code of a number: how many
entries to skip. `ListingInv` connects them for a listing that nobody disturbed.
`CursorOK`: `direntryIndex` is the number of entries up to the last one found,
and the names up to there are those that were given and the one that `fs_dread`
has for the next call. `ScanOK`: the scan has counted the entries of the sectors
behind it and passed over nothing but those and holes. So the entry with the
number of the cursor is the next one behind the last (`FoundIs`), a sector
without such an entry has none behind the last at all (`NoneWanted`, with a
least counterexample), and a sector in which the directory does not end is
counted as a whole (`SectorCountedWhole`). A change behind the cursor leaves the
count and the names up to it as they were (`ChangedOK`); whatever moves the
cursor, or changes an entry before it, makes the listing a disturbed one. A
disturbed listing still keeps the cursor within its directory: what a scan has
counted is no more than the entries it has passed (`ScanTyped`).

Only model-checked: that a transfer uses its clusters when a file is longer
than `cbuf` (it holds in the run for what fits the bounds of `FatFiles.cfg` and
not beyond, section 6) and short names, whose run shows a violation; and for
good liveness (`CallsReturn`, `ChecksReturn`, `OperationsEnd`,
`UnplugFrees`, `CallsEnd`, `ListingEnds`: `ENABLED` and fairness are out of the
prover's reach).

## 6. What the runs found

- `cache_alloc`: `scache_allocSector` labels a whole block as cached and reads
  nothing. The other sectors of the block are then served from, and written
  with, what the slot held before. The directory enlargement is its user.
- `files_seek`: the buffered chain is reused by its first cluster, whether or
  not it was read with that cluster, and the clusters used are off by one.
- `short_names`: a number that is a multiple of 64 is not counted for the short
  name that has it, and its high bits are counted as a number of their own.
  With the names ~1 to ~64 in a directory the next one becomes ~64 again.

## 7. Known deviations without a run

Met while modelling; the models have this behaviour unless said otherwise.

- Device: a device that replaces another while it is configured gets the flag
  of the first (`trouble`). `set_configuration` drops the result of its request,
  and `mass_stor_getStatus` flags the device as configured whatever came of it.
  The flag is set before the warm-up, so a second thread is told that the device
  is ready while the first one still reads its block size. A connect without
  bulk IN leaves the control endpoint open and `bulkEpO` as it was; the release
  of a client that was in the set-up meanwhile closes that bulk OUT endpoint a
  second time. `Size_Sector` is what was in the buffer if READ CAPACITY fails. A
  device that is plugged in while another one is there is never looked at again.
- Transport: a stall of the status stage passes for a good status and a stall
  of the data stage is not recovered from; after a short packet the host takes
  the status for data (`faulty`). Errors never reach the caller: the status
  stage overwrites them and a failed command returns 4096 like any other.
- A command of one thread that comes between the command and the data of the
  other's write is taken for the data, and the data then stall the device
  (`clashed`). `usb_bulk_status` ignores that its transfer stalled, both
  operations return 4096, and the pipes stay stalled: without `~ clashed` TLC
  breaks `ReadyForNextCBW`, and `InStep` long before.
- Two threads in the transport: what keeps their operations apart is the device,
  which takes no command before the status of the one before was read. The
  recovery of one thread resets the device in the middle of the operation of
  the other, and the callback of its control transfer overwrites `returnCode`
  and `returnSize` (without the second half of `ControlDone`, TLC breaks
  `OwnResult`). A thread whose device was changed for another in the middle of
  an operation goes on with the new one, which waits for a command: both wait.
- Mount: `DEVICE_DISCONNECTED` is never cleared, so after one replug every
  operation on a name mounts again and empties the cache, changes of open
  files included; that is why `DropsOnlyAfterDisconnect` can promise nothing
  behind the first one. `fat_initDriver` does not look at the open files: one
  that is open when the medium is swapped is read and written with its clusters
  on the new medium. With two threads a check that was overtaken by another one
  mounts a second time and drops what was written in between.
- Mount: `fat_initDriver` keeps `clStack` and `clStackLast`, so after a change
  of the medium new files get clusters that are in use on it
  (`Media <- EmptyAndUsed` in `FatFiles.cfg` breaks `NoCrossLinks`).
- Volume: README.TXT says "First suitable partition is used."; the loop of
  `fat_getPartitionTable` takes the last one, and so does `WorkPartition`.
  `fat_determineFatType` counts two clusters too many, because it takes the place
  of cluster 0 for the first data sector, and the root directory as well if the
  volume before was FAT32: with a number of clusters close below a limit the
  type is wrong (`NearLimit`); a FAT16 volume of 65521 clusters that is mounted
  after a FAT32 volume is taken for FAT32. A boot sector with cluster size 0
  divides by zero (not modelled).
- Power cuts: `O_TRUNC` frees clusters without a flush, so the medium may have
  a file that leads to clusters another file was given since (without
  `~ truncated`, `MediumDisjoint` is violated). A power cut in the middle of a
  call leaves lost clusters, entries that lead to free clusters, or files
  longer than their chains.
- Two threads in a call (not modelled): the slot `fs_open` chooses is marked
  only at its end, so a second open takes the same; the cache labels a slot
  before it is filled, so a second reader of the sector gets what the slot held
  before; `sbuf` and `cbuf` are overwritten under their user.
- Listings: the cursor is one, so a listing that another one overtakes skips
  or repeats entries, and ends early when the other ends; the chain in `cbuf`
  may be another by the time the next sector is looked up (`Lost` in
  `DirListing`). The volume label is listed through RPC and skipped by
  `fs_dread`.
- `fs_getstat` tests `attr & 10` for a directory, where the bit is 0x10
  (formatting of results is not modelled).
- Cache: after a read that failed (disk image of the PC build) the slot is
  labelled as if it had been read. A dirty block whose write fails is marked
  clean.
- Files: a file that is given with a path (`mass:xxx/yyy.txt`, the use README.TXT
  shows; "/a") is not found open, because `fs_findFileSlotByName` compares with
  the bare name. It can be removed or truncated while it is open:
  with `ByPath = TRUE` in `FatFiles.cfg` TLC breaks `OpenFilesExist`, which is
  the property of no run for that reason.
- Files: clusters freed below `clStackLast` are not found until the driver is
  restarted. A FAT12 scan has no end on a full volume (not modelled);
  entries behind the last cluster in the last sector of the table count as
  free clusters (not modelled). A file without a cluster, as other systems make
  them, keeps the seek table of the file that had the slot before (not
  modelled).
- Directories (not modelled): beyond 1024 entries nothing is seen and a new
  name overwrites entries; a name of more entries than a cluster has is stored
  in part; the name of a volume label stays behind for the next entry that has
  no long name; on FAT32 a file just created in the root directory looks like
  one that existed, and `O_TRUNC` then truncates the root directory.
- Directories: `deIdx` keeps what a scan that found its name left. In a root
  directory without a volume label the removal of the first file marks entries
  of another one (`Labelled = FALSE` in `DirEntries.cfg` breaks
  `EntriesWhole`), and opening the first file again and again runs over the end
  of `deSec` (breaks `StackSuffices`, the property of no run; at the eleventh
  time for a name of two entries, with the 21 places of the code).

## 8. What is not modelled

- The bytes of partition records, boot sectors and directory entries.
- The commands of the RPC server that dump or overwrite sectors.
- Dates, long-name encoding, directory listings' formatting, RPC packing.
- The EE stub (copies arguments), the example, the PC test driver.
- Interrupt-time details of usbd and of semaphores.
- Not yet: see the plan.

## 9. Plan

Done, in this order: `SectorCache` with its proofs, `MassDevice`, `Mount`,
`BulkOnly`, `FatChain` and `FatFiles`, `DirEntries`; then `DirListing`,
`PowerCut`, `BulkOnly` for several threads, `Volume` in `Mount`, `ShortNames`.

To extend the model, the most important first:

1. Two callers of the cache with one `sbuf`, the transfer of a miss as two
   steps. What holds of the cache with one caller is then expected to fail, so
   this is a violation to state, in place of one that is there.
2. The root directory of FAT32 in `DirEntries` and `DirListing`.
3. Two threads in `fs_open`.

There are twelve runs, three of which show a violation, and forty-two
properties; a new one takes the place of one that says less.

Proved: the cache, the transport, the life of the device, mounting and the
volume, files and their chains, power cuts, directory entries, listings. To
prove: `ShortNames` without removals and below 64 files (`ShortNamesUnique`).
