------------------------------- MODULE DirListing -------------------------------
(***************************************************************************)
(* Listing directories: the cursor direntryCluster, direntryIndex of       *)
(* fat_driver.c (939-1040), which the RPC server (getFirst and getNext for *)
(* the EE) and the directories opened with fs_dopen share.                 *)
(*                                                                         *)
(* A scan reads one sector per step; in between other threads list, change *)
(* directories or load other chains into cbuf.  Only entries of short      *)
(* names and labels count for the cursor, the others are holes here.  The  *)
(* root directory is that of a FAT12 or FAT16 volume; a cluster of another *)
(* directory is one sector, and the next one is looked up in cbuf.         *)
(***************************************************************************)
EXTENDS Integers, Sequences, FiniteSets

CONSTANTS Root,           \* the root directory
          SubDir,         \* directories that are chains of clusters
          Name,           \* names of entries
          Rpc,            \* readers behind the RPC server
          Handle,         \* readers with a directory opened by fs_dopen
          SectorSlots,    \* entries in a sector
          Sectors,        \* sectors of a directory
          NoDir,          \* 0xFFFFFFFF, no directory
          Changing,       \* bound: the names that come and go, with their directory
          Contents        \* what the directories may hold at the start

Dir    == {Root} \union SubDir
Reader == Rpc \union Handle
Slots  == SectorSlots * Sectors

End   == "end"            \* never used, ends the directory
Hole  == "hole"           \* deleted, or an entry of a long name
Label == "label"          \* volume label
Entry == {End, Hole, Label} \union Name

(* Nothing follows the end of a directory, and a name is there once.       *)
Tidy(x) ==
  /\ \A i, j \in 1 .. Slots : i < j /\ x[i] = End => x[j] = End
  /\ \A i, j \in 1 .. Slots : x[i] \in Name /\ x[i] = x[j] => i = j

ASSUME ListingAssumption ==
  /\ Root \notin SubDir /\ NoDir \notin Dir /\ Rpc \intersect Handle = {}
  /\ Name \intersect {End, Hole, Label} = {}
  /\ SectorSlots \in Nat \ {0} /\ Sectors \in Nat \ {0}
  /\ Changing \subseteq Dir \X Name
  /\ Contents \subseteq [Dir -> [1 .. Slots -> Entry]]
  /\ \A c \in Contents, d \in Dir : Tidy(c[d])

VARIABLES
  slots,         \* the entries of each directory
  cursorDir,     \* direntryCluster
  cursorIndex,   \* direntryIndex
  cbuf,          \* the directory whose chain is in cbuf, or NoDir
  state,         \* of each reader: "closed", "open", "scan" or "ended"
  scan,          \* its call of fat_getNextDirentry
  ahead,         \* the entry that fs_dread returns next, of each handle
  record         \* history: what the listing of each reader has given so far

cursorVars == <<cursorDir, cursorIndex, cbuf>>
vars == <<slots, cursorVars, state, scan, ahead, record>>

NoScan == [dir |-> NoDir, sector |-> 1, index |-> 0, foreign |-> FALSE]

(* The record of an undisturbed listing of directory dir: the slot of the  *)
(* entry that was found last, the names that were given, and those that    *)
(* were in the directory all the time.  Disturbed is the record of a       *)
(* reader under whose hands the cursor was moved, or an entry that it has  *)
(* passed was changed, and of one that lists nothing.                      *)
Disturbed == [dir |-> NoDir, last |-> 0, listed |-> <<>>, stable |-> {}]

TypeOK ==
  /\ slots \in [Dir -> [1 .. Slots -> Entry]]
  /\ cursorDir \in Dir \union {NoDir}
  /\ cursorIndex \in 0 .. Slots
  /\ cbuf \in SubDir \union {NoDir}
  /\ state \in [Reader -> {"closed", "open", "scan", "ended"}]
  /\ scan \in [Reader -> [dir : Dir \union {NoDir}, sector : 1 .. Sectors,
                          index : 0 .. Slots, foreign : BOOLEAN]]
  /\ ahead \in [Handle -> Entry]
  /\ record \in [Reader -> [dir : Dir \union {NoDir}, last : 0 .. Slots,
                            listed : Seq(Name), stable : SUBSET Name]]

Listing(r) == state[r] \in {"open", "scan"}
NamesIn(d) == {slots[d][i] : i \in 1 .. Slots} \intersect Name
-----------------------------------------------------------------------------
(* The readers in S do not get what they asked for any more.               *)
Lost(rec, S) == [r \in Reader |-> IF r \in S THEN Disturbed ELSE rec[r]]

OthersListing(r) == {q \in Reader \ {r} : Listing(q)}

(* The record of reader r when it is given entry e.                        *)
Given(r, e) ==
  IF e \in Name /\ record[r].dir # NoDir THEN [record[r] EXCEPT !.listed = Append(@, e)]
  ELSE record[r]

(* fat_getDirentrySectorData: the chain of d is in cbuf from here on; the  *)
(* root directory has none.                                                *)
SectorData(d) == cbuf' = IF d = Root THEN cbuf ELSE d

StartScan(r, d) ==
  /\ state' = [state EXCEPT ![r] = "scan"]
  /\ scan' = [scan EXCEPT ![r] = [NoScan EXCEPT !.dir = d]]
  /\ SectorData(d)

(* fat_getFirstDirentry for a directory that is there, which needs no      *)
(* mount.  One that is not found leaves the cursor where it is.            *)
FirstDirentry(r, d) ==
  /\ cursorDir' = d /\ cursorIndex' = 0
  /\ StartScan(r, d)
  /\ record' = [Lost(record, OthersListing(r)) EXCEPT
                  ![r] = [dir |-> d, last |-> 0, listed |-> <<>>, stable |-> NamesIn(d)]]
  /\ UNCHANGED <<slots, ahead>>

(* fat_getNextDirentry begins; without a cursor it has nothing to give.    *)
BeginNext(r) ==
  /\ \/ /\ cursorDir # NoDir
        /\ StartScan(r, cursorDir)
     \/ /\ cursorDir = NoDir
        /\ state' = [state EXCEPT ![r] = "ended"]
        /\ UNCHANGED <<scan, cbuf>>
  /\ UNCHANGED <<slots, cursorDir, cursorIndex>>

(* usb_mass_getFirstDirentry, RPC command 1: at any time, also in the      *)
(* middle of a listing.                                                    *)
GetFirst(r, d) ==
  /\ r \in Rpc /\ state[r] # "scan"
  /\ FirstDirentry(r, d)

(* usb_mass_getNextDirentry, RPC command 2.                                *)
GetNext(r) ==
  /\ r \in Rpc /\ state[r] = "open"
  /\ BeginNext(r)
  /\ UNCHANGED <<ahead, record>>

(* fs_dopen finds the first entry already.                                 *)
Dopen(r, d) ==
  /\ r \in Handle /\ state[r] = "closed"
  /\ FirstDirentry(r, d)

(* fs_dread hands out the entry it has and looks for the one behind.       *)
Dread(r) ==
  /\ r \in Handle /\ state[r] = "open"
  /\ record' = [record EXCEPT ![r] = Given(r, ahead[r])]
  /\ ahead' = [ahead EXCEPT ![r] = Hole]
  /\ BeginNext(r)

Dclose(r) ==
  /\ r \in Handle /\ state[r] \in {"open", "ended"}
  /\ state' = [state EXCEPT ![r] = "closed"]
  /\ record' = [record EXCEPT ![r] = Disturbed]
  /\ ahead' = [ahead EXCEPT ![r] = Hole]
  /\ UNCHANGED <<slots, cursorVars, scan>>
-----------------------------------------------------------------------------
SlotAt(s, k) == (s - 1) * SectorSlots + k

Sector(d, s) == [k \in 1 .. SectorSlots |-> slots[d][SlotAt(s, k)]]

(* What the next READ_SECTOR of reader r gives: any sector of a directory  *)
(* if the chain it followed was not that of the directory any more.        *)
SectorRead(r) ==
  IF scan[r].foreign THEN {Sector(d, s) : d \in Dir, s \in 1 .. Sectors}
  ELSE {Sector(scan[r].dir, scan[r].sector)}

Counted(b) == {k \in DOMAIN b : b[k] \in Name \union {Label} /\ \A j \in 1 .. k : b[j] # End}

(* The entry with the number of the cursor, if sector b has it.            *)
Wanted(r, b) ==
  {k \in Counted(b) : scan[r].index + Cardinality({j \in Counted(b) : j < k}) = cursorIndex}

(* Mutant: direntryIndex is not moved on.                                  *)
FoundAgain(r, b) ==
  \E k \in Wanted(r, b) :
    /\ state' = [state EXCEPT ![r] = "open"]
    /\ scan' = [scan EXCEPT ![r] = NoScan]
    /\ ahead' = IF r \in Handle THEN [ahead EXCEPT ![r] = b[k]] ELSE ahead
    /\ record' = [Lost(record, OthersListing(r)) EXCEPT
                    ![r] = IF r \in Rpc THEN Given(r, b[k]) ELSE record[r]]
    /\ UNCHANGED <<cursorDir, cursorIndex>>

(* The entry is given to the reader and the cursor moves behind it.        *)
Found(r, b) ==
  \E k \in Wanted(r, b) :
    /\ cursorIndex' = cursorIndex + 1
    /\ state' = [state EXCEPT ![r] = "open"]
    /\ scan' = [scan EXCEPT ![r] = NoScan]
    /\ ahead' = IF r \in Handle THEN [ahead EXCEPT ![r] = b[k]] ELSE ahead
    /\ LET new == IF r \in Rpc THEN Given(r, b[k]) ELSE record[r]
           at == IF new.dir = NoDir THEN 0 ELSE SlotAt(scan[r].sector, k)
       IN  record' = [Lost(record, OthersListing(r)) EXCEPT ![r] = [new EXCEPT !.last = at]]
    /\ UNCHANGED cursorDir

(* "no more files": the directory or its entries end.                      *)
Exhausted(r, b) ==
  /\ Wanted(r, b) = {}
  /\ End \in {b[k] : k \in DOMAIN b} \/ scan[r].sector = Sectors
  /\ cursorDir' = NoDir
  /\ state' = [state EXCEPT ![r] = "ended"]
  /\ scan' = [scan EXCEPT ![r] = NoScan]
  /\ record' = Lost(record, OthersListing(r))
  /\ UNCHANGED <<cursorIndex, ahead>>

(* Mutants: the number of sectors is not looked at; the same sector is     *)
(* read again.                                                             *)
GoOnBehind(r, b) ==
  /\ Wanted(r, b) = {}
  /\ End \notin {b[k] : k \in DOMAIN b}
  /\ scan' = [scan EXCEPT ![r].sector = @ + 1, ![r].index = @ + Cardinality(Counted(b))]
  /\ UNCHANGED <<cursorDir, cursorIndex, state, ahead, record>>

GoOnSame(r, b) ==
  /\ Wanted(r, b) = {}
  /\ End \notin {b[k] : k \in DOMAIN b} /\ scan[r].sector < Sectors
  /\ UNCHANGED <<cursorDir, cursorIndex, state, scan, ahead, record>>

(* The next sector; that of a chain is looked up in cbuf.                  *)
GoOn(r, b) ==
  /\ Wanted(r, b) = {}
  /\ End \notin {b[k] : k \in DOMAIN b} /\ scan[r].sector < Sectors
  /\ LET lost == scan[r].dir # Root /\ cbuf # scan[r].dir
     IN  /\ scan' = [scan EXCEPT ![r].sector = @ + 1,
                                 ![r].index = @ + Cardinality(Counted(b)),
                                 ![r].foreign = @ \/ lost]
         /\ record' = IF lost THEN Lost(record, {r}) ELSE record
  /\ UNCHANGED <<cursorDir, cursorIndex, state, ahead>>

(* fat_getNextDirentry, one sector.                                        *)
ReadSector(r) ==
  /\ state[r] = "scan"
  /\ \E b \in SectorRead(r) : Found(r, b) \/ Exhausted(r, b) \/ GoOn(r, b)
  /\ UNCHANGED <<slots, cbuf>>
-----------------------------------------------------------------------------
(* The slots of directory d that the listing of r lies behind.             *)
Passed(r, d) ==
  IF ~ Listing(r) \/ record[r].dir # d THEN 0
  ELSE LET read == IF state[r] = "scan" THEN (scan[r].sector - 1) * SectorSlots ELSE 0
       IN  IF read > record[r].last THEN read ELSE record[r].last

(* A change of slot i of d disturbs the listings that are past it; the     *)
(* names in gone were not there all the time.                              *)
Changed(d, i, gone) ==
  record' = [r \in Reader |->
    IF i <= Passed(r, d) THEN Disturbed
    ELSE IF record[r].dir = d THEN [record[r] EXCEPT !.stable = @ \ gone] ELSE record[r]]

(* The operations of other threads on directory d read its chain, and that *)
(* of the file or directory they are about.                                *)
ChainUsed(d) == cbuf' \in {NoDir} \union ({d} \intersect SubDir)

(* fs_open with O_CREAT, fs_mkdir: a hole is filled, or the end.           *)
Store(d, n) ==
  /\ n \notin NamesIn(d)
  /\ \E i \in 1 .. Slots :
       /\ slots[d][i] = Hole \/ (slots[d][i] = End /\ \A j \in 1 .. i - 1 : slots[d][j] # End)
       /\ slots' = [slots EXCEPT ![d][i] = n]
       /\ Changed(d, i, {})
  /\ ChainUsed(d)
  /\ UNCHANGED <<cursorDir, cursorIndex, state, scan, ahead>>

(* fs_remove, fs_rmdir                                                     *)
Remove(d, n) ==
  /\ \E i \in 1 .. Slots :
       /\ slots[d][i] = n
       /\ slots' = [slots EXCEPT ![d][i] = Hole]
       /\ Changed(d, i, {n})
  /\ ChainUsed(d)
  /\ UNCHANGED <<cursorDir, cursorIndex, state, scan, ahead>>

(* The chain of a file is read.                                            *)
UseFile ==
  /\ cbuf' = NoDir
  /\ UNCHANGED <<slots, cursorDir, cursorIndex, state, scan, ahead, record>>

(* fat_initDriver in an operation of another thread.                       *)
Mount ==
  /\ cursorDir' = NoDir /\ cursorIndex' = 0 /\ cbuf' = NoDir
  /\ record' = Lost(record, {r \in Reader : Listing(r)})
  /\ UNCHANGED <<slots, state, scan, ahead>>

Others == \/ \E c \in Changing : Store(c[1], c[2]) \/ Remove(c[1], c[2])
          \/ UseFile \/ Mount

Start(r) == \E d \in Dir : GetFirst(r, d) \/ Dopen(r, d)
GoOnListing(r) == GetNext(r) \/ Dread(r) \/ ReadSector(r)

Next == \/ \E r \in Reader : Start(r) \/ GoOnListing(r) \/ Dclose(r)
        \/ Others

Init ==
  /\ slots \in Contents
  /\ cursorDir = NoDir /\ cursorIndex = 0 /\ cbuf = NoDir
  /\ state = [r \in Reader |-> "closed"] /\ scan = [r \in Reader |-> NoScan]
  /\ ahead = [r \in Handle |-> Hole]
  /\ record = [r \in Reader |-> Disturbed]

(* A client that lists a directory goes on to its end.                     *)
Spec == Init /\ [][Next]_vars /\ \A r \in Reader : WF_vars(GoOnListing(r))
-----------------------------------------------------------------------------
(* A listing that nobody disturbed gives no name twice, while entries      *)
(* behind it come and go; at its end it has given every name that was      *)
(* there all the time.                                                     *)
ListedExactly ==
  \A r \in Reader :
    LET given == record[r].listed
    IN  /\ \A i, j \in DOMAIN given : given[i] = given[j] => i = j
        /\ state[r] = "ended" => record[r].stable \subseteq {given[i] : i \in DOMAIN given}

(* A listing ends, unless new ones are started for ever: each of them sets *)
(* the cursor of all others back.                                          *)
ListingEnds ==
  \/ \A r \in Reader : Listing(r) ~> ~ Listing(r)
  \/ []<><<\E r \in Reader : Start(r)>>_vars
=============================================================================
