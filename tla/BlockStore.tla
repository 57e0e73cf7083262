------------------------------ MODULE BlockStore ------------------------------
(***************************************************************************)
(* What a write-back sector cache promises its caller (the FAT layer).     *)
(*                                                                         *)
(* The caller sees one array of sectors, content.  It opens a sector (gets *)
(* a pointer to it) and fills the open sector in place.  What is on the    *)
(* medium may lag behind content; the cache may bring any set of sectors   *)
(* up to date at any moment, and only a restart of the cache may make the  *)
(* caller see old data: exactly what the medium holds.                     *)
(***************************************************************************)
CONSTANTS Sector,      \* sector numbers
          Data,        \* what a sector can contain
          NoSector     \* "no sector is open"

VARIABLES content,     \* what the caller reads: [Sector -> Data]
          medium,      \* what the device holds: [Sector -> Data]
          open         \* the sector the caller has a pointer to, or NoSector

storeVars == <<content, medium, open>>

Init == /\ content = medium
        /\ open = NoSector

(* The caller asks for a sector, or a request fails and no pointer is left.*)
Open == /\ open' \in Sector \union {NoSector}
        /\ content' = content

(* The caller changes the one sector it has open.                          *)
Fill == /\ open \in Sector
        /\ \E d \in Data : content' = [content EXCEPT ![open] = d]
        /\ UNCHANGED <<medium, open>>

(* Some sectors of the medium are brought up to date; no other changes.    *)
WriteBack == \E S \in SUBSET Sector :
               medium' = [s \in Sector |-> IF s \in S THEN content[s]
                                                      ELSE medium[s]]

(* The cache is emptied: what had not reached the medium is gone.          *)
Restart == /\ content' = medium'
           /\ open' = NoSector

Next == \/ Open /\ WriteBack
        \/ Fill
        \/ Restart /\ (medium' = medium \/ WriteBack)

Spec == Init /\ [][Next]_storeVars
=============================================================================
