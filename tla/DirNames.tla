------------------------------- MODULE DirNames -------------------------------
(***************************************************************************)
(* What the directories of a volume promise to their user: each holds a    *)
(* set of names, a name is a file or a directory, and only the call that   *)
(* names it makes it appear or disappear.                                  *)
(***************************************************************************)
CONSTANTS Root, Name, DirName

VARIABLES names,          \* [directory -> set of <<name, kind>>]
          last            \* the last call and its answer

vars == <<names, last>>

Kind == {"file", "dir"}
Dir  == {Root} \union DirName

IsThere(d) == d = Root \/ <<d, "dir">> \in names[Root]

Has(d, n) == \E k \in Kind : <<n, k>> \in names[d]

Answer(op, d, n, k, a) ==
  last' = [op |-> op, dir |-> d, name |-> n, kind |-> k, answer |-> a]

(* Open a file that has to exist.                                          *)
Look(d, n) ==
  /\ IsThere(d)
  /\ Answer("look", d, n, "file",
            IF <<n, "file">> \in names[d] THEN "found"
            ELSE IF Has(d, n) THEN "other kind" ELSE "absent")
  /\ UNCHANGED names

(* Open a file that is created if it does not exist; make a directory.     *)
Make(d, n, k) ==
  /\ IsThere(d)
  /\ \/ /\ Has(d, n)
        /\ Answer("make", d, n, k, IF <<n, k>> \in names[d] THEN "found" ELSE "other kind")
        /\ UNCHANGED names
     \/ /\ ~ Has(d, n)
        /\ Answer("make", d, n, k, "no space")
        /\ UNCHANGED names
     \/ /\ ~ Has(d, n)
        /\ Answer("make", d, n, k, "made")
        /\ names' = [names EXCEPT ![d] = @ \union {<<n, k>>}]

(* Remove a file, or a directory with nothing in it.                       *)
Drop(d, n, k) ==
  /\ IsThere(d)
  /\ \/ /\ <<n, k>> \notin names[d]
        /\ Answer("drop", d, n, k, "absent")
        /\ UNCHANGED names
     \/ /\ <<n, k>> \in names[d]
        /\ k = "dir" /\ names[n] # {}
        /\ Answer("drop", d, n, k, "not empty")
        /\ UNCHANGED names
     \/ /\ <<n, k>> \in names[d]
        /\ k = "dir" => names[n] = {}
        /\ Answer("drop", d, n, k, "dropped")
        /\ names' = [names EXCEPT ![d] = @ \ {<<n, k>>}]

Init == names = [d \in Dir |-> {}] /\ last = [op |-> "none"]

Next == \E d \in Dir, n \in Name, k \in Kind : Look(d, n) \/ Make(d, n, k) \/ Drop(d, n, k)

Spec == Init /\ [][Next]_vars
=============================================================================
