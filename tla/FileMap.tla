------------------------------ MODULE FileMap ------------------------------
(***************************************************************************)
(* What the Nachos file system promises: a set of named byte arrays of     *)
(* fixed length.  A file appears with any contents and disappears as a     *)
(* whole, and it changes one disk block at a time, no other file changing  *)
(* with it.  All files may be lost at once (a stop of the machine inside   *)
(* an update of the disk's tables, or formatting).                         *)
(***************************************************************************)
EXTENDS Naturals, Functions

CONSTANTS Names, Byte, Sizes, SectorSize

VARIABLE files       \* name -> its bytes, numbered from 0

NoFiles == [n \in {} |-> 0]

(* The steps, between the files before and after.                           *)
Create(old, new) ==
    \E n \in Names \ DOMAIN old :
        /\ DOMAIN new = DOMAIN old \union {n}
        /\ Restrict(new, DOMAIN old) = old
        /\ \E k \in Sizes : new[n] \in [0 .. k - 1 -> Byte]

Remove(old, new) == \E n \in DOMAIN old : new = Restrict(old, DOMAIN old \ {n})

\* The bytes of one block of one file change.
WriteBlock(old, new) ==
    /\ DOMAIN new = DOMAIN old
    /\ \E n \in DOMAIN old :
        /\ new = [old EXCEPT ![n] = new[n]]
        /\ DOMAIN new[n] = DOMAIN old[n]
        /\ \A i, j \in DOMAIN old[n] :
            (new[n][i] # old[n][i] /\ new[n][j] # old[n][j])
                => i \div SectorSize = j \div SectorSize

Lose(old, new) == new = NoFiles

Step(old, new) ==
    Create(old, new) \/ Remove(old, new) \/ WriteBlock(old, new) \/ Lose(old, new)

Init == files = NoFiles

Next == \E old \in {files}, new \in {files'} : Step(old, new)

Spec == Init /\ [][Next]_files
=============================================================================
