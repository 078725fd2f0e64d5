------------------------------ MODULE OpenTable ------------------------------
(***************************************************************************)
(* The open-file system calls of userprog/exception.cc (CreateFile, Open,  *)
(* Close, Read, Write, Seek) on the table "openfile" of the stub           *)
(* FileSystem, one table for all processes.  A call runs to its end before *)
(* another process runs.  Files are sequences of symbols.                  *)
(*                                                                         *)
(* A call is an operator that gives the table and the files after it, the  *)
(* value of register 2 and what was read.  Register 2 holds the number of  *)
(* the system call until the handler writes it.                            *)
(***************************************************************************)
EXTENDS Integers, Sequences, FiniteSetsExt, SequencesExt

CONSTANTS
    File,       \* file names
    NumSlots,   \* 15: entries of openfile
    MaxId,      \* 9: largest id that Read, Write and Seek accept
    NULL,       \* an empty entry
    NoFile      \* the contents of a file that does not exist

ASSUME OpenTableAssumption ==
    /\ NumSlots \in Nat /\ NumSlots > 2
    /\ MaxId \in Nat /\ MaxId < NumSlots

VARIABLES openfile, disk

SC_Open == 5
SC_Write == 7
SC_Seek == 21

Slots == 0 .. NumSlots - 1
OpenFile(f, t, p) == [file |-> f, type |-> t, currentOffset |-> p]

\* Result of a call: table, files, register 2, symbols copied to the caller.
Result(o, d, r, s) == [openfile |-> o, disk |-> d, r2 |-> r, into |-> s]
Fail(r) == Result(openfile, disk, r, <<>>)

\* The constructor opens the files "stdin" and "stdout" that it creates.
OpenTableInit(files) ==
    /\ openfile = [i \in Slots |-> CASE i = 0 -> OpenFile("stdin", 2, 0)
                                     [] i = 1 -> OpenFile("stdout", 3, 0)
                                     [] OTHER -> NULL]
    /\ disk = files

FindFreeSlot ==
    LET free == {i \in 2 .. NumSlots - 1 : openfile[i] = NULL}
    IN  IF free = {} THEN -1 ELSE Min(free)

\* OpenForWrite truncates a file that exists.
CreateFile(f) == Result(openfile, [disk EXCEPT ![f] = <<>>], 0, <<>>)

Open(f, type) ==
    LET slot == FindFreeSlot
    IN  CASE slot = -1 -> Fail(-1)
          [] slot # -1 /\ type \in {0, 1} /\ disk[f] # NoFile ->
                Result([openfile EXCEPT ![slot] = OpenFile(f, type, 0)],
                       disk, slot, <<>>)
          [] slot # -1 /\ type \in {0, 1} /\ disk[f] = NoFile -> Fail(SC_Open)
          [] slot # -1 /\ type \in {2, 3} -> Fail(type - 2)

Close(id) ==
    IF id \in Slots /\ openfile[id] # NULL
    THEN Result([openfile EXCEPT ![id] = NULL], disk, 0, <<>>)
    ELSE Fail(-1)

Advanced(id, n) == [openfile EXCEPT ![id].currentOffset = @ + n]

\* Read of n > 0 symbols of a file (types 0 and 1).
Read(id, n) ==
    IF id \notin 0 .. MaxId \/ openfile[id] = NULL \/ openfile[id].type = 3
    THEN Fail(-1)
    ELSE LET s == disk[openfile[id].file]
             p == openfile[id].currentOffset
             k == Min({n, Len(s) - p})
         IN  IF k <= 0 THEN Fail(-2)
             ELSE Result(Advanced(id, k), disk, k, SubSeq(s, p + 1, p + k))

\* s with the symbols w from position p on; a hole reads as NULs.
Overwritten(s, p, w) ==
    [i \in 1 .. Max({Len(s), p + Len(w)}) |->
        CASE i \in p + 1 .. p + Len(w) -> w[i - p]
          [] i \notin p + 1 .. p + Len(w) /\ i <= Len(s) -> s[i]
          [] OTHER -> "NUL"]

\* Write of the symbols w to a file of type 0.
Write(id, w) ==
    IF id \notin 0 .. MaxId \/ openfile[id] = NULL \/ openfile[id].type \in {1, 2}
    THEN Fail(-1)
    ELSE IF w = <<>> THEN Fail(SC_Write)
    ELSE LET f == openfile[id].file
         IN  Result(Advanced(id, Len(w)),
                    [disk EXCEPT ![f] =
                        Overwritten(@, openfile[id].currentOffset, w)],
                    Len(w), <<>>)

Seek(pos, id) ==
    IF id \notin 2 .. MaxId \/ openfile[id] = NULL
    THEN Fail(SC_Seek)
    ELSE LET len == Len(disk[openfile[id].file])
             to == IF pos = -1 THEN len ELSE pos
         IN  IF to < 0 \/ to > len THEN Fail(SC_Seek)
             ELSE Result([openfile EXCEPT ![id].currentOffset = to], disk, to, <<>>)

\* The state after the call r.
Perform(r) == openfile' = r.openfile /\ disk' = r.disk
=============================================================================
