------------------------------- MODULE FsTest -------------------------------
(***************************************************************************)
(* The file system with the two programs of filesys/fstest.cc that use it  *)
(* from the command line: Copy, of a UNIX file into a new Nachos file, and *)
(* Print, of a Nachos file, each in pieces of TransferSize bytes.  A       *)
(* program runs alone, but the machine may stop at any of its steps.       *)
(***************************************************************************)
EXTENDS FileSys

CONSTANTS UnixFiles,     \* contents of the files copied, byte sequences
          TransferSize   \* 10 in the source, less than a sector

ASSUME FsTestAssumption ==
    /\ TransferSize \in Nat \ {0}
    /\ \A from \in UnixFiles : Len(from) \in 0 .. MaxFileSize

VARIABLE client          \* the program running, with its local variables

NoClient == [pc |-> "none"]

\* Their OpenFile is not in the table openfile.
Private == NumSlots

InitTest == Init /\ client = NoClient

Copy(from, to) ==
    /\ client.pc = "none"
    /\ Create(to, Len(from))
    /\ client' = IF CanCreate(disk, to, Len(from))
                 THEN [pc |-> "open", then |-> "copy", name |-> to, from |-> from, done |-> 0]
                 ELSE NoClient

PrintFile(name) ==
    /\ client.pc = "none" /\ Ready
    /\ name \in Listed(disk)
    /\ client' = [pc |-> "open", then |-> "print", name |-> name, out |-> <<>>]
    /\ UNCHANGED vars

OpenPrivate ==
    /\ client.pc = "open" /\ Ready
    /\ openfile' = openfile @@ Private :> OpenedAs(disk, client.name)
    /\ client' = [client EXCEPT !.pc = client.then]
    /\ UNCHANGED <<disk, op, todo, up, torn>>

\* Mutant: a piece starts at the last byte of the one before.
CopyPieceOverlaps ==
    /\ client.pc = "copy" /\ client.done < Len(client.from)
    /\ LET n == Min2(TransferSize, Len(client.from) - client.done)
       IN  /\ Write(Private, SubSeq(client.from, (IF client.done = 0 THEN 1 ELSE client.done),
                                    client.done + n))
           /\ client' = [client EXCEPT !.done = @ + n]

CopyPiece ==
    /\ client.pc = "copy" /\ client.done < Len(client.from)
    /\ LET n == Min2(TransferSize, Len(client.from) - client.done)
       IN  /\ Write(Private, SubSeq(client.from, client.done + 1, client.done + n))
           /\ client' = [client EXCEPT !.done = @ + n]

\* What the next read of Print returns.
Piece ==
    LET file == openfile[Private]
        got == ReadAt(disk, file.hdr, TransferSize, file.pos)
    IN  [i \in 1 .. Cardinality(DOMAIN got) |-> got[i - 1]]

PrintPiece ==
    /\ client.pc = "print" /\ Piece # <<>>
    /\ Read(Private, TransferSize)
    /\ client' = [client EXCEPT !.out = @ \o Piece]

Copied == client.pc = "copy" /\ op = Idle /\ client.done = Len(client.from)
Printed == client.pc = "print" /\ Piece = <<>>

Finish ==
    /\ Copied \/ Printed
    /\ Close(Private)
    /\ client' = NoClient

NextTest ==
    \/ \E name \in UserNames : PrintFile(name) \/ \E from \in UnixFiles : Copy(from, name)
    \/ OpenPrivate \/ CopyPiece \/ PrintPiece \/ Finish
    \/ (WriteSector \/ Return) /\ UNCHANGED client
    \/ Crash /\ client' = NoClient
    \/ client.pc = "none" /\ Others /\ UNCHANGED client

SpecTest == InitTest /\ [][NextTest]_<<vars, client>>

-----------------------------------------------------------------------------
\* A copy that ran to its end has made a file with the bytes of the UNIX file,
\* written in pieces of which some cross from one sector into the next; Print
\* shows every byte of the file once and in order.
CopyAndPrintExact ==
    LET Same(bytes) ==
            Contents[client.name] = [i \in 0 .. Len(bytes) - 1 |-> bytes[i + 1]]
    IN  /\ Copied => Same(client.from)
        /\ Printed => Same(client.out)
=============================================================================
