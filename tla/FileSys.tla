------------------------------ MODULE FileSys ------------------------------
(***************************************************************************)
(* The Nachos file system (filesys/): Create, Open, Remove, Read and Write *)
(* as sequences of sector writes, with a stop of the machine between any   *)
(* two of them, and the restart from what is on the disk.                  *)
(*                                                                         *)
(* The free map (1024 bits) and the directory (ten entries of 20 bytes)    *)
(* each fit in one sector of 512 bytes, so that writing either back is one *)
(* sector write.  The contents of a sector are kept as what was written    *)
(* into it: a header, the free map, the directory or data bytes.  Each     *)
(* operation reads all it needs before it writes, and there is one at a    *)
(* time (the source assumes no concurrent access): starting it computes    *)
(* its sector writes, todo, which the disk then does one by one.           *)
(*                                                                         *)
(* Names stand for their first nine characters, all Directory compares.    *)
(***************************************************************************)
EXTENDS Integers, Sequences, FiniteSets, Functions, TLC

CONSTANTS UserNames,     \* names of user files, strings
          Sizes,         \* the sizes they are created with
          Byte,          \* byte values, with 0
          Buffers,       \* what a program writes at once
          Counts,        \* how many bytes it reads at once
          Positions,     \* where it seeks to
          SectorSize, NumSectors, NumDirEntries,
          NumDirect,     \* length of FileHeader::dataSectors
          NumSlots       \* length of the table openfile: 15 in the source

MaxFileSize == NumDirect * SectorSize

(* Allocate does not compare the size with NumDirect: it writes past the     *)
(* array for a file that is larger.                                         *)
ASSUME FileSysAssumption ==
    /\ SectorSize \in Nat \ {0} /\ NumSectors \in Nat /\ NumDirEntries \in Nat
    /\ NumDirect \in Nat /\ Sizes \subseteq 0 .. MaxFileSize
    /\ 0 \in Byte

SeqExt == INSTANCE SequencesExt

VARIABLES disk,          \* sector -> contents
          op,            \* the operation in progress
          todo,          \* its sector writes still to be done
          openfile,      \* the open files: slots not NULL -> OpenFile
          up,            \* Nachos is running
          torn           \* the tables on the disk do not fit together

vars == <<disk, op, todo, openfile, up, torn>>

FreeMapSector == 0
DirectorySector == 1
Sector == 0 .. NumSectors - 1
Names == UserNames \union {"stdin", "stdout"}
Idle == [kind |-> "idle"]

Min2(a, b) == IF a < b THEN a ELSE b

-----------------------------------------------------------------------------
(* FileHeader, BitMap and Directory.                                       *)

Header(numBytes, dataSectors) ==
    [is |-> "header", numBytes |-> numBytes, dataSectors |-> dataSectors]
FreeMap(marked) == [is |-> "map", marked |-> marked]
Table(entries) == [is |-> "table", entries |-> entries]
Data(bytes) == [is |-> "data", bytes |-> bytes]

\* BitMap::NumClear counts these, BitMap::Find returns the lowest of them.
Clear(marked) == Sector \ marked
FindN(marked, n) == [i \in 1 .. n |-> CHOOSE s \in Clear(marked) :
                        Cardinality({t \in Clear(marked) : t < s}) = i - 1]

\* FileHeader::Allocate: the number of sectors a file of numBytes needs.
SectorsFor(numBytes) == (numBytes + SectorSize - 1) \div SectorSize

\* The free map and the directory, read through their files.
Marked(d) == d[d[FreeMapSector].dataSectors[1]].marked
Entries(d) == d[d[DirectorySector].dataSectors[1]].entries

WriteMap(d, marked) == <<d[FreeMapSector].dataSectors[1], FreeMap(marked)>>
WriteTable(d, entries) == <<d[DirectorySector].dataSectors[1], Table(entries)>>

FindIndex(entries, name) ==
    {i \in DOMAIN entries : entries[i].inUse /\ entries[i].name = name}
FreeEntries(entries) == {i \in DOMAIN entries : ~entries[i].inUse}

Listed(d) == {Entries(d)[i].name : i \in {j \in DOMAIN Entries(d) : Entries(d)[j].inUse}}
Find(d, name) == Entries(d)[CHOOSE i \in FindIndex(Entries(d), name) : TRUE].sector

-----------------------------------------------------------------------------
(* The sector writes of each operation on the disk d; none if it fails.    *)

\* Create succeeds, and what it then writes; the header's sector is found first.
CanCreate(d, name, size) ==
    /\ name \notin Listed(d)
    /\ FreeEntries(Entries(d)) # {}
    /\ Cardinality(Clear(Marked(d))) > SectorsFor(size)

CreatePlan(d, name, size) ==
    LET found == FindN(Marked(d), SectorsFor(size) + 1)
        free == FreeEntries(Entries(d))
        slot == CHOOSE i \in free : \A j \in free : i <= j
        entry == [inUse |-> TRUE, name |-> name, sector |-> found[1]]
    IN  [sectors |-> found,
         hdr |-> <<found[1], Header(size, Tail(found))>>,
         directory |-> WriteTable(d, [Entries(d) EXCEPT ![slot] = entry]),
         freeMap |-> WriteMap(d, Marked(d) \union Range(found))]

\* Mutant: the directory goes first.
CreateWritesNameFirst(d, name, size) ==
    LET plan == CreatePlan(d, name, size)
    IN  IF CanCreate(d, name, size) THEN <<plan.directory, plan.hdr, plan.freeMap>> ELSE <<>>

CreateWrites(d, name, size) ==
    LET plan == CreatePlan(d, name, size)
    IN  IF CanCreate(d, name, size) THEN <<plan.hdr, plan.directory, plan.freeMap>> ELSE <<>>

\* Mutant: the directory is not written.
RemoveWritesKeepsName(d, name) ==
    LET sector == Find(d, name)
    IN  <<WriteMap(d, Marked(d) \ (Range(d[sector].dataSectors) \union {sector}))>>

RemoveWrites(d, name) ==
    LET sector == Find(d, name)
        i == CHOOSE j \in FindIndex(Entries(d), name) : TRUE
    IN  <<WriteMap(d, Marked(d) \ (Range(d[sector].dataSectors) \union {sector})),
          WriteTable(d, [Entries(d) EXCEPT ![i].inUse = FALSE])>>

FormatWrites ==
    LET marked == {FreeMapSector, DirectorySector}
        mapAt == FindN(marked, 1)[1]
        tableAt == FindN(marked \union {mapAt}, 1)[1]
        empty == [inUse |-> FALSE, name |-> "", sector |-> 0]
    IN  <<<<FreeMapSector, Header(NumSectors, <<mapAt>>)>>,
          <<DirectorySector, Header(NumDirEntries, <<tableAt>>)>>,
          <<mapAt, FreeMap(marked \union {mapAt, tableAt})>>,
          <<tableAt, Table([i \in 1 .. NumDirEntries |-> empty])>>>>

Apply(d, writes) ==
    SeqExt!FoldLeft(LAMBDA e, w : [e EXCEPT ![w[1]] = w[2]], d, writes)

\* The constructor creates the console's files if they are not there.
ConsoleWrites(d) ==
    LET first == CreateWrites(d, "stdin", 0)
    IN  first \o CreateWrites(Apply(d, first), "stdout", 0)

-----------------------------------------------------------------------------
(* OpenFile: a copy of the header, a position and the name it was opened   *)
(* by, which only the properties use.                                      *)

OpenedAs(d, name) == [hdr |-> d[Find(d, name)], pos |-> 0, name |-> name]

\* The part of a request that lies inside the file.
Clipped(hdr, numBytes, position) ==
    IF numBytes <= 0 \/ position >= hdr.numBytes THEN 0
    ELSE Min2(numBytes, hdr.numBytes - position)

ByteToSector(hdr, offset) == hdr.dataSectors[offset \div SectorSize + 1]

\* A new file has what its sectors held; the bytes of an old header are taken
\* to be 0.
ByteAt(d, hdr, k) ==
    LET held == d[ByteToSector(hdr, k)]
    IN  IF held.is = "data" THEN held.bytes[k % SectorSize] ELSE 0

ReadAt(d, hdr, numBytes, position) ==
    [k \in 0 .. Clipped(hdr, numBytes, position) - 1 |-> ByteAt(d, hdr, position + k)]

\* Mutant: no sector is read before it is partly written.
SectorAfterBlind(d, hdr, from, position, i, junk) ==
    [o \in 0 .. SectorSize - 1 |->
        LET k == i * SectorSize + o
        IN  IF k < hdr.numBytes /\ k - position + 1 \in DOMAIN from
            THEN from[k - position + 1] ELSE junk]

\* The file's i-th sector with the request copied in: the bytes around the
\* request are read first; past the end of the file the buffer holds junk.
SectorAfter(d, hdr, from, position, i, junk) ==
    [o \in 0 .. SectorSize - 1 |->
        LET k == i * SectorSize + o
        IN  IF k >= hdr.numBytes THEN junk
            ELSE IF k - position + 1 \in DOMAIN from THEN from[k - position + 1]
            ELSE ByteAt(d, hdr, k)]

WriteAtWrites(d, hdr, from, position, junk) ==
    LET n == Clipped(hdr, Len(from), position)
        first == position \div SectorSize
        last == (position + n - 1) \div SectorSize
    IN  IF n = 0 THEN <<>>
        ELSE [i \in 1 .. last - first + 1 |->
                <<ByteToSector(hdr, (first + i - 1) * SectorSize),
                  Data(SectorAfter(d, hdr, from, position, first + i - 1, junk))>>]

-----------------------------------------------------------------------------
NoOpenFiles == [s \in {} |-> 0]

\* A disk that has never been formatted, and Nachos not running.
Init ==
    /\ disk = [s \in Sector |-> Data([o \in 0 .. SectorSize - 1 |-> 0])]
    /\ op = Idle /\ todo = <<>>
    /\ openfile = NoOpenFiles
    /\ up = FALSE /\ torn = TRUE

Ready == up /\ op = Idle

\* FileSystem::FileSystem(TRUE), run by nachos -f.
FormatDisk ==
    /\ ~up /\ up' = TRUE
    /\ torn' = TRUE
    /\ op' = [kind |-> "boot"]
    /\ todo' = FormatWrites \o ConsoleWrites(Apply(disk, FormatWrites))
    /\ UNCHANGED <<disk, openfile>>

\* FileSystem::FileSystem(FALSE), on a disk whose tables fit together: Nachos
\* has no repair, another disk has to be formatted.
Boot ==
    /\ ~up /\ up' = TRUE
    /\ ~torn
    /\ op' = [kind |-> "boot"]
    /\ todo' = ConsoleWrites(disk)
    /\ UNCHANGED <<disk, openfile, torn>>

Create(name, size) ==
    /\ Ready
    /\ op' = [kind |-> "create"]
    /\ todo' = CreateWrites(disk, name, size)
    /\ UNCHANGED <<disk, openfile, up, torn>>

\* The callers (main.cc, fstest.cc) have closed the file.
Remove(name) ==
    /\ Ready
    /\ \A s \in DOMAIN openfile : openfile[s].name # name
    /\ op' = [kind |-> "remove"]
    /\ todo' = IF name \in Listed(disk) THEN RemoveWrites(disk, name) ELSE <<>>
    /\ UNCHANGED <<disk, openfile, up, torn>>

\* The first free slot that is not the console's.
FindFreeSlot(s) == s \notin DOMAIN openfile /\ 2 .. s - 1 \subseteq DOMAIN openfile

\* The callers have checked that FindFreeSlot finds one.
Open(name) ==
    /\ Ready
    /\ name \in Listed(disk)
    /\ \E s \in 2 .. NumSlots - 1 :
        /\ FindFreeSlot(s)
        /\ openfile' = openfile @@ s :> OpenedAs(disk, name)
    /\ UNCHANGED <<disk, op, todo, up, torn>>

Close(s) ==
    /\ Ready
    /\ s \in DOMAIN openfile
    /\ openfile' = Restrict(openfile, DOMAIN openfile \ {s})
    /\ UNCHANGED <<disk, op, todo, up, torn>>

Seek(s, position) ==
    /\ Ready
    /\ s \in DOMAIN openfile
    /\ position \in 0 .. openfile[s].hdr.numBytes
    /\ openfile' = [openfile EXCEPT ![s].pos = position]
    /\ UNCHANGED <<disk, op, todo, up, torn>>

Read(s, numBytes) ==
    /\ Ready
    /\ s \in DOMAIN openfile
    /\ openfile' = [openfile EXCEPT ![s].pos = @ + Clipped(openfile[s].hdr, numBytes, @)]
    /\ UNCHANGED <<disk, op, todo, up, torn>>

\* What the file is to hold after a write, for WriteExact.
Overwritten(bytes, from, position) ==
    [k \in DOMAIN bytes |-> IF k - position + 1 \in DOMAIN from
                            THEN from[k - position + 1] ELSE bytes[k]]

Write(s, from) ==
    /\ Ready
    /\ s \in DOMAIN openfile
    /\ op' = [kind |-> "write", slot |-> s,
              n |-> Clipped(openfile[s].hdr, Len(from), openfile[s].pos),
              want |-> Overwritten(ReadAt(disk, openfile[s].hdr, openfile[s].hdr.numBytes, 0),
                                   from, openfile[s].pos)]
    /\ \E junk \in Byte :
        todo' = WriteAtWrites(disk, openfile[s].hdr, from, openfile[s].pos, junk)
    /\ UNCHANGED <<disk, openfile, up, torn>>

\* SynchDisk::WriteSector: the next sector write of the operation.  Formatting
\* is over with the first directory.
WriteSector ==
    /\ todo # <<>>
    /\ disk' = [disk EXCEPT ![Head(todo)[1]] = Head(todo)[2]]
    /\ todo' = Tail(todo)
    /\ torn' = (torn /\ Head(todo)[2].is # "table")
    /\ UNCHANGED <<op, openfile, up>>

\* The operation returns; the constructor has opened the console's files.
Return ==
    /\ op # Idle /\ todo = <<>>
    /\ op' = Idle
    /\ CASE op.kind = "boot" ->
                openfile' = [s \in 0 .. 3 |->
                                OpenedAs(disk, IF s % 2 = 0 THEN "stdin" ELSE "stdout")]
         [] op.kind = "write" ->
                openfile' = [openfile EXCEPT ![op.slot].pos = @ + op.n]
         [] OTHER -> UNCHANGED openfile
    /\ UNCHANGED <<disk, todo, up, torn>>

\* Between its two table writes, Create has a file the free map does not know
\* of, and Remove has freed the sectors of a file that is still listed.
InWindow ==
    /\ todo # <<>>
    /\ Head(todo)[2].is = IF op.kind = "remove" THEN "table" ELSE "map"

\* The machine stops, or is halted: what is in memory is gone.
Crash ==
    /\ up /\ up' = FALSE
    /\ torn' = (torn \/ InWindow)
    /\ op' = Idle /\ todo' = <<>>
    /\ openfile' = NoOpenFiles
    /\ UNCHANGED disk

\* The operations of the system calls and of the command line.
Others ==
    \/ FormatDisk \/ Boot
    \/ \E n \in UserNames : (\E k \in Sizes : Create(n, k)) \/ Remove(n) \/ Open(n)
    \/ \E s \in 4 .. NumSlots - 1 :
        \/ Close(s)
        \/ \E p \in Positions : Seek(s, p)
        \/ \E n \in Counts : Read(s, n)
        \/ \E b \in Buffers : Write(s, b)

-----------------------------------------------------------------------------
Settled == up /\ op = Idle /\ ~torn

HeaderSectors(d) == {Find(d, n) : n \in Listed(d)}
OwnedBy(d, s) == {s} \union Range(d[s].dataSectors)

\* Every name in the directory leads to a header and to data sectors that no
\* other file, and neither table, has: at any moment, in the middle of an
\* operation or after a stop outside the window, since Create writes a header
\* before the name that leads to it.
FilesDisjoint ==
    ~torn =>
        LET owners == HeaderSectors(disk) \union {FreeMapSector, DirectorySector}
        IN  /\ Cardinality(HeaderSectors(disk)) = Cardinality(Listed(disk))
            /\ \A s \in owners : disk[s].is = "header"
            /\ \A s, t \in owners : s # t => OwnedBy(disk, s) \intersect OwnedBy(disk, t) = {}

\* Between operations the free map marks the sectors of the listed files and
\* of the two tables and no others: no sector is lost, over any number of
\* Creates (failed ones included), Removes, stops and restarts, and the
\* ASSERT of Deallocate never fails.
MapExact ==
    Settled => Marked(disk) = UNION {OwnedBy(disk, s) :
                    s \in HeaderSectors(disk) \union {FreeMapSector, DirectorySector}}

\* The bytes of the listed files, read through their headers on the disk.
Contents == [n \in Listed(disk) |->
                LET hdr == disk[Find(disk, n)] IN ReadAt(disk, hdr, hdr.numBytes, 0)]

\* An open file reads what is on the disk under its name: the copy of the
\* header made by Open stays good while other files come and go.
ReadsFile ==
    Settled => \A s \in DOMAIN openfile :
        /\ openfile[s].name \in Listed(disk)
        /\ LET hdr == openfile[s].hdr
           IN  ReadAt(disk, hdr, hdr.numBytes, 0) = Contents[openfile[s].name]

\* On the disk every sector has one owner, and the tables and the open files
\* know which.
SectorsExact == FilesDisjoint /\ MapExact /\ ReadsFile

\* When Write returns, the file holds the bytes written at its position and
\* its old bytes everywhere else, although the disk writes whole sectors.
WriteExact ==
    (op.kind = "write" /\ todo = <<>>) =>
        Contents[openfile[op.slot].name] = op.want

Abstract == INSTANCE FileMap WITH
    files <- IF torn THEN [n \in {} |-> 0] ELSE Contents

\* The file system implements FileMap: with the files read off the disk, every
\* sector write is a whole step of it or none.  A stop inside the window loses
\* all files; any other keeps them all.
ImplementsFileMap == Abstract!Spec
=============================================================================
