------------------------------ MODULE AddrSpace ------------------------------
(***************************************************************************)
(* Physical memory shared by the processes: the frame bitmap and addrLock  *)
(* of system.cc, the AddrSpace constructors and destructor of              *)
(* userprog/addrspace.cc, and the address translation of                   *)
(* machine/translate.cc with the exceptions that halt the machine.         *)
(*                                                                         *)
(* A frame's contents are abstracted to where they came from; a segment is *)
(* a whole number of pages.                                                *)
(***************************************************************************)
EXTENDS Naturals, Sequences

CONSTANTS
    Proc,          \* processes
    NumPhysPages,  \* frames of mainMemory
    NumBits,       \* size of gPhysPageBitMap
    Shape          \* programs: pages of code, initData, and uninitData + stack

ASSUME AddrSpaceAssumption ==
    /\ NumPhysPages \in Nat
    /\ NumBits \in Nat
    /\ Shape \subseteq [code : Nat, initData : Nat, rest : Nat]

Frame == 0 .. NumBits - 1
Memory == 0 .. NumPhysPages - 1
Zero == <<>>      \* never written

VARIABLES
    bitmap,      \* gPhysPageBitMap: marked frames
    addrLock,    \* value of the semaphore
    pc,          \* where a process is
    shape,       \* NoffHeader of its program
    pageTable,   \* pageTable[i].physicalPage, from index 1; its length is numPages
    mainMemory,  \* contents of each frame: <<process, page>> or Zero
    machine

vars == <<bitmap, addrLock, pc, shape, pageTable, mainMemory, machine>>

NoShape == [code |-> 0, initData |-> 0, rest |-> 0]
FilePages(s) == s.code + s.initData
NumPages(s) == FilePages(s) + s.rest

ZeroedMemory == [f \in Memory |-> Zero]

(* Nothing else runs yet, and every frame is clear: the first constructor   *)
(* gets frames 0, 1, ..., so that both copying loops hit the right ones.    *)
(* A program larger than memory fails the ASSERT, and nothing starts.       *)
StartProcess(t, s) ==
    /\ NumPages(s) <= NumPhysPages
    /\ NumPages(s) <= NumBits
    /\ bitmap = 0 .. NumPages(s) - 1
    /\ addrLock = 1
    /\ pc = [u \in Proc |-> IF u = t THEN "run" ELSE "none"]
    /\ shape = [u \in Proc |-> IF u = t THEN s ELSE NoShape]
    /\ pageTable = [u \in Proc |-> IF u = t THEN [i \in 1 .. NumPages(s) |-> i - 1] ELSE <<>>]
    /\ mainMemory = [f \in Memory |-> IF f < FilePages(s) THEN <<t, f + 1>> ELSE ZeroedMemory[f]]
    /\ machine = "up"

Init == \E t \in Proc, s \in Shape : StartProcess(t, s)

At(t, where) == machine = "up" /\ pc[t] = where
Goto(t, where) == pc' = [pc EXCEPT ![t] = where]

-----------------------------------------------------------------------------
(* StartProcessID: the second constructor opens the file, reads its header. *)
Begin(t, s) ==
    /\ At(t, "none")
    /\ shape' = [shape EXCEPT ![t] = s]
    /\ Goto(t, "lock")
    /\ UNCHANGED <<bitmap, addrLock, pageTable, mainMemory, machine>>

Lock(t) ==
    /\ At(t, "lock")
    /\ addrLock > 0
    /\ addrLock' = addrLock - 1
    /\ Goto(t, "allocate")
    /\ UNCHANGED <<bitmap, shape, pageTable, mainMemory, machine>>

Clear == Frame \ bitmap

\* The n frames that n calls of BitMap::Find return: the lowest, in order.
Found(n) ==
    {q \in [1..n -> Clear] :
        /\ \A i, j \in 1..n : i < j => q[i] < q[j]
        /\ \A f \in Clear : (\E i \in 1..n : q[i] = f) \/ \A i \in 1..n : q[i] < f}

\* Mutant of Allocate: addrLock->V() is left out.
AllocateKeepsLock(t) ==
    /\ At(t, "allocate")
    /\ \E q \in Found(NumPages(shape[t])) :
          /\ pageTable' = [pageTable EXCEPT ![t] = q]
          /\ bitmap' = bitmap \cup {q[i] : i \in 1..NumPages(shape[t])}
    /\ Goto(t, "load")
    /\ UNCHANGED <<addrLock, shape, mainMemory, machine>>

(* The frames are enough: set up the page table, addrLock->V(). *)
Allocate(t) ==
    /\ At(t, "allocate")
    /\ \E q \in Found(NumPages(shape[t])) :
          /\ pageTable' = [pageTable EXCEPT ![t] = q]
          /\ bitmap' = bitmap \cup {q[i] : i \in 1..NumPages(shape[t])}
    /\ addrLock' = addrLock + 1
    /\ Goto(t, "load")
    /\ UNCHANGED <<shape, mainMemory, machine>>

(* "not enough memory for new process": numPages = 0, the file is deleted   *)
(* and addrLock->V() is done, but the constructor goes on ...               *)
NoRoom(t) ==
    /\ At(t, "allocate")
    /\ Found(NumPages(shape[t])) = {}
    /\ addrLock' = addrLock + 1
    /\ Goto(t, "noroom")
    /\ UNCHANGED <<bitmap, shape, pageTable, mainMemory, machine>>

(* ... to a second V() and a second delete, which may abort the simulator.  *)
UnlockAgain(t) ==
    /\ At(t, "noroom")
    /\ addrLock' = addrLock + 1
    /\ machine' \in {"up", "crashed"}
    /\ Goto(t, "run")
    /\ UNCHANGED <<bitmap, shape, pageTable, mainMemory>>

\* Mutant of Loaded: physical page = virtual page, as before multiprogramming.
LoadedOneToOne(t, f) ==
    IF f < FilePages(shape[t]) THEN <<t, f + 1>> ELSE mainMemory[f]

\* What the two copying loops leave in frame f.  The file ends after initData,
\* so ReadAt copies nothing further.  Page i of initData goes to the frame of
\* page i moved by virtualAddr, not to the frame of page code + i.
Loaded(t, f) ==
    LET s == shape[t]
        data == {i \in 1..s.initData : pageTable[t][i] + s.code = f}
        code == {i \in 1..FilePages(s) : pageTable[t][i] = f}
    IN  IF data # {} THEN <<t, s.code + (CHOOSE i \in data : TRUE)>>
        ELSE IF code # {} THEN <<t, CHOOSE i \in code : TRUE>>
        ELSE mainMemory[f]

(* The rest of the constructor: copy the segments.  A frame or an offset    *)
(* past the end of mainMemory overwrites the simulator's own heap.          *)
Load(t) ==
    /\ At(t, "load")
    /\ mainMemory' = [f \in Memory |-> Loaded(t, f)]
    /\ machine' \in IF \E i \in 1..FilePages(shape[t]) :
                          \/ pageTable[t][i] >= NumPhysPages
                          \/ /\ i <= shape[t].initData
                             /\ pageTable[t][i] + shape[t].code >= NumPhysPages
                    THEN {"up", "crashed"} ELSE {"up"}
    /\ Goto(t, "run")
    /\ UNCHANGED <<bitmap, addrLock, shape, pageTable>>

-----------------------------------------------------------------------------
\* Machine::Translate finds a frame for page i.
Mapped(t, i) == i <= Len(pageTable[t]) /\ pageTable[t][i] < NumPhysPages

(* A program that runs uses page i: Machine::Translate finds the frame, or  *)
(* raises an exception on which ExceptionHandler halts.  Stores go to the   *)
(* pages that are neither code nor initData.                                *)
Use(t, i) ==
    /\ At(t, "run")
    /\ \/ /\ ~Mapped(t, i)
          /\ machine' = "halted"
          /\ UNCHANGED mainMemory
       \/ /\ Mapped(t, i)
          /\ i > FilePages(shape[t])
          /\ mainMemory' = [mainMemory EXCEPT ![pageTable[t][i]] = <<t, i>>]
          /\ UNCHANGED machine
    /\ UNCHANGED <<bitmap, addrLock, pc, shape, pageTable>>

\* Frames the page table of t holds.
FramesOf(t) == {pageTable[t][i] : i \in 1..Len(pageTable[t])}

FreeWith(t, frames) ==
    /\ At(t, "run")
    /\ Mapped(t, 1)
    /\ bitmap' = bitmap \ frames
    /\ shape' = [shape EXCEPT ![t] = NoShape]
    /\ pageTable' = [pageTable EXCEPT ![t] = <<>>]
    /\ Goto(t, "none")
    /\ UNCHANGED <<addrLock, mainMemory, machine>>

\* Mutants of FreeSpace: the loop runs once too often; nothing is cleared.
FreeOneMore(t) == FreeWith(t, FramesOf(t) \cup {f \in Frame : f - 1 \in FramesOf(t)})
FreeNothing(t) == FreeWith(t, {})

(* Thread::FreeSpace of a process that exits, so that had its first page:   *)
(* ~AddrSpace clears its frames without addrLock.                           *)
FreeSpace(t) == FreeWith(t, FramesOf(t))

Construct(t) ==
    \/ Lock(t)
    \/ Allocate(t)
    \/ NoRoom(t)
    \/ UnlockAgain(t)
    \/ Load(t)

Next == \E t \in Proc :
    \/ \E s \in Shape : Begin(t, s)
    \/ Construct(t)
    \/ \E i \in 1..NumPages(shape[t]) : Use(t, i)
    \/ FreeSpace(t)

Spec == Init /\ [][Next]_vars

(* The scheduler runs every ready thread.  P() lets newcomers overtake a    *)
(* thread that waits for addrLock, so starvation is excluded only when      *)
(* processes are not started for ever.                                      *)
FairSpec ==
    /\ Spec
    /\ \A t \in Proc : WF_vars(Construct(t))
    /\ <>[][\A t \in Proc, s \in Shape : ~Begin(t, s)]_vars

-----------------------------------------------------------------------------
\* Every variable has the type of the field it models.
TypeOK ==
    /\ bitmap \subseteq Frame
    /\ addrLock \in Nat
    /\ pc \in [Proc -> {"none", "lock", "allocate", "noroom", "load", "run"}]
    /\ shape \in [Proc -> Shape \cup {NoShape}]
    /\ pageTable \in [Proc -> Seq(Frame)]
    /\ mainMemory \in [Memory -> {Zero} \cup (Proc \X Nat)]
    /\ machine \in {"up", "halted", "crashed"}

\* Memory protection: a frame belongs to one page of one process, although
\* addrLock may let two constructors in after a refused one (value 2) and the
\* destructor does not take it.
FramesDisjoint ==
    \A t, u \in Proc : \A i \in 1..Len(pageTable[t]), j \in 1..Len(pageTable[u]) :
        pageTable[t][i] = pageTable[u][j] => t = u /\ i = j

\* No frame is lost or freed twice over any sequence of starts, refusals and
\* exits: the bitmap marks exactly the frames in page tables.
BitMapExact == bitmap = UNION {FramesOf(t) : t \in Proc}

\* What a running program sees on page i, when its frame is in mainMemory.
SegmentPage(t, i) ==
    pc[t] = "run" /\ Mapped(t, i) =>
        mainMemory[pageTable[t][i]] = <<t, i>>

\* When no program of the system has initialised data, which the constructor may
\* copy over others (SegmentsInPlace), all of them keep their code, whoever
\* loads, runs or exits around them.
CodeIntact ==
    (\A s \in Shape : s.initData = 0) =>
        \A t \in Proc : \A i \in 1..shape[t].code : SegmentPage(t, i)

\* A process that was started gets to run, or the machine stops.
LoadsEventually ==
    \A t \in Proc : pc[t] = "lock" ~> (pc[t] = "run" \/ machine # "up")

-----------------------------------------------------------------------------
\* noff.h:13 "location of segment in virt addr space": a program that just
\* became runnable finds code and initialised data where its header puts them.
SegmentsInPlace ==
    machine = "up" =>
        \A t \in Proc : \A i \in 1..FilePages(shape[t]) : SegmentPage(t, i)
=============================================================================
