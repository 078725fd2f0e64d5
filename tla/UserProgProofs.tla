--------------------------- MODULE UserProgProofs ---------------------------
(***************************************************************************)
(* Proofs about the tables of userprog/: the frames of the address spaces  *)
(* (AddrSpace) and the named semaphores (STable).                          *)
(***************************************************************************)
EXTENDS AddrSpace, STable, TLAPS

-----------------------------------------------------------------------------
(* AddrSpace: memory protection for any number of processes, frames and    *)
(* programs.  The page tables share no frame and the bitmap marks exactly  *)
(* their frames.                                                           *)

\* Before a constructor has allocated frames the page table is empty; then it
\* has an entry for every page of the program.
TableAgrees ==
    \A t \in Proc :
        /\ pc[t] \in {"none", "lock", "allocate", "noroom"} =>
              pageTable[t] = <<>>
        /\ pc[t] = "load" => Len(pageTable[t]) = NumPages(shape[t])

Inv == TypeOK /\ FramesDisjoint /\ BitMapExact /\ TableAgrees

\* The page counts of a program.
LEMMA Pages ==
  ASSUME TypeOK, NEW t \in Proc
  PROVE  /\ shape[t] \in [code : Nat, initData : Nat, rest : Nat]
         /\ FilePages(shape[t]) \in Nat
         /\ NumPages(shape[t]) \in Nat
         /\ FilePages(shape[t]) <= NumPages(shape[t])
<1>1. shape[t] \in [code : Nat, initData : Nat, rest : Nat]
  BY AddrSpaceAssumption DEF TypeOK, NoShape
<1> QED BY <1>1 DEF FilePages, NumPages

\* An empty page table holds no frame.
LEMMA NoFrames ==
  ASSUME NEW t \in Proc, pageTable[t] = <<>>
  PROVE  FramesOf(t) = {}
BY DEF FramesOf

\* The frames BitMap::Find returned make a page table of n entries.
LEMMA FoundSeq ==
  ASSUME NEW n \in Nat, NEW q \in Found(n)
  PROVE  /\ q \in Seq(Frame)
         /\ Len(q) = n
         /\ \A i \in 1..n : q[i] \in Frame \ bitmap
         /\ \A i, j \in 1..n : q[i] = q[j] => i = j
<1>1. /\ q \in [1..n -> Clear]
      /\ \A i, j \in 1..n : i < j => q[i] < q[j]
  BY DEF Found
<1>2. q \in [1..n -> Frame]
  BY <1>1 DEF Clear
<1>3. q \in Seq(Frame) /\ Len(q) = n
  BY <1>2
<1>4. \A i \in 1..n : q[i] \in Frame \ bitmap /\ q[i] \in Int
  BY <1>1, AddrSpaceAssumption DEF Clear, Frame
<1>5. ASSUME NEW i \in 1..n, NEW j \in 1..n, q[i] = q[j] PROVE i = j
  BY <1>1, <1>4, <1>5
<1> QED BY <1>3, <1>4, <1>5

\* The first program gets frames 0, 1, ..., and the bitmap marks them.
LEMMA InitInv == Init => Inv
<1> SUFFICES ASSUME NEW b \in Proc, NEW s \in Shape, StartProcess(b, s)
             PROVE  Inv
  BY DEF Init
<1> DEFINE n == NumPages(s)
           q == [i \in 1..n |-> i - 1]
<1>1. n \in Nat /\ FilePages(s) \in Nat /\ n <= NumBits
  BY AddrSpaceAssumption DEF NumPages, FilePages, StartProcess
<1>2. q \in Seq(Frame) /\ Len(q) = n
  <2>1. q \in [1..n -> Frame]
    BY <1>1, AddrSpaceAssumption DEF Frame
  <2> QED BY <1>1, <2>1
<1>3. pageTable = [u \in Proc |-> IF u = b THEN q ELSE <<>>]
  BY DEF StartProcess
<1>4. bitmap = 0 .. n - 1
  BY DEF StartProcess
<1>5. \A i \in 1..n : q[i] = i - 1
  OBVIOUS
<1> HIDE DEF n, q
<1>6. TypeOK
  <2>1. bitmap \subseteq Frame
    BY <1>1, <1>4, AddrSpaceAssumption DEF Frame
  <2>2. pageTable \in [Proc -> Seq(Frame)]
    BY <1>2, <1>3
  <2>3. shape \in [Proc -> Shape \cup {NoShape}]
    BY DEF StartProcess
  <2>4. mainMemory \in [Memory -> {Zero} \cup (Proc \X Nat)]
    BY <1>1, AddrSpaceAssumption DEF StartProcess, ZeroedMemory, Memory
  <2> QED BY <2>1, <2>2, <2>3, <2>4 DEF TypeOK, StartProcess
<1>7. FramesDisjoint
  BY <1>1, <1>2, <1>3, <1>5 DEF FramesDisjoint
<1>8. BitMapExact
  <2>1. FramesOf(b) = bitmap
    <3>1. FramesOf(b) = {q[i] : i \in 1..n}
      BY <1>2, <1>3 DEF FramesOf
    <3>2. ASSUME NEW f \in 0 .. n - 1 PROVE f + 1 \in 1..n /\ q[f + 1] = f
      BY <1>1, <1>5
    <3>3. ASSUME NEW i \in 1..n PROVE q[i] \in 0 .. n - 1
      BY <1>1, <1>5
    <3> QED BY <1>4, <3>1, <3>2, <3>3
  <2>2. \A t \in Proc : t # b => FramesOf(t) = {}
    BY <1>3, NoFrames
  <2> QED BY <2>1, <2>2 DEF BitMapExact
<1>9. TableAgrees
  BY <1>3 DEF TableAgrees, StartProcess
<1> QED BY <1>6, <1>7, <1>8, <1>9 DEF Inv

\* A step that changes neither page tables nor the bitmap.
LEMMA SameTables ==
  ASSUME FramesDisjoint, BitMapExact, UNCHANGED <<bitmap, pageTable>>
  PROVE  FramesDisjoint' /\ BitMapExact'
BY DEF FramesDisjoint, BitMapExact, FramesOf

\* Starting a program, addrLock->P() and the refused constructor.
LEMMA QuietInv ==
  ASSUME Inv, NEW t \in Proc,
         \/ \E s \in Shape : Begin(t, s)
         \/ Lock(t)
         \/ NoRoom(t)
         \/ UnlockAgain(t)
  PROVE  Inv'
<1>1. UNCHANGED <<bitmap, pageTable>>
  BY DEF Begin, Lock, NoRoom, UnlockAgain
<1>2. TypeOK'
  <2>1. shape' \in [Proc -> Shape \cup {NoShape}]
    BY Zenon DEF Inv, TypeOK, Begin, Lock, NoRoom, UnlockAgain
  <2>2. addrLock' \in Nat
    BY DEF Inv, TypeOK, Begin, Lock, NoRoom, UnlockAgain
  <2>3. pc' \in [Proc -> {"none", "lock", "allocate", "noroom", "load", "run"}]
    BY DEF Inv, TypeOK, Begin, Lock, NoRoom, UnlockAgain, Goto
  <2>4. mainMemory' = mainMemory /\ machine' \in {"up", "halted", "crashed"}
    BY DEF Inv, TypeOK, Begin, Lock, NoRoom, UnlockAgain
  <2> QED BY <1>1, <2>1, <2>2, <2>3, <2>4 DEF Inv, TypeOK
<1>3. TableAgrees'
  BY <1>1 DEF Inv, TypeOK, TableAgrees, Begin, Lock, NoRoom, UnlockAgain,
              Goto, At
<1> QED BY <1>1, <1>2, <1>3, SameTables DEF Inv

\* Copying the segments and using memory.
LEMMA MemoryInv ==
  ASSUME Inv, NEW t \in Proc,
         Load(t) \/ \E i \in 1..NumPages(shape[t]) : Use(t, i)
  PROVE  Inv'
<1>1. UNCHANGED <<bitmap, addrLock, shape, pageTable>>
  BY DEF Load, Use
<1>2. \A f \in Memory : mainMemory'[f] \in {Zero} \cup (Proc \X Nat)
  <2>1. CASE Load(t)
    <3> SUFFICES ASSUME NEW f \in Memory
                 PROVE  Loaded(t, f) \in {Zero} \cup (Proc \X Nat)
      BY <2>1 DEF Load
    <3> DEFINE data == {i \in 1..shape[t].initData :
                            pageTable[t][i] + shape[t].code = f}
               code == {i \in 1..FilePages(shape[t]) : pageTable[t][i] = f}
    <3>1. data # {} => shape[t].code + (CHOOSE i \in data : TRUE) \in Nat
      BY Pages DEF Inv
    <3>2. code # {} => (CHOOSE i \in code : TRUE) \in Nat
      BY Pages DEF Inv
    <3>3. mainMemory[f] \in {Zero} \cup (Proc \X Nat)
      BY DEF Inv, TypeOK
    <3> QED BY <3>1, <3>2, <3>3 DEF Loaded
  <2>2. ASSUME NEW i \in 1..NumPages(shape[t]), Use(t, i)
        PROVE  \A f \in Memory : mainMemory'[f] \in {Zero} \cup (Proc \X Nat)
    <3>1. <<t, i>> \in Proc \X Nat
      BY Pages DEF Inv
    <3>2. \/ mainMemory' = mainMemory
          \/ mainMemory' = [mainMemory EXCEPT ![pageTable[t][i]] = <<t, i>>]
      BY <2>2 DEF Use
    <3> QED BY <3>1, <3>2, Zenon DEF Inv, TypeOK
  <2> QED BY <2>1, <2>2
<1>3. mainMemory' \in [Memory -> {Zero} \cup (Proc \X Nat)]
  <2>1. mainMemory' = [f \in Memory |-> mainMemory'[f]]
    BY DEF Load, Use, Inv, TypeOK
  <2> QED BY <1>2, <2>1
<1>4. TypeOK'
  BY <1>1, <1>3, Zenon DEF Inv, TypeOK, Load, Use, Goto
<1>5. TableAgrees'
  BY <1>1 DEF Inv, TypeOK, TableAgrees, Load, Use, Goto, At
<1> QED BY <1>1, <1>4, <1>5, SameTables DEF Inv

\* The constructor takes clear frames only, each for one page.
LEMMA AllocateInv ==
  ASSUME Inv, NEW t \in Proc, Allocate(t)
  PROVE  Inv'
<1> DEFINE n == NumPages(shape[t])
<1>1. n \in Nat
  BY Pages DEF Inv
<1>2. PICK q \in Found(n) :
         /\ pageTable' = [pageTable EXCEPT ![t] = q]
         /\ bitmap' = bitmap \cup {q[i] : i \in 1..n}
  BY Zenon DEF Allocate
<1>3. /\ addrLock' = addrLock + 1
      /\ pc' = [pc EXCEPT ![t] = "load"]
      /\ UNCHANGED <<shape, mainMemory, machine>>
      /\ pc[t] = "allocate"
  BY DEF Allocate, Goto, At
<1> HIDE DEF n
<1>4. /\ q \in Seq(Frame)
      /\ Len(q) = n
      /\ \A i \in 1..n : q[i] \in Frame \ bitmap
      /\ \A i, j \in 1..n : q[i] = q[j] => i = j
  BY <1>1, FoundSeq
<1>5. /\ pageTable'[t] = q
      /\ \A u \in Proc \ {t} : pageTable'[u] = pageTable[u]
      /\ pageTable[t] = <<>>
  BY <1>2, <1>3 DEF Inv, TypeOK, TableAgrees
<1>6. TypeOK'
  BY <1>2, <1>3, <1>4 DEF Inv, TypeOK
<1>7. /\ FramesOf(t)' = {q[i] : i \in 1..n}
      /\ \A u \in Proc \ {t} : FramesOf(u)' = FramesOf(u)
      /\ FramesOf(t) = {}
  BY <1>4, <1>5, NoFrames DEF FramesOf
<1>8. BitMapExact'
  <2>1. bitmap = UNION {FramesOf(u) : u \in Proc \ {t}}
    BY <1>7 DEF Inv, BitMapExact
  <2>2. bitmap' = FramesOf(t)' \cup UNION {FramesOf(u)' : u \in Proc \ {t}}
    BY <1>2, <1>7, <2>1
  <2> QED BY <2>2 DEF BitMapExact
<1>9. FramesDisjoint'
  <2> SUFFICES ASSUME NEW u \in Proc, NEW v \in Proc,
                      NEW i \in 1..Len(pageTable'[u]),
                      NEW j \in 1..Len(pageTable'[v]),
                      pageTable'[u][i] = pageTable'[v][j]
               PROVE  u = v /\ i = j
    BY DEF FramesDisjoint
  <2>1. \A w \in Proc \ {t} : \A k \in 1..Len(pageTable[w]) :
           pageTable[w][k] \in bitmap
    BY DEF Inv, BitMapExact, FramesOf
  <2>2. CASE u = t /\ v = t
    BY <1>4, <1>5, <2>2
  <2>3. CASE u = t /\ v # t
    BY <1>4, <1>5, <2>1, <2>3
  <2>4. CASE u # t /\ v = t
    BY <1>4, <1>5, <2>1, <2>4
  <2>5. CASE u # t /\ v # t
    BY <1>5, <2>5 DEF Inv, FramesDisjoint
  <2> QED BY <2>2, <2>3, <2>4, <2>5
<1>10. TableAgrees'
  BY <1>3, <1>4, <1>5 DEF Inv, TypeOK, TableAgrees, n
<1> QED BY <1>6, <1>8, <1>9, <1>10 DEF Inv

\* The destructor clears the frames of its process and no other's.
LEMMA FreeSpaceInv ==
  ASSUME Inv, NEW t \in Proc, FreeSpace(t)
  PROVE  Inv'
<1>1. /\ bitmap' = bitmap \ FramesOf(t)
      /\ shape' = [shape EXCEPT ![t] = NoShape]
      /\ pageTable' = [pageTable EXCEPT ![t] = <<>>]
      /\ pc' = [pc EXCEPT ![t] = "none"]
      /\ UNCHANGED <<addrLock, mainMemory, machine>>
  BY DEF FreeSpace, FreeWith, Goto
<1>2. /\ pageTable'[t] = <<>>
      /\ \A u \in Proc \ {t} : pageTable'[u] = pageTable[u]
  BY <1>1 DEF Inv, TypeOK
<1>3. TypeOK'
  BY <1>1 DEF Inv, TypeOK
<1>4. /\ FramesOf(t)' = {}
      /\ \A u \in Proc \ {t} : FramesOf(u)' = FramesOf(u)
  BY <1>2 DEF FramesOf
<1>5. \A u \in Proc \ {t} : FramesOf(u) \cap FramesOf(t) = {}
  BY DEF Inv, FramesDisjoint, FramesOf
<1>6. BitMapExact'
  <2>1. bitmap' = UNION {FramesOf(u) : u \in Proc \ {t}}
    BY <1>1, <1>5 DEF Inv, BitMapExact
  <2>2. bitmap' = UNION {FramesOf(u)' : u \in Proc}
    BY <1>4, <2>1
  <2> QED BY <2>2 DEF BitMapExact
<1>7. FramesDisjoint'
  BY <1>2 DEF Inv, FramesDisjoint
<1>8. TableAgrees'
  BY <1>1, <1>2 DEF Inv, TypeOK, TableAgrees
<1> QED BY <1>3, <1>6, <1>7, <1>8 DEF Inv

\* A step that is none of the program's leaves everything as it is.
LEMMA StutterInv ==
  ASSUME Inv, UNCHANGED vars
  PROVE  Inv'
<1>1. FramesDisjoint' /\ BitMapExact'
  BY SameTables DEF Inv, vars
<1>2. TypeOK' /\ TableAgrees'
  BY DEF Inv, TypeOK, TableAgrees, vars
<1> QED BY <1>1, <1>2 DEF Inv

\* Every step of a process keeps the invariant.
LEMMA NextInv == Inv /\ [Next]_vars => Inv'
<1> SUFFICES ASSUME Inv, Next PROVE Inv'
  BY StutterInv
<1> PICK t \in Proc : \/ \E s \in Shape : Begin(t, s)
                      \/ Construct(t)
                      \/ \E i \in 1..NumPages(shape[t]) : Use(t, i)
                      \/ FreeSpace(t)
  BY DEF Next
<1> QED BY QuietInv, MemoryInv, AllocateInv, FreeSpaceInv DEF Construct

\* The invariant holds from the start of the machine on.
LEMMA InvHolds == Spec => []Inv
BY InitInv, NextInv, PTL DEF Spec

\* Every variable keeps the type of the field it models.
THEOREM TypeCorrect == Spec => []TypeOK
<1>1. Inv => TypeOK
  BY DEF Inv
<1> QED BY <1>1, InvHolds, PTL

\* Page tables never share a frame: neither addrLock at 2 after a refused
\* constructor nor the destructor that does not take it lets two pages have
\* the same one.
THEOREM FramesCorrect == Spec => []FramesDisjoint
<1>1. Inv => FramesDisjoint
  BY DEF Inv
<1> QED BY <1>1, InvHolds, PTL

\* The bitmap marks the frames of the page tables, no more and no fewer.
THEOREM BitMapCorrect == Spec => []BitMapExact
<1>1. Inv => BitMapExact
  BY DEF Inv
<1> QED BY <1>1, InvHolds, PTL

-----------------------------------------------------------------------------
\* Without initialised data the two copying loops write the frames of the
\* process's own file pages only, each with its page.
LEMMA LoadedCode ==
  ASSUME Inv, \A s \in Shape : s.initData = 0,
         NEW t \in Proc, pc[t] = "load", NEW f \in Memory
  PROVE  /\ \A i \in 1..FilePages(shape[t]) :
               pageTable[t][i] = f => Loaded(t, f) = <<t, i>>
         /\ f \notin FramesOf(t) => Loaded(t, f) = mainMemory[f]
<1> DEFINE s == shape[t]
           data == {i \in 1..s.initData : pageTable[t][i] + s.code = f}
           code == {i \in 1..FilePages(s) : pageTable[t][i] = f}
<1>1. s.initData = 0
  BY DEF Inv, TypeOK, NoShape
<1>2. data = {}
  BY <1>1
<1>3. 1..FilePages(s) \subseteq 1..Len(pageTable[t])
  BY Pages DEF Inv, TableAgrees
<1>4. \A i, j \in code : i = j
  BY <1>3 DEF Inv, FramesDisjoint
<1>5. Loaded(t, f) = IF code # {} THEN <<t, CHOOSE i \in code : TRUE>>
                                  ELSE mainMemory[f]
  BY <1>2 DEF Loaded
<1>6. ASSUME NEW i \in 1..FilePages(s), pageTable[t][i] = f
      PROVE  Loaded(t, f) = <<t, i>>
  <2>1. i \in code
    BY <1>6
  <2>2. (CHOOSE k \in code : TRUE) = i
    BY <1>4, <2>1
  <2> QED BY <1>5, <2>1, <2>2, Zenon
<1>7. f \notin FramesOf(t) => code = {}
  BY <1>3 DEF FramesOf
<1> QED BY <1>5, <1>6, <1>7

\* A step keeps the code of every running program in its frames.
LEMMA CodeStep ==
  ASSUME Inv, CodeIntact, Next, \A s \in Shape : s.initData = 0,
         NEW u \in Proc, NEW k \in 1..shape'[u].code,
         pc'[u] = "run", Mapped(u, k)'
  PROVE  mainMemory'[pageTable'[u][k]] = <<u, k>>
<1>1. PICK t \in Proc : \/ \E s \in Shape : Begin(t, s)
                        \/ Construct(t)
                        \/ \E i \in 1..NumPages(shape[t]) : Use(t, i)
                        \/ FreeSpace(t)
  BY DEF Next
<1> DEFINE f == pageTable[u][k]
<1>2. CASE (\E s \in Shape : Begin(t, s)) \/ Lock(t) \/ Allocate(t) \/ FreeSpace(t)
  <2>1. u # t
    BY <1>2 DEF Begin, Lock, Allocate, FreeSpace, FreeWith, Goto, Inv, TypeOK
  <2>2. /\ shape'[u] = shape[u]
        /\ pageTable'[u] = pageTable[u]
        /\ pc[u] = "run"
        /\ mainMemory' = mainMemory
    BY <1>2, <2>1 DEF Begin, Lock, Allocate, FreeSpace, FreeWith, Goto, Inv, TypeOK
  <2> QED BY <2>2 DEF CodeIntact, SegmentPage, Mapped
<1>3. CASE NoRoom(t) \/ UnlockAgain(t)
  <2>1. UNCHANGED <<shape, pageTable, mainMemory>>
    BY <1>3 DEF NoRoom, UnlockAgain
  <2>2. pc[u] = "run" \/ pageTable[u] = <<>>
    BY <1>3 DEF NoRoom, UnlockAgain, Goto, At, Inv, TypeOK, TableAgrees
  <2>3. k \in Nat /\ k >= 1
    BY <2>1, Pages DEF Inv
  <2>4. pageTable[u] # <<>>
    BY <2>1, <2>3 DEF Mapped
  <2> QED BY <2>1, <2>2, <2>4, Zenon DEF CodeIntact, SegmentPage, Mapped
<1>4. CASE Load(t)
  <2>1. /\ UNCHANGED <<shape, pageTable>>
        /\ \A g \in Memory : mainMemory'[g] = Loaded(t, g)
        /\ pc[t] = "load"
        /\ u # t => pc[u] = "run"
    BY <1>4 DEF Load, Goto, At, Inv, TypeOK
  <2>2. /\ k \in 1..Len(pageTable[u])
        /\ f \in Memory
        /\ k \in 1..FilePages(shape[u])
    <3>1. k \in 1..FilePages(shape[u])
      BY <2>1, Pages DEF Inv, FilePages
    <3>2. k \in 1..Len(pageTable[u]) /\ f < NumPhysPages
      BY <2>1, <3>1, Pages DEF Mapped, Inv, TypeOK
    <3>3. f \in Frame
      BY <3>2 DEF Inv, TypeOK
    <3> QED BY <3>1, <3>2, <3>3, AddrSpaceAssumption DEF Frame, Memory
  <2>3. CASE u = t
    BY <2>1, <2>2, <2>3, LoadedCode
  <2>4. CASE u # t
    <3>1. f \notin FramesOf(t)
      BY <2>2, <2>4 DEF Inv, FramesDisjoint, FramesOf
    <3>2. mainMemory'[f] = mainMemory[f]
      BY <2>1, <2>2, <3>1, LoadedCode
    <3> QED BY <2>1, <2>4, <3>2, Zenon DEF CodeIntact, SegmentPage, Mapped
  <2> QED BY <2>3, <2>4
<1>5. ASSUME NEW i \in 1..NumPages(shape[t]), Use(t, i)
      PROVE  mainMemory'[pageTable'[u][k]] = <<u, k>>
  <2>1. UNCHANGED <<shape, pageTable, pc>>
    BY <1>5 DEF Use
  <2>2. mainMemory[f] = <<u, k>> /\ k \in 1..Len(pageTable[u])
    <3>1. k \in 1..Len(pageTable[u])
      BY <2>1, Pages DEF Mapped, Inv, TypeOK
    <3> QED BY <2>1, <3>1, Zenon DEF CodeIntact, SegmentPage, Mapped
  <2>3. CASE mainMemory' = mainMemory
    BY <2>1, <2>2, <2>3
  <2>4. CASE /\ Mapped(t, i)
             /\ i > FilePages(shape[t])
             /\ mainMemory' = [mainMemory EXCEPT ![pageTable[t][i]] = <<t, i>>]
    <3>1. i \in 1..Len(pageTable[t])
      BY <2>4, Pages DEF Mapped, Inv, TypeOK
    <3>2. u = t => k # i
      BY <2>1, <2>4, Pages DEF FilePages, Inv
    <3>3. pageTable[t][i] # f
      BY <2>2, <3>1, <3>2 DEF Inv, FramesDisjoint
    <3> QED BY <2>1, <2>2, <2>4, <3>3 DEF Inv, TypeOK
  <2> QED BY <1>5, <2>3, <2>4 DEF Use
<1> QED BY <1>1, <1>2, <1>3, <1>4, <1>5 DEF Construct

\* When no program has initialised data, all keep their code, whatever other
\* processes are loaded, run and exit around them, for any number and any memory.
THEOREM CodeCorrect == Spec => []CodeIntact
<1>1. Init => CodeIntact
  <2> SUFFICES ASSUME NEW b \in Proc, NEW s \in Shape, StartProcess(b, s),
                      NEW t \in Proc, NEW i \in 1..shape[t].code,
                      pc[t] = "run", Mapped(t, i)
               PROVE  mainMemory[pageTable[t][i]] = <<t, i>>
    BY DEF Init, CodeIntact, SegmentPage
  <2>1. t = b /\ shape[t] = s
    BY DEF StartProcess
  <2>2. i \in Nat /\ i >= 1 /\ i <= FilePages(s) /\ i <= NumPages(s)
        /\ NumPages(s) <= NumPhysPages
        /\ FilePages(s) \in Nat /\ NumPages(s) \in Nat
    BY <2>1, AddrSpaceAssumption DEF FilePages, NumPages, StartProcess
  <2>3. pageTable[t][i] = i - 1
    BY <2>1, <2>2 DEF StartProcess
  <2>4. i - 1 \in Memory /\ i - 1 < FilePages(s)
    BY <2>2, AddrSpaceAssumption DEF Memory
  <2>5. mainMemory[i - 1] = <<t, (i - 1) + 1>>
    BY <2>1, <2>4 DEF StartProcess
  <2> QED BY <2>2, <2>3, <2>5
<1>2. Inv /\ CodeIntact /\ [Next]_vars => CodeIntact'
  <2> SUFFICES ASSUME Inv, CodeIntact, [Next]_vars PROVE CodeIntact'
    OBVIOUS
  <2>1. CASE UNCHANGED vars
    BY <2>1 DEF vars, CodeIntact, SegmentPage, Mapped
  <2>2. CASE Next
    BY <2>2, CodeStep, Zenon DEF CodeIntact, SegmentPage
  <2> QED BY <2>1, <2>2
<1> QED BY <1>1, <1>2, InvHolds, PTL DEF Spec

-----------------------------------------------------------------------------
(* STable: the named semaphores keep their names and their tokens, for any *)
(* number of processes, names and slots.  Tokens can be counted by name    *)
(* only while a name has one slot, and the count of a new semaphore starts *)
(* right only because nobody waited or signalled before it was created.    *)

\* Wait and Signal of a name that was never created return -1.
NothingBefore ==
    \A n \in Name : created[n] = NoSem => passed[n] = 0 /\ signalled[n] = 0

\* P() takes the value to 0 and no further, unless the value began below 0.
ValuesKept ==
    \A i \in bm : created[semTab[i].name] >= 0 => semTab[i].value >= 0

STableInv ==
    STableTypeOK /\ NamesUnique /\ TokensExact /\ NothingBefore /\ ValuesKept

\* The empty table of STable::STable satisfies the invariant.
LEMMA STableInitInv == STableInit => STableInv
BY STableAssumption
   DEF STableInit, STableInv, STableTypeOK, NamesUnique, TokensExact,
       NothingBefore, ValuesKept, Named, Slots

\* STable::Create takes a clear slot for a name that no marked slot has.
LEMMA CreateInv ==
  ASSUME STableInv, NEW p \in Process, NEW n \in Name, NEW v \in InitVals, Create(p, n, v)
  PROVE  STableInv'
<1>1. PICK i \in Slots : /\ i \notin bm
                         /\ bm' = bm \cup {i}
                         /\ semTab' = [semTab EXCEPT ![i] = Sem(n, v)]
  BY Zenon DEF Create, FindFreeSlot
<1>2. /\ Sem(n, v) \in [name : Name, value : Int]
      /\ Sem(n, v).name = n
      /\ Sem(n, v).value = v
      /\ Sem(n, v) # NoSem
      /\ v # NoSem
      /\ v \in Int
  BY STableAssumption DEF Sem
<1>3. /\ created' = [created EXCEPT ![n] = v]
      /\ UNCHANGED <<at, slot, signalled, passed>>
      /\ \A j \in bm : semTab[j].name # n
  BY DEF Create, Named
<1>4. STableTypeOK'
  BY <1>1, <1>2, <1>3 DEF STableInv, STableTypeOK
<1>5. /\ semTab'[i] = Sem(n, v)
      /\ \A j \in bm : semTab'[j] = semTab[j]
  BY <1>1 DEF STableInv, STableTypeOK
<1>6. NamesUnique'
  BY <1>1, <1>2, <1>3, <1>5 DEF STableInv, STableTypeOK, NamesUnique, Named
<1>7. TokensExact' /\ ValuesKept'
  <2>1. created[n] = NoSem
    BY <1>3 DEF STableInv, NamesUnique, Named
  <2>2. \A j \in bm : semTab[j].name \in Name /\ semTab[j].name # n
    BY <1>3 DEF STableInv, STableTypeOK
  <2>3. \A j \in bm : created'[semTab[j].name] = created[semTab[j].name]
    BY <1>3, <2>2 DEF STableInv, STableTypeOK
  <2>4. created'[n] = v /\ passed[n] = 0 /\ signalled[n] = 0
    BY <1>3, <2>1 DEF STableInv, STableTypeOK, NothingBefore
  <2>5. \A j \in bm' : j = i \/ (j \in bm /\ semTab[j].value \in Int)
    BY <1>1 DEF STableInv, STableTypeOK
  <2>6. TokensExact'
    BY <1>1, <1>2, <1>3, <1>5, <2>3, <2>4, <2>5 DEF STableInv, TokensExact
  <2>7. ValuesKept'
    BY <1>1, <1>2, <1>3, <1>5, <2>3, <2>4, <2>5 DEF STableInv, ValuesKept
  <2> QED BY <2>6, <2>7
<1>8. NothingBefore'
  BY <1>2, <1>3 DEF STableInv, STableTypeOK, NothingBefore
<1> QED BY <1>4, <1>6, <1>7, <1>8 DEF STableInv

\* STable::Wait up to P() changes no semaphore.
LEMMA WaitInv ==
  ASSUME STableInv, NEW p \in Process, NEW n \in Name, Wait(p, n)
  PROVE  STableInv'
<1>1. STableTypeOK'
  BY DEF STableInv, STableTypeOK, Wait, First, Named, history
<1>2. NamesUnique' /\ TokensExact' /\ NothingBefore' /\ ValuesKept'
  BY DEF STableInv, Wait, NamesUnique, TokensExact, NothingBefore, ValuesKept, Named, history
<1> QED BY <1>1, <1>2 DEF STableInv

\* P() takes one token of the semaphore that Wait found.
LEMMA DownInv ==
  ASSUME STableInv, NEW p \in Process, Down(p)
  PROVE  STableInv'
<1> DEFINE i == slot[p]
           n == semTab[i].name
<1>1. /\ i \in bm /\ i \in Slots
      /\ semTab[i] \in [name : Name, value : Int]
      /\ n \in Name
      /\ semTab[i].value \in Int \ {0}
  BY DEF STableInv, STableTypeOK, Down
<1>2. /\ semTab' = [semTab EXCEPT ![i].value = @ - 1]
      /\ passed' = [passed EXCEPT ![n] = @ + 1]
      /\ UNCHANGED <<bm, slot, created, signalled>>
      /\ at' = [at EXCEPT ![p] = "user"]
  BY DEF Down
<1>3. /\ semTab'[i] = [name |-> n, value |-> semTab[i].value - 1]
      /\ \A j \in Slots \ {i} : semTab'[j] = semTab[j]
  BY <1>1, <1>2 DEF STableInv, STableTypeOK
<1> HIDE DEF i, n
<1>4. /\ semTab'[i] \in [name : Name, value : Int]
      /\ semTab'[i] # NoSem
      /\ semTab'[i].name = n
      /\ semTab'[i].value = semTab[i].value - 1
  BY <1>1, <1>3, STableAssumption
<1>5. STableTypeOK'
  <2>1. semTab' \in [Slots -> [name : Name, value : Int] \cup {NoSem}]
    BY <1>1, <1>2, <1>3, <1>4 DEF STableInv, STableTypeOK
  <2> QED BY <1>1, <1>2, <1>3, <1>4, <2>1 DEF STableInv, STableTypeOK
<1>6. NamesUnique'
  BY <1>1, <1>2, <1>3, <1>4 DEF STableInv, STableTypeOK, NamesUnique, Named, n
<1>7. TokensExact'
  <2> SUFFICES ASSUME NEW j \in bm'
               PROVE  semTab'[j].value + passed'[semTab'[j].name] =
                        created'[semTab'[j].name] + signalled'[semTab'[j].name]
    BY DEF TokensExact
  <2>1. CASE j = i
    BY <1>1, <1>2, <1>4, <2>1
       DEF STableInv, STableTypeOK, NamesUnique, TokensExact, NothingBefore, Named, n
  <2>2. CASE j # i
    BY <1>1, <1>2, <1>3, <2>2 DEF STableInv, STableTypeOK, NamesUnique, TokensExact, n
  <2> QED BY <2>1, <2>2
<1>8. NothingBefore'
  BY <1>1, <1>2 DEF STableInv, STableTypeOK, NamesUnique, NothingBefore, Named, n
<1>9. ValuesKept'
  <2> SUFFICES ASSUME NEW j \in bm', created'[semTab'[j].name] >= 0
               PROVE  semTab'[j].value >= 0
    BY DEF ValuesKept
  <2>1. CASE j = i
    BY <1>1, <1>2, <1>4, <2>1 DEF STableInv, ValuesKept, n
  <2>2. CASE j # i
    BY <1>2, <1>3, <2>2 DEF STableInv, STableTypeOK, ValuesKept
  <2> QED BY <2>1, <2>2
<1> QED BY <1>5, <1>6, <1>7, <1>8, <1>9 DEF STableInv

\* V() gives one token to the semaphore that Signal found.
LEMMA SignalInv ==
  ASSUME STableInv, NEW p \in Process, NEW n \in Name, Signal(p, n)
  PROVE  STableInv'
<1>1. PICK i \in Slots : /\ i \in bm
                         /\ semTab[i].name = n
                         /\ semTab' = [semTab EXCEPT ![i].value = @ + 1]
  BY Zenon DEF Signal, First, Named
<1>2. /\ signalled' = [signalled EXCEPT ![n] = @ + 1]
      /\ UNCHANGED <<bm, at, slot, created, passed>>
  BY DEF Signal
<1>3. semTab[i] \in [name : Name, value : Int]
  BY <1>1 DEF STableInv, STableTypeOK
<1>4. /\ semTab'[i] = [name |-> n, value |-> semTab[i].value + 1]
      /\ \A j \in Slots \ {i} : semTab'[j] = semTab[j]
  BY <1>1, <1>3 DEF STableInv, STableTypeOK
<1>5. /\ semTab'[i] \in [name : Name, value : Int]
      /\ semTab'[i] # NoSem
      /\ semTab'[i].name = n
      /\ semTab'[i].value = semTab[i].value + 1
  BY <1>3, <1>4, STableAssumption
<1>6. STableTypeOK'
  <2>1. semTab' \in [Slots -> [name : Name, value : Int] \cup {NoSem}]
    BY <1>1, <1>4, <1>5 DEF STableInv, STableTypeOK
  <2> QED BY <1>1, <1>2, <1>4, <1>5, <2>1 DEF STableInv, STableTypeOK
<1>7. NamesUnique'
  BY <1>1, <1>2, <1>4, <1>5 DEF STableInv, STableTypeOK, NamesUnique, Named
<1>8. TokensExact'
  <2> SUFFICES ASSUME NEW j \in bm'
               PROVE  semTab'[j].value + passed'[semTab'[j].name] =
                        created'[semTab'[j].name] + signalled'[semTab'[j].name]
    BY DEF TokensExact
  <2>1. CASE j = i
    <3>1. created[n] \in Int
      BY <1>1 DEF STableInv, STableTypeOK, NamesUnique, Named
    <3>2. semTab[i].value + passed[n] = created[n] + signalled[n]
      BY <1>1 DEF STableInv, TokensExact
    <3>3. /\ passed[n] \in Nat
          /\ signalled[n] \in Nat
          /\ signalled'[n] = signalled[n] + 1
      BY <1>2 DEF STableInv, STableTypeOK
    <3> QED BY <1>2, <1>3, <1>5, <2>1, <3>1, <3>2, <3>3
  <2>2. CASE j # i
    BY <1>1, <1>2, <1>4, <2>2 DEF STableInv, STableTypeOK, NamesUnique, TokensExact
  <2> QED BY <2>1, <2>2
<1>9. NothingBefore'
  BY <1>1, <1>2 DEF STableInv, STableTypeOK, NamesUnique, NothingBefore, Named
<1>10. ValuesKept'
  <2> SUFFICES ASSUME NEW j \in bm', created'[semTab'[j].name] >= 0
               PROVE  semTab'[j].value >= 0
    BY DEF ValuesKept
  <2>1. CASE j = i
    BY <1>1, <1>2, <1>3, <1>5, <2>1 DEF STableInv, ValuesKept
  <2>2. CASE j # i
    BY <1>2, <1>4, <2>2 DEF STableInv, STableTypeOK, ValuesKept
  <2> QED BY <2>1, <2>2
<1> QED BY <1>6, <1>7, <1>8, <1>9, <1>10 DEF STableInv

\* Every step of the three system calls keeps the invariant.
LEMMA STableInvHolds == STableSpec => []STableInv
<1>1. STableInv /\ [STableNext]_stableVars => STableInv'
  <2> SUFFICES ASSUME STableInv, [STableNext]_stableVars PROVE STableInv'
    OBVIOUS
  <2>1. CASE UNCHANGED stableVars
    <3>1. /\ bm' = bm /\ semTab' = semTab /\ at' = at /\ slot' = slot
          /\ created' = created /\ signalled' = signalled /\ passed' = passed
      BY <2>1, Zenon DEF stableVars, history
    <3>2. STableTypeOK'
      BY <3>1, Zenon DEF STableInv, STableTypeOK
    <3>3. NamesUnique' /\ NothingBefore'
      BY <3>1, Zenon DEF STableInv, NamesUnique, NothingBefore, Named
    <3>4. TokensExact' /\ ValuesKept'
      BY <3>1, Zenon DEF STableInv, TokensExact, ValuesKept
    <3> QED BY <3>2, <3>3, <3>4, Zenon DEF STableInv
  <2>2. CASE STableNext
    BY <2>2, CreateInv, WaitInv, DownInv, SignalInv DEF STableNext
  <2> QED BY <2>1, <2>2
<1> QED BY <1>1, STableInitInv, PTL DEF STableSpec

\* A semaphore that CreateSemaphore gave a value that is not negative lets
\* through at most that value and the Signals, for any number of processes.
THEOREM NeverOverdrawnHolds == STableSpec => []NeverOverdrawn
<1>1. STableInv => NeverOverdrawn
  <2> SUFFICES ASSUME STableInv, NEW n \in Name, created[n] # NoSem, created[n] >= 0
               PROVE  passed[n] <= created[n] + signalled[n]
    BY DEF NeverOverdrawn
  <2>1. PICK i \in bm : semTab[i].name = n
    BY DEF STableInv, NamesUnique, Named
  <2>2. semTab[i].value + passed[n] = created[n] + signalled[n] /\ semTab[i].value >= 0
    BY <2>1 DEF STableInv, TokensExact, ValuesKept
  <2>3. /\ semTab[i].value \in Int /\ created[n] \in Int
        /\ passed[n] \in Nat /\ signalled[n] \in Nat
    BY DEF STableInv, STableTypeOK
  <2> QED BY <2>2, <2>3
<1> QED BY <1>1, STableInvHolds, PTL

\* CreateSemaphore never gives a name a second semaphore.
THEOREM NamesCorrect == STableSpec => []NamesUnique
<1>1. STableInv => NamesUnique
  BY DEF STableInv
<1> QED BY <1>1, STableInvHolds, PTL

\* Wait and Signal neither lose nor make tokens of any name.
THEOREM TokensCorrect == STableSpec => []TokensExact
<1>1. STableInv => TokensExact
  BY DEF STableInv
<1> QED BY <1>1, STableInvHolds, PTL
=============================================================================
