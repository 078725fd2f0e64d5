--------------------------- MODULE ProcTableSteps ---------------------------
(***************************************************************************)
(* What the proofs about ProcTable share: the inductive invariant, the     *)
(* kinds of step, and how a step keeps the types, the lock of ExecUpdate   *)
(* and the slots given out.                                                *)
(***************************************************************************)
EXTENDS ProcTable, WellFoundedInduction, TLAPS

-----------------------------------------------------------------------------
(* The inductive invariant: Core. *)

\* The part of ExecUpdate that holds bmsem.
InExec == {"Exec.slot", "Exec.fork", "Exec.multexV", "Exec.bmsemV"}

\* bmsem is a lock: one thread is inside ExecUpdate, and none while it is free.
Locked ==
    /\ bmsem \in {0, 1}
    /\ \A t \in Proc : pc[t] \in InExec => bmsem = 0
    /\ \A t, u \in Proc : pc[t] \in InExec /\ pc[u] \in InExec => t = u

\* Where the local variable slot has a value.
WithSlot == {"Exec.fork", "Exec.multexV", "Exec.bmsemV", "Exec.return",
             "Join.multexP", "Join.inc", "Join.joinsemP", "Join.release"}
Exiting == {"Exit.multexP", "Exit.dec", "Exit.joinsemV", "Exit.exitsemP",
            "Exit.remove"}

\* A slot about to be given to a child is marked and nobody's; a process in
\* Exit is not process 0 and has left its status in its PCB.
Slots ==
    /\ 0 \in bm
    /\ \A t \in Proc : pc[t] \in WithSlot => slot[t] \in Slot
    /\ \A t \in Proc : pc[t] = "Exec.fork" =>
          /\ slot[t] \in bm
          /\ slot[t] # 0
          /\ sems[slot[t]] = "live"
          /\ \A u \in Alive : processID[u] # slot[t]
    /\ \A t \in Proc : pc[t] \in Exiting =>
          /\ processID[t] # 0
          /\ exitArg[t] = exitcode[processID[t]]

\* The process of slot i waits for its parent to release it.
Waits(i) ==
    /\ thread[i] \in Proc
    /\ pc[thread[i]] = "Exit.exitsemP"
    /\ processID[thread[i]] = i

Releases(t, i) == pc[t] = "Join.release" /\ slot[t] = i

\* The handshake of Join and Exit: one token goes from the child's JoinRelease
\* through joinsem, one parent and exitsem back to the child, which waits
\* meanwhile.
Token(i) ==
    /\ joinsem[i] \in {0, 1} /\ exitsem[i] \in {0, 1}
    /\ joinsem[i] = 1 => Waits(i) /\ exitsem[i] = 0
    /\ exitsem[i] = 1 => Waits(i)
    /\ \A t \in Proc : Releases(t, i) => Waits(i) /\ joinsem[i] = 0 /\ exitsem[i] = 0
    /\ \A t, u \in Proc : Releases(t, i) /\ Releases(u, i) => t = u

Handshake == \A i \in Slot : Token(i)

Core == TypeOK /\ Locked /\ Slots /\ PidsExact /\ Handshake

\* The variables that the invariant speaks of, apart from pc.
Seen == <<bm, bmsem, sems, parentID, exitcode, thread, joinsem, exitsem, processID,
          slot, children, exitArg>>

\* A step that matters to the types only: it changes nothing that the invariant
\* speaks of and moves its thread, if at all, between places it treats alike.
Quiet(t) ==
    /\ UNCHANGED Seen
    /\ \/ pc' = pc
       \/ /\ pc' = [pc EXCEPT ![t] = pc'[t]]
          /\ \/ pc[t] = "user" /\ pc'[t] = "Exec.bmsemP"
             \/ pc[t] = "start" /\ pc'[t] = "user"
             \/ pc[t] = "Exec.multexV" /\ pc'[t] = "Exec.bmsemV"
             \/ pc[t] = "Join.multexP" /\ pc'[t] = "Join.inc"
             \/ pc[t] = "Join.inc" /\ pc'[t] = "Join.joinsemP"
             \/ pc[t] = "Exit.multexP" /\ pc'[t] = "Exit.dec"
             \/ pc[t] = "Exit.dec" /\ pc'[t] = "Exit.joinsemV"

\* Steps that give out no pid, take none back and set no exit code.
Plain(t) ==
    \/ \E i \in Slot : CallJoin(t, i)
    \/ ExecLock(t) \/ ExecRefused(t) \/ ExecUnlock(t) \/ ExecReturn(t)
    \/ JoinWait(t) \/ JoinReturn(t) \/ JoinRelease(t) \/ ExitWait(t)

-----------------------------------------------------------------------------
\* BitMap::Find gives a clear bit when there is one.
LEMMA FirstFree == ASSUME Free # {} PROVE GetFreeSlot \in Free
<1>1. Free \subseteq Nat
  BY ProcTableAssumption DEF Free, Slot
<1>2. PICK i \in Free : \A j \in Free : <<j, i>> \notin OpToRel(<, Nat)
  BY <1>1, WFMin, NatLessThanWellFounded, Zenon
<1>3. \A j \in Free : i <= j
  <2> TAKE j \in Free
  <2>1. j \in Nat /\ i \in Nat BY <1>1
  <2>2. ~(j < i)
    BY <1>2, <2>1, Zenon DEF OpToRel
  <2> QED BY <2>1, <2>2
<1> QED BY <1>3 DEF GetFreeSlot

\* Slots are numbers; 0 is one of them, Nobody is not.
LEMMA SlotFacts ==
    /\ 0 \in Slot
    /\ Nobody \notin Slot
    /\ Slot \subseteq Nat
    /\ Nobody # 0
BY ProcTableAssumption DEF Slot, Nobody

\* The types that the steps below need.
LEMMA Types ==
    ASSUME TypeOK
    PROVE  /\ pc \in [Proc -> Pc] /\ bm \subseteq Slot
           /\ processID \in [Proc -> Slot \cup {Nobody}]
           /\ slot \in [Proc -> Slot \cup {Nobody}]
           /\ thread \in [Slot -> Proc \cup {NoProc}]
           /\ exitArg \in [Proc -> Status \cup {NotCalled}]
           /\ sems \in [Slot -> {"null", "live", "deleted"}]
           /\ exitcode \in [Slot -> Status]
           /\ joinsem \in [Slot -> Nat] /\ exitsem \in [Slot -> Nat]
BY DEF TypeOK

\* A V() keeps a table of semaphore values one.
LEMMA ValueUp ==
    ASSUME NEW f \in [Slot -> Nat], NEW i
    PROVE  [f EXCEPT ![i] = @ + 1] \in [Slot -> Nat]
<1>1. ASSUME NEW j \in Slot PROVE [f EXCEPT ![i] = @ + 1][j] \in Nat
  BY <1>1
<1> QED BY <1>1, Zenon

\* So does a P() that gets its unit.
LEMMA ValueDown ==
    ASSUME NEW f \in [Slot -> Nat], NEW i, i \in Slot => f[i] > 0
    PROVE  [f EXCEPT ![i] = @ - 1] \in [Slot -> Nat]
<1>1. ASSUME NEW j \in Slot PROVE [f EXCEPT ![i] = @ - 1][j] \in Nat
  BY <1>1
<1> QED BY <1>1, Zenon

\* So does an assignment of a counter, as in IncNumWait and DecNumWait.
LEMMA ValueSet ==
    ASSUME NEW f \in [Slot -> Nat], NEW i, NEW n, i \in Slot => n \in Nat
    PROVE  [f EXCEPT ![i] = n] \in [Slot -> Nat]
BY Zenon

\* Every step of a process keeps the types.
LEMMA TypeStep ==
    ASSUME TypeOK, Slots, NEW t \in Proc, Step(t), UNCHANGED disciplined
    PROVE  TypeOK'
<1> USE ProcTableAssumption, SlotFacts DEF TypeOK, table, pcbs, threads, At, Goto, Pc,
   Status, NotCalled
<1>1. ASSUME NEW p \in Prog, CallExec(t, p) PROVE TypeOK'
  BY <1>1 DEF CallExec
<1>2. ASSUME NEW i \in Slot, CallJoin(t, i) PROVE TypeOK'
  BY <1>2 DEF CallJoin
<1>3. ASSUME NEW status \in Status, CallExit(t, status) PROVE TypeOK'
  BY <1>3 DEF CallExit
<1>4. CASE ExecLock(t)
  BY <1>4 DEF ExecLock
<1>5. CASE ExecRefused(t)
  <2>1. bm' \subseteq Slot
    <3>1. CASE Free = {}
      BY <1>5, <3>1 DEF ExecRefused
    <3>2. CASE Free # {}
      <4>1. GetFreeSlot \in Slot
        BY <3>2, FirstFree DEF Free
      <4> QED BY <1>5, <3>2, <4>1 DEF ExecRefused
    <3> QED BY <3>1, <3>2
  <2>2. bmsem' \in Nat
    BY <1>5 DEF ExecRefused
  <2> QED BY <1>5, <2>1, <2>2 DEF ExecRefused
<1>6. CASE NewPCB(t)
  BY <1>6, FirstFree, Zenon DEF NewPCB, NewPCBWith, Free
<1>7. ASSUME NEW u \in Proc, ExecFork(t, u) PROVE TypeOK'
  BY <1>7, Zenon DEF ExecFork
<1>8. CASE ExecMultexV(t)
  <2>1. multex' \in [Slot -> Nat]
    BY <1>8, ValueUp DEF ExecMultexV
  <2> QED BY <1>8, <2>1 DEF ExecMultexV
<1>9. CASE ExecUnlock(t)
  BY <1>9 DEF ExecUnlock
<1>10. CASE ExecReturn(t)
  <2>1. slot[t] \in Slot
    BY <1>10 DEF ExecReturn, Slots, WithSlot
  <2> QED BY <1>10, <2>1 DEF ExecReturn
<1>11. CASE StartProcessID(t)
  BY <1>11 DEF StartProcessID
<1>12. CASE JoinMultexP(t)
  <2>1. multex' \in [Slot -> Nat]
    BY <1>12, ValueDown DEF JoinMultexP, TakeMultex
  <2> QED BY <1>12, <2>1 DEF JoinMultexP, TakeMultex
<1>13. CASE IncNumWait(t)
  <2> DEFINE i == parentID[slot[t]]
  <2>1. i \in Slot => numwait[i] \in Nat
    BY Zenon
  <2> HIDE DEF i
  <2>2. i \in Slot => (numwait[i] + 1) \in Nat
    BY <2>1
  <2>3. numwait' = [numwait EXCEPT ![i] = numwait[i] + 1]
    BY <1>13 DEF IncNumWait, SetNumWait, i
  <2>4. numwait' \in [Slot -> Nat]
    BY <2>2, <2>3, ValueSet
  <2>5. multex' \in [Slot -> Nat]
    BY <1>13, ValueUp DEF IncNumWait, SetNumWait
  <2> QED BY <1>13, <2>4, <2>5 DEF IncNumWait, SetNumWait
<1>14. CASE JoinWait(t)
  <2>1. joinsem' \in [Slot -> Nat]
    BY <1>14, ValueDown DEF JoinWait
  <2> QED BY <1>14, <2>1 DEF JoinWait
<1>15. CASE JoinReturn(t)
  <2>1. exitsem' \in [Slot -> Nat]
    BY <1>15, ValueUp DEF JoinReturn
  <2> QED BY <1>15, <2>1 DEF JoinReturn
<1>16. CASE ExitMultexP(t)
  <2>1. multex' \in [Slot -> Nat]
    BY <1>16, ValueDown DEF ExitMultexP, TakeMultex
  <2> QED BY <1>16, <2>1 DEF ExitMultexP, TakeMultex
<1>17. CASE DecNumWait(t)
  <2> DEFINE i == parentID[processID[t]]
  <2>1. i \in Slot => numwait[i] \in Nat
    BY Zenon
  <2> HIDE DEF i
  <2>2. i \in Slot => (IF numwait[i] > 0 THEN numwait[i] - 1 ELSE 0) \in Nat
    BY <2>1
  <2>3. numwait' = [numwait EXCEPT ![i] = IF numwait[i] > 0 THEN numwait[i] - 1 ELSE 0]
    BY <1>17 DEF DecNumWait, SetNumWait, i
  <2>4. numwait' \in [Slot -> Nat]
    BY <2>2, <2>3, ValueSet
  <2>5. multex' \in [Slot -> Nat]
    BY <1>17, ValueUp DEF DecNumWait, SetNumWait
  <2> QED BY <1>17, <2>4, <2>5 DEF DecNumWait, SetNumWait
<1>18. CASE JoinRelease(t)
  <2>1. joinsem' \in [Slot -> Nat]
    BY <1>18, ValueUp DEF JoinRelease
  <2> QED BY <1>18, <2>1 DEF JoinRelease
<1>19. CASE ExitWait(t)
  <2>1. exitsem' \in [Slot -> Nat]
    BY <1>19, ValueDown DEF ExitWait
  <2> QED BY <1>19, <2>1 DEF ExitWait
<1>20. CASE Remove(t)
  BY <1>20, Zenon DEF Remove
<1>21. CASE Crash(t)
  BY <1>21 DEF Crash
<1>22. CASE Halt(t)
  BY <1>22 DEF Halt
<1> HIDE SlotFacts DEF TypeOK, table, pcbs, threads, At, Goto, Pc, Status, NotCalled
<1> QED
  BY <1>1, <1>2, <1>3, <1>4, <1>5, <1>6, <1>7, <1>8, <1>9, <1>10, <1>11, <1>12,
     <1>13, <1>14, <1>15, <1>16, <1>17, <1>18, <1>19, <1>20, <1>21, <1>22 DEF Step,
     KernelStep

\* A quiet step leaves every thread in the classes of places it was in.
LEMMA QuietMoves ==
    ASSUME TypeOK, NEW t \in Proc, Quiet(t), NEW u \in Proc
    PROVE  /\ pc'[u] = "none" <=> pc[u] = "none"
           /\ pc'[u] \in InExec <=> pc[u] \in InExec
           /\ pc'[u] \in WithSlot <=> pc[u] \in WithSlot
           /\ pc'[u] \in Exiting <=> pc[u] \in Exiting
           /\ pc'[u] = "Exec.fork" <=> pc[u] = "Exec.fork"
           /\ pc'[u] = "Exit.exitsemP" <=> pc[u] = "Exit.exitsemP"
           /\ pc'[u] = "Exit.remove" <=> pc[u] = "Exit.remove"
           /\ pc'[u] = "Join.release" <=> pc[u] = "Join.release"
           /\ pc'[u] \in {"Exec.multexV", "Exec.bmsemV", "Exec.return"}
                <=> pc[u] \in {"Exec.multexV", "Exec.bmsemV", "Exec.return"}
           /\ pc'[u] \in {"Join.multexP", "Join.inc", "Join.joinsemP", "Join.release"}
                <=> pc[u] \in {"Join.multexP", "Join.inc", "Join.joinsemP", "Join.release"}
<1>1. pc \in [Proc -> Pc]
  BY Types
<1>2. CASE u # t
  <2>1. pc'[u] = pc[u]
    BY <1>1, <1>2 DEF Quiet
  <2> QED BY <2>1
<1>3. CASE u = t
  BY <1>1, <1>3 DEF Quiet, InExec, WithSlot, Exiting
<1> QED BY <1>2, <1>3

\* The steps that are not quiet.
LEMMA Kinds ==
    ASSUME TypeOK, NEW t \in Proc, Step(t)
    PROVE  \/ Quiet(t)
           \/ \E i \in Slot : CallJoin(t, i)
           \/ \E status \in Status : CallExit(t, status)
           \/ ExecLock(t) \/ ExecRefused(t) \/ NewPCB(t)
           \/ \E u \in Proc : ExecFork(t, u)
           \/ ExecUnlock(t) \/ ExecReturn(t)
           \/ JoinWait(t) \/ JoinReturn(t)
           \/ JoinRelease(t) \/ ExitWait(t) \/ Remove(t)
<1>1. pc \in [Proc -> Pc]
  BY Types
<1>2. (\E p \in Prog : CallExec(t, p)) => Quiet(t)
  BY <1>1 DEF CallExec, Quiet, Seen, table, pcbs, At, Goto
<1>3. ExecMultexV(t) \/ StartProcessID(t) => Quiet(t)
  BY <1>1 DEF ExecMultexV, StartProcessID, Quiet, Seen, table, pcbs, At, Goto
<1>4. JoinMultexP(t) \/ ExitMultexP(t) => Quiet(t)
  BY <1>1 DEF JoinMultexP, ExitMultexP, TakeMultex, Quiet, Seen, table, At, Goto
<1>5. IncNumWait(t) \/ DecNumWait(t) => Quiet(t)
  BY <1>1 DEF IncNumWait, DecNumWait, SetNumWait, Quiet, Seen, table, At, Goto
<1>6. Crash(t) \/ Halt(t) => Quiet(t)
  BY DEF Crash, Halt, Quiet, Seen, table, pcbs, threads
<1> QED BY <1>2, <1>3, <1>4, <1>5, <1>6 DEF Step, KernelStep

\* ExecUpdate keeps bmsem a lock.
LEMMA LockedStep ==
    ASSUME TypeOK, Locked, NEW t \in Proc, Step(t)
    PROVE  Locked'
<1>1. CASE Quiet(t)
  BY <1>1, QuietMoves DEF Quiet, Seen, Locked
<1>t. pc \in [Proc -> Pc]
  BY Types
<1> USE <1>t DEF Locked, InExec, table, threads, At, Goto
<1>2. ASSUME NEW i \in Slot, CallJoin(t, i) PROVE Locked'
  <2>1. bmsem' = bmsem /\ \A v \in Proc : pc'[v] \in InExec => pc[v] \in InExec
    BY <1>2 DEF CallJoin, InExec
  <2> QED BY <2>1, Zenon DEF Locked
<1>3. ASSUME NEW status \in Status, CallExit(t, status) PROVE Locked'
  BY <1>3 DEF CallExit
<1>4. CASE ExecLock(t)
  BY <1>4 DEF ExecLock
<1>5. CASE ExecRefused(t)
  BY <1>5 DEF ExecRefused
<1>6. CASE NewPCB(t)
  BY <1>6 DEF NewPCB, NewPCBWith
<1>7. ASSUME NEW u \in Proc, ExecFork(t, u) PROVE Locked'
  BY <1>7 DEF ExecFork
<1>8. CASE ExecUnlock(t)
  BY <1>8 DEF ExecUnlock
<1>9. CASE ExecReturn(t)
  BY <1>9 DEF ExecReturn
<1> HIDE DEF Locked, InExec
<1>10. CASE JoinWait(t)
  <2>1. bmsem' = bmsem /\ \A v \in Proc : pc'[v] \in InExec => pc[v] \in InExec
    BY <1>10 DEF JoinWait, InExec
  <2> QED BY <2>1, Zenon DEF Locked
<1>11. CASE JoinReturn(t)
  <2>1. bmsem' = bmsem /\ \A v \in Proc : pc'[v] \in InExec => pc[v] \in InExec
    BY <1>11 DEF JoinReturn, InExec
  <2> QED BY <2>1, Zenon DEF Locked
<1>12. CASE JoinRelease(t)
  <2>1. bmsem' = bmsem /\ \A v \in Proc : pc'[v] \in InExec => pc[v] \in InExec
    BY <1>12 DEF JoinRelease, InExec
  <2> QED BY <2>1, Zenon DEF Locked
<1>13. CASE ExitWait(t)
  <2>1. bmsem' = bmsem /\ \A v \in Proc : pc'[v] \in InExec => pc[v] \in InExec
    BY <1>13 DEF ExitWait, InExec
  <2> QED BY <2>1, Zenon DEF Locked
<1>14. CASE Remove(t)
  <2>1. bmsem' = bmsem /\ \A v \in Proc : pc'[v] \in InExec => pc[v] \in InExec
    BY <1>14 DEF Remove, InExec
  <2> QED BY <2>1, Zenon DEF Locked
<1> HIDE <1>t DEF table, threads, At, Goto
<1> QED
  BY <1>1, <1>2, <1>3, <1>4, <1>5, <1>6, <1>7, <1>8, <1>9, <1>10, <1>11, <1>12,
     <1>13, <1>14, Kinds

\* What such a step keeps.
LEMMA PlainMoves ==
    ASSUME TypeOK, Slots, NEW t \in Proc, Plain(t)
    PROVE  /\ bm \subseteq bm' /\ UNCHANGED <<sems, processID, thread, exitArg, exitcode>>
           /\ \A v \in Proc : /\ pc'[v] \in WithSlot => slot'[v] \in Slot
                              /\ pc'[v] = "Exec.fork" => /\ pc[v] = "Exec.fork"
                                                         /\ slot'[v] = slot[v]
                              /\ pc'[v] \in Exiting => pc[v] \in Exiting
                              /\ pc'[v] # "none" => pc[v] # "none"
<1>1. pc \in [Proc -> Pc] /\ slot \in [Proc -> Slot \cup {Nobody}]
  BY Types
<1>2. \A v \in Proc : pc[v] \in WithSlot => slot[v] \in Slot
  BY Zenon DEF Slots
<1>3. PICK from \in Pc, to \in Pc :
         /\ bm \subseteq bm' /\ UNCHANGED <<sems, processID, thread, exitArg, exitcode>>
         /\ pc[t] = from /\ pc' = [pc EXCEPT ![t] = to]
         /\ from # "none" /\ to # "Exec.fork"
         /\ to \in Exiting => from \in Exiting
         /\ \/ UNCHANGED slot /\ (to \in WithSlot => from \in WithSlot)
            \/ \E i \in Slot : slot' = [slot EXCEPT ![t] = i]
            \/ slot' = [slot EXCEPT ![t] = Nobody] /\ to \notin WithSlot
  <2> USE DEF At, Goto, Pc, Exiting, WithSlot, table, pcbs
  <2>1. CASE \E i \in Slot : CallJoin(t, i)
    BY <2>1, Zenon DEF CallJoin
  <2>2. CASE ExecLock(t)
    BY <2>2 DEF ExecLock
  <2>3. CASE ExecRefused(t)
    BY <2>3 DEF ExecRefused
  <2>4. CASE ExecUnlock(t)
    BY <2>4 DEF ExecUnlock
  <2>5. CASE ExecReturn(t)
    BY <2>5 DEF ExecReturn
  <2>6. CASE JoinWait(t)
    BY <2>6 DEF JoinWait
  <2>7. CASE JoinReturn(t)
    BY <2>7 DEF JoinReturn
  <2>8. CASE JoinRelease(t)
    BY <2>8 DEF JoinRelease
  <2>9. CASE ExitWait(t)
    BY <2>9 DEF ExitWait
  <2> HIDE DEF At, Goto, Pc, Exiting, WithSlot, table, pcbs
  <2> QED BY <2>1, <2>2, <2>3, <2>4, <2>5, <2>6, <2>7, <2>8, <2>9 DEF Plain
<1>4. ASSUME NEW v \in Proc
      PROVE  /\ pc'[v] \in WithSlot => slot'[v] \in Slot
             /\ pc'[v] = "Exec.fork" => pc[v] = "Exec.fork" /\ slot'[v] = slot[v]
             /\ pc'[v] \in Exiting => pc[v] \in Exiting
             /\ pc'[v] # "none" => pc[v] # "none"
  <2>1. CASE v = t
    BY <1>1, <1>2, <1>3, <2>1
  <2>2. CASE v # t
    <3>1. pc'[v] = pc[v] /\ slot'[v] = slot[v]
      BY <1>1, <1>3, <2>2
    <3> QED BY <1>2, <3>1
  <2> QED BY <2>1, <2>2
<1> QED BY <1>3, <1>4

\* The slots given out and the processes in Exit.
LEMMA SlotsStep ==
    ASSUME TypeOK, Locked, Slots, PidsExact, TypeOK', NEW t \in Proc, Step(t)
    PROVE  Slots'
<1>1. CASE Quiet(t)
  <2>1. \A u \in Proc : /\ pc'[u] \in WithSlot <=> pc[u] \in WithSlot
                        /\ pc'[u] \in Exiting <=> pc[u] \in Exiting
                        /\ pc'[u] = "Exec.fork" <=> pc[u] = "Exec.fork"
    BY <1>1, QuietMoves
  <2>2. Alive' = Alive
    BY <1>1, QuietMoves DEF Alive
  <2> QED BY <1>1, <2>1, <2>2 DEF Quiet, Seen, Slots
<1>2. CASE Plain(t)
  <2>1. \A v \in Alive' : v \in Alive
    BY <1>2, PlainMoves DEF Alive
  <2>2. ASSUME NEW v \in Proc, pc'[v] = "Exec.fork"
        PROVE  /\ slot'[v] \in bm' /\ slot'[v] # 0 /\ sems'[slot'[v]] = "live"
               /\ \A u \in Alive' : processID'[u] # slot'[v]
    <3>1. pc[v] = "Exec.fork" /\ slot'[v] = slot[v]
      BY <1>2, <2>2, PlainMoves
    <3>2. bm \subseteq bm' /\ UNCHANGED <<sems, processID>>
      BY <1>2, PlainMoves
    <3> QED BY <2>1, <3>1, <3>2 DEF Slots
  <2>3. ASSUME NEW v \in Proc, pc'[v] \in Exiting
        PROVE  processID'[v] # 0 /\ exitArg'[v] = exitcode'[processID'[v]]
    BY <1>2, <2>3, PlainMoves DEF Slots
  <2>4. 0 \in bm' /\ \A v \in Proc : pc'[v] \in WithSlot => slot'[v] \in Slot
    BY <1>2, PlainMoves DEF Slots
  <2> QED BY <2>2, <2>3, <2>4 DEF Slots
<1>z. 0 \in bm /\ \A v \in Proc : pc[v] \in WithSlot => slot[v] \in Slot
  BY Zenon DEF Slots
<1>f. \A v \in Proc : pc[v] = "Exec.fork" =>
          /\ slot[v] \in bm /\ slot[v] # 0 /\ sems[slot[v]] = "live"
          /\ \A u \in Alive : processID[u] # slot[v]
  BY Zenon DEF Slots
<1>e. \A v \in Proc : pc[v] \in Exiting =>
          /\ processID[v] # 0 /\ exitArg[v] = exitcode[processID[v]]
          /\ v \in Alive
  BY DEF Slots, Exiting, Alive
<1>3. ASSUME NEW status \in Status, CallExit(t, status) PROVE Slots'
  <2>1. /\ bm' = bm /\ slot' = slot /\ sems' = sems /\ processID' = processID
        /\ pc[t] = "user" /\ exitArg' = [exitArg EXCEPT ![t] = status]
    BY <1>3 DEF CallExit, table, At
  <2>2. \A v \in Proc : v # t => exitArg'[v] = exitArg[v]
    BY <2>1, Types
  <2>3. CASE UNCHANGED <<pc, exitcode>>
    <3>1. pc' = pc /\ exitcode' = exitcode /\ Alive' = Alive
      BY <2>3 DEF Alive
    <3>2. \A v \in Proc : pc[v] \in Exiting => v # t
      BY <2>1 DEF Exiting
    <3> QED BY <1>z, <1>f, <1>e, <2>1, <2>2, <3>1, <3>2, Zenon DEF Slots
  <2>4. CASE /\ status = 0 /\ processID[t] # 0 /\ processID[t] \in bm
             /\ pc' = [pc EXCEPT ![t] = "Exit.multexP"]
             /\ exitcode' = [exitcode EXCEPT ![processID[t]] = status]
    <3>1. \A v \in Proc : /\ pc'[v] \in WithSlot => pc[v] \in WithSlot
                          /\ pc'[v] = "Exec.fork" => pc[v] = "Exec.fork"
                          /\ pc'[v] \in Exiting => v = t \/ pc[v] \in Exiting
                          /\ pc'[v] = "none" <=> pc[v] = "none"
      BY <2>1, <2>4, Types DEF WithSlot
    <3>2. Alive' = Alive
      BY <3>1 DEF Alive
    <3>3. exitArg'[t] = status /\ exitcode'[processID[t]] = status
      BY <2>1, <2>4, Types
    <3>4. ASSUME NEW v \in Proc, v # t, pc[v] \in Exiting
          PROVE  exitArg'[v] = exitcode'[processID[v]]
      <4>1. t \in Alive /\ v \in Alive
        BY <1>e, <2>1, <3>4 DEF Alive
      <4>2. processID[v] # processID[t]
        BY <3>4, <4>1, Zenon DEF PidsExact
      <4>3. exitcode'[processID[v]] = exitcode[processID[v]]
        BY <2>4, <4>2, Types
      <4> QED BY <1>e, <2>2, <3>4, <4>3
    <3>5. \A v \in Proc : pc'[v] \in Exiting =>
              processID[v] # 0 /\ exitArg'[v] = exitcode'[processID[v]]
      BY <1>e, <2>4, <3>1, <3>3, <3>4, Zenon
    <3> QED BY <1>z, <1>f, <2>1, <3>1, <3>2, <3>5, Zenon DEF Slots
  <2> QED BY <1>3, <2>3, <2>4 DEF CallExit, Goto
<1>4. CASE NewPCB(t)
  <2> DEFINE new == GetFreeSlot
  <2>1. new \in Slot /\ new \notin bm
    BY <1>4, FirstFree, Zenon DEF NewPCB, NewPCBWith, Free
  <2> HIDE DEF new
  <2>2. \A v \in Alive : processID[v] # new /\ processID[v] \in bm
    BY <2>1, Zenon DEF PidsExact
  <2>3. /\ bm' = bm \cup {new} /\ slot' = [slot EXCEPT ![t] = new]
        /\ sems' = [sems EXCEPT ![new] = "live"]
        /\ exitcode' = [exitcode EXCEPT ![new] = 0]
        /\ processID' = processID /\ exitArg' = exitArg
        /\ pc[t] = "Exec.slot" /\ pc' = [pc EXCEPT ![t] = "Exec.fork"]
    BY <1>4 DEF NewPCB, NewPCBWith, new, At, Goto
  <2>4. \A v \in Proc : v # t => pc'[v] = pc[v] /\ slot'[v] = slot[v]
    BY <2>3, Types
  <2>5. pc'[t] = "Exec.fork" /\ slot'[t] = new /\ sems'[new] = "live"
    BY <2>1, <2>3, Types
  <2>6. Alive' = Alive
    BY <2>3, <2>4, <2>5 DEF Alive
  <2>7. \A v \in Proc : v # t => pc'[v] # "Exec.fork"
    BY <2>3, <2>4 DEF Locked, InExec
  <2>8. 0 \in bm' /\ new \in bm' /\ new # 0
    BY <1>z, <2>1, <2>3
  <2>9. \A v \in Proc : pc'[v] \in Exiting => v # t
    BY <2>5 DEF Exiting
  <2>10. \A v \in Proc : pc'[v] \in Exiting =>
             processID'[v] # 0 /\ exitArg'[v] = exitcode'[processID'[v]]
    BY <1>e, <2>2, <2>3, <2>4, <2>9, Types
  <2>11. \A v \in Proc : pc'[v] \in WithSlot => slot'[v] \in Slot
    BY <1>z, <2>1, <2>4, <2>5
  <2>12. \A u \in Alive' : processID'[u] # new
    BY <2>2, <2>3, <2>6
  <2>13. \A v \in Proc : pc'[v] = "Exec.fork" =>
             /\ slot'[v] \in bm' /\ slot'[v] # 0 /\ sems'[slot'[v]] = "live"
             /\ \A u \in Alive' : processID'[u] # slot'[v]
    BY <2>5, <2>7, <2>8, <2>12
  <2> QED BY <2>8, <2>10, <2>11, <2>13, Zenon DEF Slots
<1>5. ASSUME NEW u \in Proc, ExecFork(t, u) PROVE Slots'
  <2>1. /\ pc[t] = "Exec.fork" /\ pc[u] = "none"
        /\ bm' = bm /\ slot' = slot /\ sems' = sems /\ exitcode' = exitcode
        /\ processID' = [processID EXCEPT ![u] = slot[t]]
        /\ exitArg' = [exitArg EXCEPT ![u] = NotCalled]
        /\ pc' = [pc EXCEPT ![t] = "Exec.multexV", ![u] = "start"]
    BY <1>5 DEF ExecFork, table, At
  <2>2. /\ pc'[t] = "Exec.multexV" /\ pc'[u] = "start"
        /\ \A v \in Proc : v # t /\ v # u => pc'[v] = pc[v]
    BY <2>1, Types
  <2>3. \A v \in Proc : pc'[v] # "Exec.fork"
    BY <2>1, <2>2, Zenon DEF Locked, InExec
  <2>4. \A v \in Proc : pc'[v] \in WithSlot => pc[v] \in WithSlot
    BY <2>1, <2>2 DEF WithSlot
  <2>5. \A v \in Proc : pc'[v] \in Exiting => v # u /\ pc[v] \in Exiting
    BY <2>2 DEF Exiting
  <2>6. \A v \in Proc : v # u => processID'[v] = processID[v] /\ exitArg'[v] = exitArg[v]
    BY <2>1, Types
  <2>7. \A v \in Proc : pc'[v] \in Exiting =>
            processID'[v] # 0 /\ exitArg'[v] = exitcode'[processID'[v]]
    BY <1>e, <2>1, <2>5, <2>6
  <2>8. \A v \in Proc : pc'[v] \in WithSlot => slot'[v] \in Slot
    BY <1>z, <2>1, <2>4
  <2> QED BY <1>z, <2>1, <2>3, <2>7, <2>8, Zenon DEF Slots
<1>6. CASE Remove(t)
  <2>1. /\ pc[t] = "Exit.remove" /\ pc' = [pc EXCEPT ![t] = "none"]
        /\ bm' = bm \ {processID[t]} /\ sems' = [sems EXCEPT ![processID[t]] = "deleted"]
        /\ processID' = [processID EXCEPT ![t] = Nobody]
        /\ exitArg' = [exitArg EXCEPT ![t] = NotCalled]
        /\ slot' = slot /\ exitcode' = exitcode
    BY <1>6 DEF Remove, At
  <2>2. t \in Alive /\ processID[t] # 0
    BY <1>e, <2>1 DEF Exiting
  <2>3. \A v \in Proc : pc'[v] # "none" => v # t /\ pc'[v] = pc[v]
    BY <2>1, Types
  <2>4. \A v \in Proc : v # t => processID'[v] = processID[v] /\ exitArg'[v] = exitArg[v]
    BY <2>1, Types
  <2>5. \A v \in Proc : /\ pc'[v] \in WithSlot => v # t /\ pc[v] \in WithSlot
                        /\ pc'[v] \in Exiting => v # t /\ pc[v] \in Exiting
                        /\ pc'[v] = "Exec.fork" => v # t /\ pc[v] = "Exec.fork"
    BY <2>3 DEF WithSlot, Exiting
  <2>6. \A u \in Alive' : u \in Alive /\ processID'[u] = processID[u]
    BY <2>3, <2>4 DEF Alive
  <2>7. 0 \in bm'
    BY <1>z, <2>1, <2>2
  <2>8. ASSUME NEW v \in Proc, pc'[v] = "Exec.fork"
        PROVE  /\ slot'[v] \in bm' /\ slot'[v] # 0 /\ sems'[slot'[v]] = "live"
               /\ \A u \in Alive' : processID'[u] # slot'[v]
    <3>1. /\ slot[v] \in bm /\ slot[v] # 0 /\ sems[slot[v]] = "live"
          /\ \A u \in Alive : processID[u] # slot[v]
      BY <1>f, <2>5, <2>8, Zenon
    <3>2. sems'[slot[v]] = sems[slot[v]] /\ slot[v] \in bm'
      BY <2>1, <2>2, <3>1, Types
    <3> QED BY <2>1, <2>6, <3>1, <3>2
  <2>9. \A v \in Proc : pc'[v] \in Exiting =>
            processID'[v] # 0 /\ exitArg'[v] = exitcode'[processID'[v]]
    BY <1>e, <2>1, <2>4, <2>5
  <2>10. \A v \in Proc : pc'[v] \in WithSlot => slot'[v] \in Slot
    BY <1>z, <2>1, <2>5
  <2> QED BY <2>7, <2>8, <2>9, <2>10, Zenon DEF Slots
<1> QED
  BY <1>1, <1>2, <1>3, <1>4, <1>5, <1>6, Kinds DEF Plain
=============================================================================
