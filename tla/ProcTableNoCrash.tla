------------------------- MODULE ProcTableNoCrash -------------------------
(***************************************************************************)
(* Proof that programs which join each child once before they exit never   *)
(* make the process table use a PCB it has deleted.                        *)
(***************************************************************************)
EXTENDS ProcTableProofs

-----------------------------------------------------------------------------
(* The inductive invariant, on top of Core. *)

\* i is a child that p has made and not yet joined.
Child(p, i) ==
    \/ i \in children[p]
    \/ pc[p] \in {"Exec.multexV", "Exec.bmsemV", "Exec.return"} /\ slot[p] = i

\* The process of slot i has not been released by a Join.
Unjoined(i) ==
    /\ i # 0
    /\ thread[i] \in Proc
    /\ pc[thread[i]] \notin {"none", "Exit.remove"}
    /\ processID[thread[i]] = i
    /\ exitsem[i] = 0

\* What programs that join each child once before they exit keep true: the
\* children a program knows of are unjoined and its own, and every process that
\* is not joined yet is such a child of a process that has not begun to exit.
OwnChild(p, i) ==
    Child(p, i) =>
        /\ pc[p] \notin {"none"} \cup Exiting
        /\ parentID[i] = processID[p]
        /\ Unjoined(i)
Known(i) == Unjoined(i) => \E p \in Proc : Child(p, i)
JoinsOwn(p) ==
    pc[p] \in {"Join.multexP", "Join.inc", "Join.joinsemP", "Join.release"}
        => slot[p] \in children[p]

Family ==
    /\ \A p \in Proc, i \in Slot : OwnChild(p, i)
    /\ \A i \in Slot : Known(i)
    /\ \A p \in Proc : JoinsOwn(p)

Families == disciplined => Family

Inv == Families /\ NoCrash

\* A step that leaves every family as it is.
Alike ==
    /\ UNCHANGED <<parentID, thread, exitsem, processID, slot, children>>
    /\ \A u \in Proc :
          /\ pc'[u] = "none" <=> pc[u] = "none"
          /\ pc'[u] \in Exiting <=> pc[u] \in Exiting
          /\ pc'[u] = "Exit.remove" <=> pc[u] = "Exit.remove"
          /\ pc'[u] \in {"Exec.multexV", "Exec.bmsemV", "Exec.return"}
               <=> pc[u] \in {"Exec.multexV", "Exec.bmsemV", "Exec.return"}
          /\ pc'[u] \in {"Join.multexP", "Join.inc", "Join.joinsemP", "Join.release"}
               <=> pc[u] \in {"Join.multexP", "Join.inc", "Join.joinsemP", "Join.release"}

-----------------------------------------------------------------------------
\* In a family the parent of a process that has begun Exit and is not released
\* is alive and has not begun to exit.
LEMMA ParentStays ==
    ASSUME Core, Family, NEW t \in Proc, pc[t] \in {"Exit.multexP", "Exit.dec"}
    PROVE  \E p \in Proc : /\ pc[p] \notin {"none"} \cup Exiting
                           /\ parentID[processID[t]] = processID[p]
<1> DEFINE i == processID[t]
<1>1. t \in Alive /\ i \in Slot /\ i # 0 /\ thread[i] = t
  <2>1. pc[t] \in Exiting /\ t \in Alive
    BY DEF Exiting, Alive
  <2> QED BY <2>1, OwnPCB, Zenon DEF Core, Slots
<1>2. exitsem[i] = 0
  BY <1>1 DEF Core, Handshake, Token, Waits
<1>3. Unjoined(i)
  BY <1>1, <1>2 DEF Unjoined
<1>4. PICK p \in Proc : Child(p, i)
  BY <1>1, <1>3 DEF Family, Known
<1> QED BY <1>1, <1>4 DEF Family, OwnChild

\* A parent joins only its own unreleased children.
LEMMA JoinsUnjoined ==
    ASSUME Core, Family, NEW t \in Proc,
           pc[t] \in {"Join.multexP", "Join.inc", "Join.joinsemP", "Join.release"}
    PROVE  /\ slot[t] \in Slot
           /\ Unjoined(slot[t])
           /\ parentID[slot[t]] = processID[t]
<1>1. slot[t] \in Slot /\ slot[t] \in children[t]
  BY DEF Core, Slots, WithSlot, Family, JoinsOwn
<1> QED BY <1>1 DEF Family, OwnChild, Child

\* In a family no thread is about to use a deleted PCB.
LEMMA NoUseOfDeleted ==
    ASSUME Core, Family, disciplined, NEW t \in Proc
    PROVE  ~Crash(t)
<1>1. \A u \in Alive : sems[processID[u]] = "live"
  BY DEF Core, PidsExact
<1>2. ~\E i \in Slot : JoinNull(t, i)
  BY DEF JoinNull
<1>3. CASE pc[t] \in {"Join.joinsemP", "Join.release"}
  <2>1. Unjoined(slot[t])
    BY <1>3, JoinsUnjoined
  <2>2. thread[slot[t]] \in Alive /\ processID[thread[slot[t]]] = slot[t]
    BY <2>1 DEF Unjoined, Alive
  <2>3. sems[slot[t]] = "live"
    BY <1>1, <2>2
  <2> QED BY <1>2, <1>3, <2>3 DEF Crash, UsesDeleted
<1>4. CASE pc[t] \in {"Join.multexP", "Join.inc"}
  <2>1. parentID[slot[t]] = processID[t] /\ t \in Alive
    BY <1>4, JoinsUnjoined DEF Alive
  <2> QED BY <1>1, <1>2, <1>4, <2>1 DEF Crash, UsesDeleted
<1>5. CASE pc[t] \in {"Exit.multexP", "Exit.dec"}
  <2>1. PICK p \in Proc : /\ pc[p] \notin {"none"} \cup Exiting
                          /\ parentID[processID[t]] = processID[p]
    BY <1>5, ParentStays
  <2>2. p \in Alive
    BY <2>1 DEF Alive
  <2> QED BY <1>1, <1>2, <1>5, <2>1, <2>2 DEF Crash, UsesDeleted
<1> QED BY <1>2, <1>3, <1>4, <1>5 DEF Crash, UsesDeleted

\* In a family no thread is in a semaphore of the PCB that Remove deletes.
LEMMA NoneInside ==
    ASSUME Core, Family, NEW t \in Proc, pc[t] = "Exit.remove"
    PROVE  Using(processID[t]) = {}
<1> DEFINE i == processID[t]
<1>1. t \in Alive /\ i \in Slot /\ i # 0 /\ thread[i] = t
  <2>1. pc[t] \in Exiting /\ t \in Alive
    BY DEF Exiting, Alive
  <2> QED BY <2>1, OwnPCB, Zenon DEF Core, Slots
<1>2. ~Unjoined(i)
  BY <1>1 DEF Unjoined
<1>3. \A u \in Alive : processID[u] = i => u = t
  BY <1>1 DEF Core, PidsExact
<1> HIDE DEF i
<1> SUFFICES ASSUME NEW u \in Using(i) PROVE FALSE
  BY DEF i
<1>4. u \in Proc
  BY DEF Using
<1>5. CASE pc[u] \in {"Join.joinsemP", "Join.release"} /\ slot[u] = i
  BY <1>2, <1>4, <1>5, JoinsUnjoined
<1>6. CASE pc[u] \in {"Join.multexP", "Join.inc"} /\ parentID[slot[u]] = i
  <2>1. processID[u] = i /\ u \in Alive
    BY <1>4, <1>6, JoinsUnjoined DEF Alive
  <2> QED BY <1>3, <1>6, <2>1
<1>7. CASE pc[u] \in {"Exit.multexP", "Exit.dec"} /\ parentID[processID[u]] = i
  <2>1. PICK p \in Proc : /\ pc[p] \notin {"none"} \cup Exiting
                          /\ parentID[processID[u]] = processID[p]
    BY <1>4, <1>7, ParentStays
  <2>2. p \in Alive /\ p # t
    BY <2>1 DEF Alive, Exiting
  <2> QED BY <1>3, <1>7, <2>1, <2>2
<1>8. CASE pc[u] = "Exec.multexV" /\ slot[u] = i
  <2>1. Child(u, i)
    BY <1>8 DEF Child
  <2> QED BY <1>1, <1>2, <1>4, <2>1 DEF Family, OwnChild
<1> QED BY <1>5, <1>6, <1>7, <1>8 DEF Using

\* With disciplined programs no step crashes.
LEMMA NoCrashStep ==
    ASSUME Core, Family, disciplined, machine # "crashed",
           NEW t \in Proc, Step(t)
    PROVE  machine' # "crashed"
<1>1. CASE Remove(t)
  <2>1. Using(processID[t]) = {}
    BY <1>1, NoneInside DEF Remove, At
  <2> QED BY <1>1, <2>1 DEF Remove
<1>2. ~Crash(t)
  BY NoUseOfDeleted
<1>3. CASE machine' = machine
  BY <1>3
<1>4. CASE machine' = "halted"
  BY <1>4
<1>5. ASSUME ExecLock(t) \/ ExecRefused(t) \/ NewPCB(t) \/ \E u \in Proc : ExecFork(t, u)
      PROVE  machine' = machine
  BY <1>5, Zenon DEF ExecLock, ExecRefused, NewPCB, NewPCBWith, ExecFork
<1>6. ASSUME ExecMultexV(t) \/ ExecUnlock(t) \/ ExecReturn(t) \/ StartProcessID(t)
      PROVE  machine' = machine
  BY <1>6 DEF ExecMultexV, ExecUnlock, ExecReturn, StartProcessID
<1>7. ASSUME JoinMultexP(t) \/ IncNumWait(t) \/ JoinWait(t) \/ JoinReturn(t)
      PROVE  machine' = machine
  BY <1>7 DEF JoinMultexP, IncNumWait, TakeMultex, SetNumWait, JoinWait, JoinReturn
<1>8. ASSUME ExitMultexP(t) \/ DecNumWait(t) \/ JoinRelease(t) \/ ExitWait(t)
      PROVE  machine' = machine
  BY <1>8 DEF ExitMultexP, DecNumWait, TakeMultex, SetNumWait, JoinRelease, ExitWait
<1>9. ASSUME (\E q \in Prog : CallExec(t, q)) \/ (\E i \in Slot : CallJoin(t, i))
      PROVE  machine' = machine
  BY <1>9 DEF CallExec, CallJoin
<1>10. ASSUME (\E status \in Status : CallExit(t, status)) \/ Halt(t)
       PROVE  machine' \in {machine, "halted"}
  BY <1>10 DEF CallExit, Halt
<1>11. CASE KernelStep(t)
  BY <1>1, <1>3, <1>5, <1>6, <1>7, <1>8, <1>11 DEF KernelStep
<1>12. CASE ~KernelStep(t)
  BY <1>2, <1>3, <1>4, <1>9, <1>10, <1>12 DEF Step
<1> QED BY <1>11, <1>12

\* Programs that join each child once before they exit keep their families.
LEMMA FamilyStep ==
    ASSUME Core, Family, disciplined, NEW t \in Proc, Step(t)
    PROVE  Family'
<1> SUFFICES ASSUME NEW p \in Proc, NEW k \in Slot
             PROVE  (OwnChild(p, k) /\ Known(k) /\ JoinsOwn(p))'
  BY SlotFacts DEF Family
<1>0. /\ \A q \in Proc : OwnChild(q, k)
      /\ Known(k) /\ JoinsOwn(p)
  BY DEF Family
<1>a. ASSUME Alike PROVE (OwnChild(p, k) /\ Known(k) /\ JoinsOwn(p))'
  <2>1. Unjoined(k)' = Unjoined(k)
    BY <1>a DEF Alike, Unjoined
  <2>2. \A q \in Proc : Child(q, k)' = Child(q, k)
    BY <1>a DEF Alike, Child
  <2>3. OwnChild(p, k)'
    BY <1>0, <1>a, <2>1, <2>2 DEF Alike, OwnChild
  <2>4. JoinsOwn(p)'
    BY <1>0, <1>a DEF Alike, JoinsOwn
  <2> QED BY <1>0, <2>1, <2>2, <2>3, <2>4 DEF Known
<1>1. CASE Quiet(t)
  <2>1. Alike
    BY <1>1, QuietMoves DEF Core, Quiet, Seen, Alike
  <2> QED BY <1>a, <2>1
<1>t. /\ pc \in [Proc -> Pc] /\ processID \in [Proc -> Slot \cup {Nobody}]
      /\ slot \in [Proc -> Slot \cup {Nobody}] /\ children \in [Proc -> SUBSET Slot]
      /\ thread \in [Slot -> Proc \cup {NoProc}] /\ exitsem \in [Slot -> Nat]
      /\ parentID \in [Slot -> Slot \cup {Nobody}] /\ bm \subseteq Slot
  BY DEF Core, TypeOK
<1>c. Slots /\ PidsExact /\ Handshake
  BY DEF Core
<1> USE SlotFacts, <1>c, <1>t DEF table, pcbs, threads, At, Goto
<1>2. ASSUME NEW i \in Slot, CallJoin(t, i)
      PROVE  (OwnChild(p, k) /\ Known(k) /\ JoinsOwn(p))'
  <2>1. Unjoined(k)' = Unjoined(k)
    BY <1>2 DEF CallJoin, Unjoined
  <2>2. \A q \in Proc : Child(q, k)' = Child(q, k)
    BY <1>2 DEF CallJoin, Child
  <2>3. OwnChild(p, k)'
    BY <1>2, <1>0, <2>1, <2>2 DEF CallJoin, OwnChild, Exiting, Child
  <2>4. JoinsOwn(p)'
    BY <1>2, <1>0 DEF CallJoin, JoinsOwn
  <2> QED BY <1>0, <2>1, <2>2, <2>3, <2>4 DEF Known
<1>3. ASSUME NEW status \in Status, CallExit(t, status)
      PROVE  (OwnChild(p, k) /\ Known(k) /\ JoinsOwn(p))'
  <2>0. children[t] = {}
    BY <1>3 DEF CallExit
  <2>1. Unjoined(k)' = Unjoined(k)
    BY <1>3 DEF CallExit, Unjoined
  <2>2. \A q \in Proc : Child(q, k)' = Child(q, k)
    BY <1>3, <2>0 DEF CallExit, Child
  <2>3. OwnChild(p, k)'
    BY <1>3, <1>0, <2>0, <2>1, <2>2 DEF CallExit, OwnChild, Exiting, Child
  <2>4. JoinsOwn(p)'
    BY <1>3, <1>0 DEF CallExit, JoinsOwn
  <2> QED BY <1>0, <2>1, <2>2, <2>3, <2>4 DEF Known
<1>4. CASE ExecLock(t)
  <2>1. Alike
    BY <1>4 DEF ExecLock, Alike, Exiting
  <2> QED BY <1>a, <2>1
<1>5. CASE ExecRefused(t)
  <2>1. Alike
    BY <1>5 DEF ExecRefused, Alike, Exiting
  <2> QED BY <1>a, <2>1
<1>6. CASE NewPCB(t)
  <2> DEFINE new == GetFreeSlot
  <2>1. new \in Slot /\ new \notin bm
    BY <1>6, FirstFree DEF NewPCB, NewPCBWith, Free
  <2>2. \A q \in Proc : Child(q, k)' = Child(q, k)
    BY <1>6 DEF NewPCB, NewPCBWith, Child
  <2>3. JoinsOwn(p)'
    BY <1>6, <1>0 DEF NewPCB, NewPCBWith, JoinsOwn
  <2>4. CASE k = new
    <3>1. ~Unjoined(k)
      BY <2>1, <2>4 DEF PidsExact, Alive, Unjoined
    <3>2. ~Unjoined(k)'
      BY <1>6, <2>1, <2>4, ProcTableAssumption DEF NewPCB, NewPCBWith, Unjoined
    <3> QED BY <1>0, <2>2, <2>3, <3>1, <3>2 DEF OwnChild, Known
  <2>5. CASE k # new
    <3>1. Unjoined(k)' = Unjoined(k)
      BY <1>6, <2>1, <2>5 DEF NewPCB, NewPCBWith, Unjoined
    <3>2. parentID'[k] = parentID[k]
      BY <1>6, <2>1, <2>5 DEF NewPCB, NewPCBWith
    <3>3. OwnChild(p, k)'
      BY <1>6, <1>0, <2>2, <3>1, <3>2 DEF NewPCB, NewPCBWith, OwnChild, Exiting
    <3> QED BY <1>0, <2>2, <2>3, <3>1, <3>3 DEF Known
  <2> QED BY <2>4, <2>5
<1>7. ASSUME NEW u \in Proc, ExecFork(t, u)
      PROVE  (OwnChild(p, k) /\ Known(k) /\ JoinsOwn(p))'
  <2>1. /\ slot[t] \in Slot /\ slot[t] # 0
        /\ ~Unjoined(slot[t]) /\ ~Waits(slot[t])
    BY <1>7 DEF ExecFork, Slots, WithSlot, Alive, Unjoined, Waits
  <2>2. JoinsOwn(p)'
    BY <1>7, <1>0 DEF ExecFork, JoinsOwn
  <2>3. u # t /\ ~Child(u, k) /\ ~Child(u, k)'
    BY <1>7, <1>0 DEF ExecFork, OwnChild, Child
  <2>4. CASE k = slot[t]
    <3>1. exitsem[k] = 0
      BY <2>1, <2>4, NoToken DEF Handshake
    <3>2. Unjoined(k)'
      BY <1>7, <2>1, <2>3, <2>4, <3>1 DEF ExecFork, Unjoined
    <3>3. Child(t, k)' /\ \A q \in Proc : q # t => ~Child(q, k)'
      BY <1>7, <1>0, <2>1, <2>3, <2>4 DEF ExecFork, OwnChild, Child
    <3>4. parentID'[k] = processID'[t] /\ pc'[t] = "Exec.multexV"
      BY <1>7, <2>1, <2>3, <2>4 DEF ExecFork
    <3> QED BY <2>2, <3>2, <3>3, <3>4 DEF OwnChild, Known, Exiting
  <2>5. CASE k # slot[t]
    <3>1. Unjoined(k)' = Unjoined(k)
      BY <1>7, <2>1, <2>3, <2>5 DEF ExecFork, Unjoined
    <3>2. \A q \in Proc : (Child(q, k)' <=> Child(q, k))
      <4>1. Child(t, k)' <=> Child(t, k)
        BY <1>7, <2>3, <2>5 DEF ExecFork, Child
      <4>2. ASSUME NEW q \in Proc, q # t, q # u PROVE (Child(q, k)' <=> Child(q, k))
        <5>1. pc'[q] = pc[q] /\ children'[q] = children[q] /\ slot'[q] = slot[q]
          BY <1>7, <4>2 DEF ExecFork
        <5>2. Child(q, k) => Child(q, k)'
          BY <5>1 DEF Child
        <5>3. Child(q, k)' => Child(q, k)
          BY <5>1 DEF Child
        <5> QED BY <5>2, <5>3
      <4> QED BY <2>3, <4>1, <4>2
    <3>3. parentID'[k] = parentID[k]
      BY <1>7, <2>1, <2>5 DEF ExecFork
    <3>4. OwnChild(p, k)'
      <4>1. CASE p = u
        BY <2>3, <4>1 DEF OwnChild
      <4>2. CASE p # u
        <5>1. processID'[p] = processID[p]
          BY <1>7, <4>2 DEF ExecFork
        <5>2. pc[p] \notin {"none"} \cup Exiting => pc'[p] \notin {"none"} \cup Exiting
          BY <1>7, <4>2 DEF ExecFork, Exiting
        <5> QED BY <1>0, <3>1, <3>2, <3>3, <5>1, <5>2, Zenon DEF OwnChild
      <4> QED BY <4>1, <4>2
    <3> QED BY <1>0, <2>2, <3>1, <3>2, <3>4 DEF Known
  <2> QED BY <2>4, <2>5
<1>8. CASE ExecUnlock(t)
  <2>1. Alike
    BY <1>8 DEF ExecUnlock, Alike, Exiting
  <2> QED BY <1>a, <2>1
<1>9. CASE ExecReturn(t)
  <2>0. slot[t] \in Slot
    BY <1>9 DEF ExecReturn, Slots, WithSlot
  <2>1. Unjoined(k)' = Unjoined(k)
    BY <1>9 DEF ExecReturn, Unjoined
  <2>2. \A q \in Proc : Child(q, k)' = Child(q, k)
    BY <1>9, <2>0 DEF ExecReturn, Child
  <2>3. OwnChild(p, k)'
    BY <1>9, <1>0, <2>0, <2>1, <2>2 DEF ExecReturn, OwnChild, Exiting, Child
  <2>4. JoinsOwn(p)'
    BY <1>9, <1>0 DEF ExecReturn, JoinsOwn
  <2> QED BY <1>0, <2>1, <2>2, <2>3, <2>4 DEF Known
<1>10. CASE JoinWait(t)
  <2>1. Alike
    BY <1>10 DEF JoinWait, Alike, Exiting
  <2> QED BY <1>a, <2>1
<1>11. CASE JoinReturn(t)
  <2>1. slot[t] \in Slot /\ slot[t] \in children[t]
    BY <1>11 DEF JoinReturn, Slots, WithSlot, Family, JoinsOwn
  <2>2. JoinsOwn(p)'
    BY <1>11, <1>0 DEF JoinReturn, JoinsOwn
  <2>3. CASE k = slot[t]
    <3>1. exitsem[k] = 0
      BY <1>11, <2>1, <2>3 DEF JoinReturn, Handshake, Token, Releases
    <3>2. exitsem'[k] = 1
      BY <1>11, <2>1, <2>3, <3>1 DEF JoinReturn
    <3>3. ~Unjoined(k)'
      BY <3>2 DEF Unjoined
    <3>4. ASSUME NEW q \in Proc, Child(q, k)' PROVE FALSE
      <4>1. q # t
        BY <1>11, <2>3, <3>4 DEF JoinReturn, Child
      <4>2. Child(q, k) /\ Child(t, k)
        BY <1>11, <2>1, <2>3, <3>4, <4>1 DEF JoinReturn, Child
      <4>3. processID[q] = processID[t] /\ q \in Alive /\ t \in Alive
        BY <1>0, <4>2 DEF OwnChild, Alive
      <4> QED BY <4>1, <4>3 DEF PidsExact
    <3> QED BY <2>2, <3>3, <3>4 DEF OwnChild, Known
  <2>4. CASE k # slot[t]
    <3>1. Unjoined(k)' = Unjoined(k)
      BY <1>11, <2>1, <2>4 DEF JoinReturn, Unjoined
    <3>2. \A q \in Proc : Child(q, k)' = Child(q, k)
      BY <1>11, <2>1, <2>4 DEF JoinReturn, Child
    <3>3. OwnChild(p, k)'
      BY <1>11, <1>0, <3>1, <3>2 DEF JoinReturn, OwnChild, Exiting
    <3> QED BY <1>0, <2>2, <3>1, <3>2, <3>3 DEF Known
  <2> QED BY <2>3, <2>4
<1>12. CASE JoinRelease(t)
  <2>1. Alike
    BY <1>12 DEF JoinRelease, Alike, Exiting
  <2> QED BY <1>a, <2>1
<1>13. CASE ExitWait(t)
  <2>1. pc[t] \in Exiting
    BY <1>13 DEF ExitWait, Exiting
  <2>2. processID[t] \in Slot /\ thread[processID[t]] = t
    BY <2>1, OwnPCB, Zenon DEF Core
  <2>3. Unjoined(k)' = Unjoined(k)
    <3>1. CASE k = processID[t]
      BY <1>13, <2>1, <2>2, <3>1 DEF ExitWait, Unjoined
    <3>2. CASE k # processID[t]
      BY <1>13, <2>1, <2>2, <3>2 DEF ExitWait, Unjoined
    <3> QED BY <3>1, <3>2
  <2>4. ~Child(t, k) /\ ~Child(t, k)'
    BY <1>13, <1>0 DEF ExitWait, OwnChild, Exiting, Child
  <2>5. \A q \in Proc : Child(q, k)' = Child(q, k)
    BY <1>13, <2>4 DEF ExitWait, Child
  <2>6. OwnChild(p, k)'
    BY <1>13, <1>0, <2>3, <2>4, <2>5 DEF ExitWait, OwnChild, Exiting
  <2>7. JoinsOwn(p)'
    BY <1>13, <1>0 DEF ExitWait, JoinsOwn
  <2> QED BY <1>0, <2>3, <2>5, <2>6, <2>7 DEF Known
<1>14. CASE Remove(t)
  <2>1. pc[t] \in Exiting
    BY <1>14 DEF Remove, Exiting
  <2>2. processID[t] \in Slot /\ thread[processID[t]] = t
    BY <2>1, OwnPCB, Zenon DEF Core
  <2>3. Unjoined(k)' = Unjoined(k)
    <3>1. CASE k = processID[t]
      BY <1>14, <2>1, <2>2, <3>1 DEF Remove, Unjoined
    <3>2. CASE k # processID[t]
      BY <1>14, <2>1, <2>2, <3>2 DEF Remove, Unjoined
    <3> QED BY <3>1, <3>2
  <2>4. ~Child(t, k) /\ ~Child(t, k)'
    BY <1>14, <1>0 DEF Remove, OwnChild, Exiting, Child
  <2>5. \A q \in Proc : Child(q, k)' = Child(q, k)
    BY <1>14, <2>4 DEF Remove, Child
  <2>6. OwnChild(p, k)'
    BY <1>14, <1>0, <2>3, <2>4, <2>5 DEF Remove, OwnChild, Exiting
  <2>7. JoinsOwn(p)'
    BY <1>14, <1>0 DEF Remove, JoinsOwn
  <2> QED BY <1>0, <2>3, <2>5, <2>6, <2>7 DEF Known
<1> QED
  BY <1>1, <1>2, <1>3, <1>4, <1>5, <1>6, <1>7, <1>8, <1>9, <1>10, <1>11, <1>12,
     <1>13, <1>14, Kinds DEF Core

-----------------------------------------------------------------------------
\* At the start there are no children.
LEMMA InvInit == Init => Inv
<1> SUFFICES ASSUME Init PROVE Inv
  OBVIOUS
<1> USE ProcTableAssumption, SlotFacts
<1>1. \A p \in Proc, i \in Slot : ~Child(p, i)
  BY DEF Init, Child
<1>2. \A i \in Slot : ~Unjoined(i)
  BY DEF Init, Unjoined
<1>3. \A p \in Proc : JoinsOwn(p)
  BY DEF Init, JoinsOwn
<1>4. NoCrash
  BY DEF Init, NoCrash
<1> QED
  BY <1>1, <1>2, <1>3, <1>4, Zenon DEF Inv, Families, Family, OwnChild, Known

\* Every step keeps the invariant.
LEMMA InvNext == Core /\ Inv /\ [Next]_vars => Inv'
<1>1. ASSUME Core, Inv, Next PROVE Inv'
  <2>1. PICK t \in Proc : Step(t)
    BY <1>1 DEF Next
  <2>2. disciplined' = disciplined
    BY <1>1 DEF Next
  <2>3. CASE disciplined
    <3>1. Family /\ machine # "crashed"
      BY <1>1, <2>3 DEF Inv, Families, NoCrash
    <3> QED BY <1>1, <2>1, <2>3, <3>1, FamilyStep, NoCrashStep
            DEF Inv, Families, NoCrash
  <2>4. CASE ~disciplined
    BY <2>2, <2>4 DEF Inv, Families, NoCrash
  <2> QED BY <2>3, <2>4
<1>2. ASSUME Inv, UNCHANGED vars PROVE Inv'
  <2>1. UNCHANGED <<Seen, pc, disciplined, machine>>
    BY <1>2 DEF vars, table, pcbs, threads, Seen
  <2>2. ASSUME NEW p \in Proc, NEW i \in Slot
        PROVE  Child(p, i)' = Child(p, i) /\ Unjoined(i)' = Unjoined(i)
    BY <2>1 DEF Seen, Child, Unjoined
  <2>3. ASSUME Family PROVE Family'
    <3>1. ASSUME NEW p \in Proc, NEW i \in Slot PROVE OwnChild(p, i)'
      BY <2>1, <2>2, <2>3, <3>1 DEF Seen, Family, OwnChild
    <3>2. ASSUME NEW i \in Slot PROVE Known(i)'
      BY <2>2, <2>3, <3>2, ProcTableAssumption DEF Family, Known
    <3>3. ASSUME NEW p \in Proc PROVE JoinsOwn(p)'
      BY <2>1, <2>3, <3>3 DEF Seen, Family, JoinsOwn
    <3> QED BY <3>1, <3>2, <3>3 DEF Family
  <2> QED BY <1>2, <2>1, <2>3 DEF Inv, Families, NoCrash
<1> QED BY <1>1, <1>2

\* With programs that join each child once before they exit, no PCB is used
\* after its deletion or deleted in use.
THEOREM NoCrashCorrect == Spec => []NoCrash
<1>1. Inv => NoCrash
  BY DEF Inv
<1> QED BY <1>1, InvInit, InvNext, CoreHolds, PTL DEF Spec
=============================================================================
