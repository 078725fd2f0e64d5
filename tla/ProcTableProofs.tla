--------------------------- MODULE ProcTableProofs ---------------------------
(***************************************************************************)
(* Proofs about ProcTable, for any number of processes, slots and programs *)
(* and any number of calls of Exec, whatever the programs call.            *)
(***************************************************************************)
EXTENDS ProcTableSteps

-----------------------------------------------------------------------------
\* Every process keeps its pid and its PCB.
LEMMA PidsStep ==
    ASSUME TypeOK, Locked, Slots, PidsExact, TypeOK', NEW t \in Proc, Step(t)
    PROVE  PidsExact'
<1>1. CASE Quiet(t)
  <2>1. Alive' = Alive
    BY <1>1, QuietMoves DEF Alive
  <2> QED BY <1>1, <2>1 DEF Quiet, Seen, PidsExact
<1>2. CASE Plain(t)
  <2>1. \A v \in Alive' : v \in Alive
    BY <1>2, PlainMoves DEF Alive
  <2>2. bm \subseteq bm' /\ UNCHANGED <<sems, processID, thread>>
    BY <1>2, PlainMoves
  <2> QED BY <2>1, <2>2 DEF PidsExact
<1> USE SlotFacts, Types DEF Slots, PidsExact, Alive, WithSlot, Exiting, table, pcbs,
   threads, At, Goto
<1>3. ASSUME NEW status \in Status, CallExit(t, status) PROVE PidsExact'
  <2>1. /\ UNCHANGED <<bm, thread, sems, processID>> /\ pc[t] = "user"
        /\ pc' = pc \/ pc' = [pc EXCEPT ![t] = "Exit.multexP"]
    BY <1>3 DEF CallExit
  <2>2. Alive' = Alive
    BY <2>1
  <2> HIDE DEF Alive
  <2> QED BY <2>1, <2>2
<1>4. CASE NewPCB(t)
  <2> DEFINE new == GetFreeSlot
  <2>1. new \in Slot /\ new \notin bm
    BY <1>4, FirstFree DEF NewPCB, NewPCBWith, Free
  <2> HIDE DEF new
  <2>2. /\ bm' = bm \cup {new} /\ Alive' = Alive /\ UNCHANGED processID
        /\ sems' = [sems EXCEPT ![new] = "live"]
        /\ thread' = [thread EXCEPT ![new] = NoProc]
    BY <1>4 DEF NewPCB, NewPCBWith, new
  <2> HIDE DEF Alive, Slots
  <2>3. \A v \in Alive : processID[v] # new
    BY <2>1
  <2> QED BY <2>1, <2>2, <2>3
<1>5. ASSUME NEW u \in Proc, ExecFork(t, u) PROVE PidsExact'
  <2>1. /\ slot[t] \in bm /\ sems[slot[t]] = "live" /\ slot[t] \in Slot
        /\ \A v \in Alive : processID[v] # slot[t]
        /\ u \notin Alive
    BY <1>5 DEF ExecFork
  <2>2. /\ Alive' = Alive \cup {u}
        /\ processID' = [processID EXCEPT ![u] = slot[t]]
        /\ thread' = [thread EXCEPT ![slot[t]] = u]
        /\ UNCHANGED <<bm, sems>>
    BY <1>5 DEF ExecFork
  <2> HIDE DEF Alive, Slots
  <2> QED BY <2>1, <2>2 DEF PidsExact
<1>6. CASE Remove(t)
  <2>1. /\ t \in Alive /\ Alive' = Alive \ {t}
        /\ bm' = bm \ {processID[t]} /\ sems' = [sems EXCEPT ![processID[t]] = "deleted"]
        /\ UNCHANGED thread
        /\ \A v \in Proc : v # t => processID'[v] = processID[v]
    BY <1>6 DEF Remove
  <2>2. \A v \in Alive' : v \in Alive /\ v \in Proc /\ v # t
    BY <2>1 DEF Alive
  <2> HIDE DEF Alive, Slots
  <2>3. \A v \in Alive' : processID'[v] = processID[v] /\ processID[v] # processID[t]
    BY <2>1, <2>2
  <2> QED BY <2>1, <2>2, <2>3
<1> HIDE SlotFacts, Types DEF Slots, PidsExact, Alive, WithSlot, Exiting, table, pcbs,
   threads, At, Goto
<1> QED
  BY <1>1, <1>2, <1>3, <1>4, <1>5, <1>6, Kinds DEF Plain

\* A slot whose process does not wait has no token.
LEMMA NoToken ==
    ASSUME NEW i \in Slot, Token(i), ~Waits(i)
    PROVE  joinsem[i] = 0 /\ exitsem[i] = 0 /\ \A t \in Proc : ~Releases(t, i)
BY DEF Token

\* A step that leaves the semaphores of a slot, whoever waits there and whoever
\* may release it, leaves the token where it is.
LEMMA TokenStays ==
    ASSUME NEW i \in Slot, Token(i), joinsem'[i] = joinsem[i], exitsem'[i] = exitsem[i],
           Waits(i) => Waits(i)',
           \A t \in Proc : Releases(t, i)' => Releases(t, i)
    PROVE  Token(i)'
BY Zenon DEF Token

\* So does a step outside the handshake.
LEMMA NoHandshake ==
    ASSUME TypeOK, NEW i \in Slot, Token(i), NEW t \in Proc, NEW to,
           pc' = [pc EXCEPT ![t] = to],
           pc[t] \notin {"Exit.exitsemP", "Join.release"},
           to \notin {"Exit.exitsemP", "Join.release"},
           joinsem' = joinsem, exitsem' = exitsem, thread' = thread,
           processID' = processID, \A v \in Proc : v # t => slot'[v] = slot[v]
    PROVE  Token(i)'
<1>1. pc \in [Proc -> Pc]
  BY Types
<1>2. \A v \in Proc : pc'[v] \in {"Exit.exitsemP", "Join.release"} <=>
                      pc[v] \in {"Exit.exitsemP", "Join.release"}
  BY <1>1
<1>3. \A v \in Proc : pc'[v] # pc[v] => v = t
  BY <1>1
<1>4. Waits(i) => Waits(i)'
  BY <1>2, <1>3 DEF Waits
<1>5. \A v \in Proc : Releases(v, i)' => Releases(v, i)
  BY <1>2, <1>3 DEF Releases
<1> QED BY <1>4, <1>5, TokenStays, Zenon

\* A process in Exit has a PCB, which is its own.
LEMMA OwnPCB ==
    ASSUME TypeOK, Slots, PidsExact, NEW t \in Proc, pc[t] \in Exiting
    PROVE  processID[t] \in Slot /\ thread[processID[t]] = t
<1>1. t \in Alive /\ bm \subseteq Slot
  BY DEF Alive, Exiting, TypeOK
<1>2. processID[t] # 0
  BY Zenon DEF Slots
<1> QED BY <1>1, <1>2, Zenon DEF PidsExact

\* Join and Exit pass the token on and keep it one.
LEMMA HandshakeStep ==
    ASSUME TypeOK, Slots, PidsExact, Handshake, NEW t \in Proc, Step(t)
    PROVE  Handshake'
<1> SUFFICES ASSUME NEW k \in Slot PROVE Token(k)'
  BY DEF Handshake
<1>0. Token(k)
  BY DEF Handshake
<1>1. CASE Quiet(t)
  <2>1. UNCHANGED <<joinsem, exitsem>> /\ Waits(k)' = Waits(k)
    BY <1>1, QuietMoves DEF Quiet, Seen, Waits
  <2>2. \A v \in Proc : Releases(v, k)' = Releases(v, k)
    BY <1>1, QuietMoves DEF Quiet, Seen, Releases
  <2> QED BY <1>0, <2>1, <2>2 DEF Token
<1>s. pc[t] \in WithSlot => slot[t] \in Slot
  BY Zenon DEF Slots
<1> DEFINE Elsewhere(to) ==
             /\ pc' = [pc EXCEPT ![t] = to]
             /\ pc[t] \notin {"Exit.exitsemP", "Join.release"}
             /\ to \notin {"Exit.exitsemP", "Join.release"}
             /\ joinsem' = joinsem /\ exitsem' = exitsem /\ thread' = thread
             /\ processID' = processID
             /\ \A v \in Proc : v # t => slot'[v] = slot[v]
<1>e. ASSUME NEW to, Elsewhere(to) PROVE Token(k)'
  BY <1>0, <1>e, NoHandshake, Zenon
<1> HIDE DEF Elsewhere
<1>2. ASSUME NEW i \in Slot, CallJoin(t, i) PROVE Token(k)'
  <2>1. Elsewhere("Join.multexP")
    BY <1>2, Types DEF CallJoin, Elsewhere, table, pcbs, At, Goto
  <2> QED BY <2>1, <1>e
<1>3. ASSUME NEW status \in Status, CallExit(t, status) PROVE Token(k)'
  <2>1. Elsewhere("Exit.multexP") \/ Elsewhere("user")
    BY <1>3, Types DEF CallExit, Elsewhere, At, Goto
  <2> QED BY <2>1, <1>e
<1>4. CASE ExecLock(t)
  <2>1. Elsewhere("Exec.slot")
    BY <1>4, Types DEF ExecLock, Elsewhere, pcbs, At, Goto
  <2> QED BY <2>1, <1>e
<1>5. CASE ExecRefused(t)
  <2>1. Elsewhere("user")
    BY <1>5, Types DEF ExecRefused, Elsewhere, pcbs, At, Goto
  <2> QED BY <2>1, <1>e
<1>6. CASE NewPCB(t)
  <2> DEFINE new == GetFreeSlot
  <2>1. new \in Slot /\ new \notin bm
    BY <1>6, FirstFree, Zenon DEF NewPCB, NewPCBWith, Free
  <2> HIDE DEF new
  <2>2. /\ joinsem' = [joinsem EXCEPT ![new] = 0] /\ exitsem' = [exitsem EXCEPT ![new] = 0]
        /\ thread' = [thread EXCEPT ![new] = NoProc] /\ processID' = processID
        /\ slot' = [slot EXCEPT ![t] = new]
        /\ pc[t] = "Exec.slot" /\ pc' = [pc EXCEPT ![t] = "Exec.fork"]
    BY <1>6 DEF NewPCB, NewPCBWith, new, At, Goto
  <2>3. \A v \in Proc : Releases(v, k)' => Releases(v, k)
    BY Types, <2>2 DEF Releases
  <2>4. CASE k = new
    <3>1. ~Waits(k)
      BY Types, <2>1, <2>4 DEF Waits, PidsExact, Alive
    <3>2. joinsem'[k] = 0 /\ exitsem'[k] = 0
      BY Types, <2>2, <2>4
    <3>3. \A v \in Proc : ~Releases(v, k)'
      BY <1>0, <2>3, <3>1, NoToken, Zenon
    <3> QED BY <3>2, <3>3 DEF Token
  <2>5. CASE k # new
    <3>1. joinsem'[k] = joinsem[k] /\ exitsem'[k] = exitsem[k] /\ thread'[k] = thread[k]
      BY Types, <2>2, <2>5
    <3>2. Waits(k) => Waits(k)'
      BY Types, <2>2, <3>1 DEF Waits
    <3> QED BY <1>0, <2>3, <3>1, <3>2, TokenStays, Zenon
  <2> QED BY <2>4, <2>5
<1>7. ASSUME NEW u \in Proc, ExecFork(t, u) PROVE Token(k)'
  <2>1. /\ pc[t] = "Exec.fork" /\ pc[u] = "none"
        /\ pc' = [pc EXCEPT ![t] = "Exec.multexV", ![u] = "start"]
        /\ processID' = [processID EXCEPT ![u] = slot[t]]
        /\ thread' = [thread EXCEPT ![slot[t]] = u]
        /\ joinsem' = joinsem /\ exitsem' = exitsem
        /\ \A v \in Proc : v # u => slot'[v] = slot[v]
    BY <1>7, Types DEF ExecFork, At
  <2>2. slot[t] \in Slot /\ \A v \in Alive : processID[v] # slot[t]
    BY <1>s, <2>1 DEF Slots, WithSlot
  <2>3. \A v \in Proc : Releases(v, k)' => Releases(v, k)
    BY Types, <2>1 DEF Releases
  <2>4. CASE k = slot[t]
    <3>1. ~Waits(k)
      BY <2>2, <2>4 DEF Waits, Alive
    <3> QED BY <1>0, <2>1, <2>3, <3>1, TokenStays, Zenon
  <2>5. CASE k # slot[t]
    <3>1. thread'[k] = thread[k]
      BY Types, <2>1, <2>5
    <3>2. Waits(k) => Waits(k)'
      BY Types, <2>1, <3>1 DEF Waits
    <3> QED BY <1>0, <2>1, <2>3, <3>2, TokenStays, Zenon
  <2> QED BY <2>4, <2>5
<1>8. CASE ExecUnlock(t)
  <2>1. Elsewhere("Exec.return")
    BY <1>8, Types DEF ExecUnlock, Elsewhere, pcbs, At, Goto
  <2> QED BY <2>1, <1>e
<1>9. CASE ExecReturn(t)
  <2>1. Elsewhere("user")
    BY <1>9, Types DEF ExecReturn, Elsewhere, table, pcbs, At, Goto
  <2> QED BY <2>1, <1>e
<1>10. CASE JoinWait(t)
  <2>1. /\ pc[t] = "Join.joinsemP" /\ pc' = [pc EXCEPT ![t] = "Join.release"]
        /\ joinsem[slot[t]] > 0 /\ joinsem' = [joinsem EXCEPT ![slot[t]] = @ - 1]
        /\ UNCHANGED <<exitsem, slot, thread, processID>>
    BY <1>10 DEF JoinWait, At, Goto
  <2>2. slot[t] \in Slot
    BY <1>s, <2>1 DEF WithSlot
  <2>3. Waits(k) => Waits(k)'
    BY Types, <2>1 DEF Waits
  <2>4. CASE k = slot[t]
    <3>1. joinsem[k] = 1 /\ Waits(k) /\ exitsem[k] = 0 /\ \A v \in Proc : ~Releases(v, k)
      BY <1>0, <2>1, <2>4 DEF Token
    <3>2. joinsem'[k] = 0 /\ exitsem'[k] = 0
      BY Types, <2>1, <2>4, <3>1
    <3>3. \A v \in Proc : Releases(v, k)' => v = t
      BY Types, <2>1, <3>1 DEF Releases
    <3>4. joinsem'[k] # 1 /\ exitsem'[k] # 1
      BY <3>2
    <3> QED BY <2>3, <3>1, <3>2, <3>3, <3>4, Zenon DEF Token
  <2>5. CASE k # slot[t]
    <3>1. joinsem'[k] = joinsem[k] /\ exitsem'[k] = exitsem[k]
      BY Types, <2>1, <2>5
    <3>2. \A v \in Proc : Releases(v, k)' => Releases(v, k)
      BY Types, <2>1, <2>5 DEF Releases
    <3> QED BY <1>0, <2>3, <3>1, <3>2, TokenStays, Zenon
  <2> QED BY <2>4, <2>5
<1>11. CASE JoinReturn(t)
  <2>1. /\ pc[t] = "Join.release" /\ pc' = [pc EXCEPT ![t] = "user"]
        /\ exitsem' = [exitsem EXCEPT ![slot[t]] = @ + 1]
        /\ slot' = [slot EXCEPT ![t] = Nobody]
        /\ UNCHANGED <<joinsem, thread, processID>>
    BY <1>11 DEF JoinReturn, At, Goto
  <2>2. Waits(k) => Waits(k)'
    BY Types, <2>1 DEF Waits
  <2>3. \A v \in Proc : Releases(v, k)' => Releases(v, k) /\ v # t
    BY Types, <2>1 DEF Releases
  <2>4. CASE k = slot[t]
    <3>1. Releases(t, k)
      BY <2>1, <2>4 DEF Releases
    <3>2. /\ Waits(k) /\ joinsem[k] = 0 /\ exitsem[k] = 0
          /\ \A v \in Proc : ~Releases(v, k)'
      BY <1>0, <2>3, <3>1, Zenon DEF Token
    <3>3. joinsem'[k] = 0 /\ exitsem'[k] = 1
      BY Types, <2>1, <2>4, <3>2
    <3>4. joinsem'[k] # 1
      BY <3>3
    <3> QED BY <2>2, <3>2, <3>3, <3>4, Zenon DEF Token
  <2>5. CASE k # slot[t]
    <3>1. joinsem'[k] = joinsem[k] /\ exitsem'[k] = exitsem[k]
      BY Types, <2>1, <2>5
    <3> QED BY <1>0, <2>2, <2>3, <3>1, TokenStays, Zenon
  <2> QED BY <2>4, <2>5
<1>12. CASE JoinRelease(t)
  <2>1. /\ pc[t] = "Exit.joinsemV" /\ pc' = [pc EXCEPT ![t] = "Exit.exitsemP"]
        /\ joinsem' = [joinsem EXCEPT ![processID[t]] = @ + 1]
        /\ UNCHANGED <<exitsem, slot, thread, processID>>
    BY <1>12 DEF JoinRelease, At, Goto
  <2>2. processID[t] \in Slot /\ thread[processID[t]] = t
    BY <2>1, OwnPCB DEF Exiting
  <2>3. \A v \in Proc : Releases(v, k)' => Releases(v, k)
    BY Types, <2>1 DEF Releases
  <2>4. CASE k = processID[t]
    <3>1. ~Waits(k)
      BY <2>1, <2>2, <2>4 DEF Waits
    <3>2. joinsem[k] = 0 /\ exitsem[k] = 0 /\ \A v \in Proc : ~Releases(v, k)'
      BY <1>0, <2>3, <3>1, NoToken, Zenon
    <3>3. joinsem'[k] = 1 /\ exitsem'[k] = 0
      BY Types, <2>1, <2>4, <3>2
    <3>4. Waits(k)'
      BY Types, <2>1, <2>2, <2>4 DEF Waits
    <3>5. exitsem'[k] # 1
      BY <3>3
    <3> QED BY <3>2, <3>3, <3>4, <3>5, Zenon DEF Token
  <2>5. CASE k # processID[t]
    <3>1. Waits(k) => Waits(k)'
      BY Types, <2>1, <2>5 DEF Waits
    <3>2. joinsem'[k] = joinsem[k] /\ exitsem'[k] = exitsem[k]
      BY Types, <2>1, <2>5
    <3> QED BY <1>0, <2>3, <3>1, <3>2, TokenStays, Zenon
  <2> QED BY <2>4, <2>5
<1>13. CASE ExitWait(t)
  <2>1. /\ pc[t] = "Exit.exitsemP" /\ pc' = [pc EXCEPT ![t] = "Exit.remove"]
        /\ exitsem[processID[t]] > 0 /\ exitsem' = [exitsem EXCEPT ![processID[t]] = @ - 1]
        /\ UNCHANGED <<joinsem, slot, thread, processID>>
    BY <1>13 DEF ExitWait, At, Goto
  <2>2. processID[t] \in Slot /\ thread[processID[t]] = t
    BY <2>1, OwnPCB DEF Exiting
  <2>3. \A v \in Proc : Releases(v, k)' => Releases(v, k)
    BY Types, <2>1 DEF Releases
  <2>4. CASE k = processID[t]
    <3>1. exitsem[k] = 1
      BY <1>0, <2>1, <2>4 DEF Token
    <3>2. joinsem[k] = 0 /\ \A v \in Proc : ~Releases(v, k)
      BY <1>0, <3>1 DEF Token
    <3>3. joinsem'[k] = 0 /\ exitsem'[k] = 0
      BY Types, <2>1, <2>4, <3>1, <3>2
    <3>4. joinsem'[k] # 1 /\ exitsem'[k] # 1
      BY <3>3
    <3> QED BY <2>3, <3>2, <3>3, <3>4, Zenon DEF Token
  <2>5. CASE k # processID[t]
    <3>1. Waits(k) => Waits(k)'
      BY Types, <2>1, <2>2, <2>5 DEF Waits
    <3>2. joinsem'[k] = joinsem[k] /\ exitsem'[k] = exitsem[k]
      BY Types, <2>1, <2>5
    <3> QED BY <1>0, <2>3, <3>1, <3>2, TokenStays, Zenon
  <2> QED BY <2>4, <2>5
<1>14. CASE Remove(t)
  <2>1. /\ pc[t] = "Exit.remove" /\ pc' = [pc EXCEPT ![t] = "none"]
        /\ processID' = [processID EXCEPT ![t] = Nobody]
        /\ UNCHANGED <<joinsem, exitsem, slot, thread>>
    BY <1>14 DEF Remove, At
  <2>2. Waits(k) => Waits(k)'
    BY Types, <2>1 DEF Waits
  <2>3. \A v \in Proc : Releases(v, k)' => Releases(v, k)
    BY Types, <2>1 DEF Releases
  <2>4. joinsem' = joinsem /\ exitsem' = exitsem
    BY <2>1
  <2> QED BY <1>0, <2>2, <2>3, <2>4, TokenStays, Zenon
<1> QED
  BY <1>1, <1>2, <1>3, <1>4, <1>5, <1>6, <1>7, <1>8, <1>9, <1>10, <1>11, <1>12,
     <1>13, <1>14, Kinds

-----------------------------------------------------------------------------
\* The first program runs in process 0, which has no parent.
LEMMA CoreInit == Init => Core
<1> SUFFICES ASSUME Init PROVE Core
  OBVIOUS
<1> USE ProcTableAssumption, SlotFacts
<1>1. TypeOK
  BY DEF Init, TypeOK, Pc, Status, NotCalled
<1>2. Locked
  BY DEF Init, Locked, InExec
<1>3. Slots
  BY DEF Init, Slots, WithSlot, Exiting
<1>4. PidsExact
  BY DEF Init, PidsExact, Alive
<1>5. Handshake
  BY DEF Init, Handshake, Token, Waits, Releases
<1> QED BY <1>1, <1>2, <1>3, <1>4, <1>5 DEF Core

\* Every step keeps the invariant.
LEMMA CoreNext == Core /\ [Next]_vars => Core'
<1>1. ASSUME Core, Next PROVE Core'
  <2>1. PICK t \in Proc : Step(t)
    BY <1>1 DEF Next
  <2>2. TypeOK'
    BY <1>1, <2>1, TypeStep DEF Core, Next
  <2> QED
    BY <1>1, <2>1, <2>2, LockedStep, SlotsStep, PidsStep, HandshakeStep DEF Core
<1>2. ASSUME Core, UNCHANGED vars PROVE Core'
  <2>0. UNCHANGED <<Seen, pc>>
    BY <1>2 DEF vars, table, pcbs, threads, Seen
  <2>t. TypeOK'
    BY <1>2, Zenon DEF vars, table, pcbs, threads, Core, TypeOK
  <2>1. UNCHANGED <<Seen, pc>> /\ TypeOK'
    BY <2>0, <2>t
  <2>2. Alive' = Alive
    BY <2>1 DEF Alive
  <2>3. Locked' /\ Slots' /\ PidsExact'
    BY <1>2, <2>1, <2>2 DEF Core, Seen, Locked, Slots, PidsExact
  <2>4. \A i \in Slot : Token(i)'
    <3> TAKE i \in Slot
    <3>1. Token(i) /\ Waits(i)' = Waits(i) /\ \A t \in Proc : Releases(t, i)' = Releases(t, i)
      BY <1>2, <2>1 DEF Core, Handshake, Seen, Waits, Releases
    <3> QED BY <2>1, <3>1 DEF Seen, Token
  <2> QED BY <2>1, <2>3, <2>4 DEF Core, Handshake
<1> QED BY <1>1, <1>2

\* The invariant holds in every state.
LEMMA CoreHolds == Spec => []Core
BY CoreInit, CoreNext, PTL DEF Spec

\* Every field keeps its type.
THEOREM TypeCorrect == Spec => []TypeOK
<1>1. Core => TypeOK
  BY DEF Core
<1> QED BY <1>1, CoreHolds, PTL

\* Whatever programs call, and however their threads interleave, ExecUpdate
\* never gives a pid that is in use, and a process's pid leads to its own PCB.
THEOREM PidsCorrect == Spec => []PidsExact
<1>1. Core => PidsExact
  BY DEF Core
<1> QED BY <1>1, CoreHolds, PTL

\* Whatever programs call, a Join that returns does so after the child's Exit
\* and with the child's exit code, while the child still waits.
THEOREM JoinCorrect == Spec => []JoinedHasExited
<1>1. ASSUME Core PROVE JoinedHasExited
  <2> SUFFICES ASSUME NEW t \in Proc, pc[t] = "Join.release"
               PROVE  /\ pc[thread[slot[t]]] = "Exit.exitsemP"
                      /\ processID[thread[slot[t]]] = slot[t]
                      /\ exitArg[thread[slot[t]]] = exitcode[slot[t]]
    BY DEF JoinedHasExited
  <2>1. slot[t] \in Slot
    BY <1>1 DEF Core, Slots, WithSlot
  <2>2. Waits(slot[t])
    BY <1>1, <2>1 DEF Core, Handshake, Token, Releases
  <2> QED BY <1>1, <2>2 DEF Core, Slots, Waits, Exiting
<1> QED BY <1>1, CoreHolds, PTL
=============================================================================
