--------------------------- MODULE ProgramProofs ---------------------------
(***************************************************************************)
(* Proofs about programs: the turn of the three of WaterPipeline, the      *)
(* machine that each finds after a context switch (UserState), and the     *)
(* stack of c++example (ArrayStack).                                       *)
(***************************************************************************)
EXTENDS WaterPipeline, UserState, ArrayStack, FiniteSetTheorems, SequenceTheorems, TLAPS

-----------------------------------------------------------------------------
(* WaterPipeline: the turn, for any input and whatever the files hold.     *)

\* Where a program does not have the turn.
Idle == {"off", "wait", "waitWater"}

\* 1 for a program that works.
Works(p) == IF pc[p] \notin Idle THEN 1 ELSE 0

\* The turn is given once, to a program that works or to a semaphore.
TurnInv ==
    /\ sems \in [Program -> Nat] /\ DOMAIN pc = Program
    /\ Works("main") + Works("sinhvien") + Works("voinuoc")
         + sems["main"] + sems["sinhvien"] + sems["voinuoc"] = 1

\* The programs that work, counted one by one.
LEMMA WorkingCount == Cardinality(Working) = Works("main") + Works("sinhvien") + Works("voinuoc")
<1> DEFINE One(p) == IF pc[p] \notin Idle THEN {p} ELSE {}
           A == One("main")
           B == A \cup One("sinhvien")
           C == B \cup One("voinuoc")
<1>1. Working = C
  BY Zenon DEF Working, Program, Idle
<1>2. IsFiniteSet(A) /\ Cardinality(A) = Works("main")
  BY FS_EmptySet, FS_Singleton DEF Works
<1>3. IsFiniteSet(B) /\ Cardinality(B) = Works("main") + Works("sinhvien")
  <2>1. "sinhvien" \notin A
    OBVIOUS
  <2>2. Cardinality(A) \in Nat
    BY <1>2 DEF Works
  <2>3. CASE pc["sinhvien"] \notin Idle
    <3>1. B = A \cup {"sinhvien"}
      BY <2>3
    <3> HIDE DEF A, B
    <3> QED BY <1>2, <2>1, <2>2, <2>3, <3>1, FS_AddElement DEF Works
  <2>4. CASE pc["sinhvien"] \in Idle
    <3>1. B = A
      BY <2>4
    <3> HIDE DEF A, B
    <3> QED BY <1>2, <2>2, <2>4, <3>1 DEF Works
  <2> QED BY <2>3, <2>4
<1>4. Cardinality(C) = Works("main") + Works("sinhvien") + Works("voinuoc")
  <2>1. "voinuoc" \notin B
    OBVIOUS
  <2>2. Cardinality(B) \in Nat
    BY <1>3 DEF Works
  <2>3. CASE pc["voinuoc"] \notin Idle
    <3>1. C = B \cup {"voinuoc"}
      BY <2>3
    <3> HIDE DEF B, C
    <3> QED BY <1>3, <2>1, <2>2, <2>3, <3>1, FS_AddElement DEF Works
  <2>4. CASE pc["voinuoc"] \in Idle
    <3>1. C = B
      BY <2>4
    <3> HIDE DEF B, C
    <3> QED BY <1>3, <2>2, <2>4, <3>1 DEF Works
  <2> QED BY <2>3, <2>4
<1> HIDE DEF C
<1> QED BY <1>1, <1>4

\* A program that works goes on working, and no other program begins or ends.
LEMMA GoesOn ==
  ASSUME TurnInv, sems' = sems, DOMAIN pc' = Program,
         \A q \in Program : pc'[q] \in Idle <=> pc[q] \in Idle
  PROVE  TurnInv'
BY DEF TurnInv, Works, Program

\* A program that works gives its turn away and waits.
LEMMA GivesTurn ==
  ASSUME TurnInv, NEW p \in Program, NEW s \in Program, NEW from, NEW to,
         from \notin Idle, to \in Idle, Signal(p, from, s, to)
  PROVE  TurnInv'
<1>1. /\ pc[p] \notin Idle /\ pc' = [pc EXCEPT ![p] = to] /\ sems' = [sems EXCEPT ![s] = @ + 1]
  BY DEF Signal, Goto
<1>2. sems' \in [Program -> Nat] /\ DOMAIN pc' = Program
  BY <1>1 DEF TurnInv
<1> QED BY <1>1, <1>2 DEF TurnInv, Works, Program

\* A program that waited takes the turn.
LEMMA TakesTurn ==
  ASSUME TurnInv, NEW p \in Program, NEW from, NEW to, from \in Idle, to \notin Idle,
         Wait(p, from, to)
  PROVE  TurnInv'
<1>1. /\ pc[p] \in Idle /\ pc' = [pc EXCEPT ![p] = to]
      /\ sems[p] > 0 /\ sems' = [sems EXCEPT ![p] = @ - 1]
  BY DEF Wait, Goto
<1>2. sems' \in [Program -> Nat] /\ DOMAIN pc' = Program
  BY <1>1 DEF TurnInv
<1> QED BY <1>1, <1>2 DEF TurnInv, Works, Program

\* A step of a program from one label at which it works to another.
LEMMA OtherSteps ==
  ASSUME TurnInv, NEW p \in Program, pc[p] \notin Idle, sems' = sems,
         NEW to, to \notin Idle, pc' = [pc EXCEPT ![p] = to]
  PROVE  TurnInv'
<1>1. DOMAIN pc' = Program /\ \A q \in Program : pc'[q] \in Idle <=> pc[q] \in Idle
  BY DEF TurnInv
<1> QED BY <1>1, GoesOn, Zenon

\* A call, whatever it does to the files, and whether or not it fails.
LEMMA Calls ==
  ASSUME TurnInv, NEW p \in Program, NEW from, from \notin Idle, NEW to, to \notin Idle
  PROVE  /\ \A r : Do(p, from, r, to) => TurnInv'
         /\ \A f : CreateStep(p, from, f, to, "giveUp") => TurnInv'
         /\ \A f, type : \A onFailure \in {"failed", "giveUp", "signalFailure"} :
               OpenStep(p, from, f, type, to, onFailure) => TurnInv'
<1>1. "failed" \notin Idle /\ "giveUp" \notin Idle /\ "signalFailure" \notin Idle
  BY DEF Idle
<1>2. ASSUME NEW r, Do(p, from, r, to) PROVE TurnInv'
  BY <1>2, OtherSteps, Zenon DEF Do, Goto
<1>3. ASSUME NEW f, CreateStep(p, from, f, to, "giveUp") PROVE TurnInv'
  <2>1. /\ pc[p] \notin Idle /\ sems' = sems
        /\ pc' = [pc EXCEPT ![p] = to] \/ pc' = [pc EXCEPT ![p] = "giveUp"]
    BY <1>3, Zenon DEF CreateStep, Do, Goto, Tested
  <2> QED BY <1>1, <2>1, OtherSteps, Zenon
<1>4. ASSUME NEW f, NEW type, NEW onFailure \in {"failed", "giveUp", "signalFailure"},
             OpenStep(p, from, f, type, to, onFailure)
      PROVE  TurnInv'
  <2>1. /\ pc[p] \notin Idle /\ sems' = sems
        /\ pc' = [pc EXCEPT ![p] = to] \/ pc' = [pc EXCEPT ![p] = onFailure]
    BY <1>4, Zenon DEF OpenStep, Goto, Tested
  <2> QED BY <1>1, <2>1, OtherSteps, Zenon
<1> QED BY <1>2, <1>3, <1>4, Zenon

\* A Close, on the way or before the program returns.
LEMMA Closes ==
  ASSUME TurnInv, NEW p \in Program, NEW steps,
         \A s \in steps : s[1] \notin Idle /\ s[3] \notin Idle, CloseStep(p, steps)
  PROVE  TurnInv'
<1>1. PICK s \in steps : Do(p, s[1], Close(id[p][s[2]]), s[3])
  BY Zenon DEF CloseStep
<1>2. pc[p] \notin Idle /\ sems' = sems /\ pc' = [pc EXCEPT ![p] = s[3]]
  BY <1>1, Zenon DEF Do, Goto
<1> QED BY <1>2, OtherSteps, Zenon

\* MayRotNuoc, which starts the other two at their first Wait.
LEMMA MainTurn ==
  ASSUME TurnInv, Main
  PROVE  TurnInv'
<1>1. "main" \in Program /\ "sinhvien" \in Program /\ "voinuoc" \in Program /\ "wait" \in Idle
  BY DEF Program, Idle
<1>2. ASSUME NEW child \in {"sinhvien", "voinuoc"}, NEW from, NEW to,
             from \notin Idle, to \notin Idle, MainExec(child, from, to)
      PROVE  TurnInv'
  <2>1. /\ pc["main"] \notin Idle /\ sems' = sems
        /\ \/ pc' = [pc EXCEPT !["main"] = to, ![child] = "wait"]
           \/ pc' = [pc EXCEPT !["main"] = "giveUp"]
    BY <1>2 DEF MainExec, Goto
  <2>2. pc[child] \in Idle
    BY <1>1, <2>1 DEF TurnInv, Works
  <2>3. "giveUp" \notin Idle
    BY DEF Idle
  <2>4. DOMAIN pc' = Program /\ \A q \in Program : pc'[q] \in Idle <=> pc[q] \in Idle
    BY <1>1, <1>2, <2>1, <2>2, <2>3 DEF TurnInv
  <2> QED BY <2>1, <2>4, GoesOn, Zenon
<1>3. /\ "openInput" \notin Idle /\ "exec1" \notin Idle /\ "exec2" \notin Idle
      /\ "loop" \notin Idle /\ "open" \notin Idle /\ "read" \notin Idle
      /\ "write" \notin Idle /\ "close" \notin Idle /\ "signal" \notin Idle
      /\ "solved" \notin Idle /\ "giveUp" \notin Idle /\ "failed" \notin Idle
  BY DEF Idle
<1>4. MainLoop \/ MainRead => TurnInv'
  <2>1. MainLoop \/ MainRead =>
          /\ pc["main"] \notin Idle /\ sems' = sems
          /\ \E to \in {"solved", "open", "giveUp", "close", "write"} :
                pc' = [pc EXCEPT !["main"] = to]
    BY <1>3, Zenon DEF MainLoop, MainRead, Goto, Tested
  <2> QED BY <1>1, <1>3, <2>1, OtherSteps, Zenon
<1>5. CloseStep("main", {<<"close", "sinhvien.txt", "signal">>,
                         <<"giveUp", "input.txt", "failed">>}) => TurnInv'
  BY <1>1, <1>3, Closes
<1> QED BY <1>1, <1>2, <1>3, <1>4, <1>5, Calls, GivesTurn, TakesTurn, Zenon DEF Main

\* sinhvien.
LEMMA StudentTurn ==
  ASSUME TurnInv, Student
  PROVE  TurnInv'
<1>1. /\ "main" \in Program /\ "sinhvien" \in Program /\ "voinuoc" \in Program
      /\ "wait" \in Idle /\ "waitWater" \in Idle /\ "off" \in Idle
  BY DEF Program, Idle
<1>2. /\ "length" \notin Idle /\ "read" \notin Idle /\ "mark" \notin Idle /\ "reopen" \notin Idle
      /\ "rewind" \notin Idle /\ "write" \notin Idle /\ "closeWater" \notin Idle
      /\ "giveUp" \notin Idle /\ "signalFailure" \notin Idle
  BY DEF Idle
<1>3. StudentLength \/ StudentRead \/ StudentMark \/ StudentReopen => TurnInv'
  <2>1. StudentLength \/ StudentRead \/ StudentMark \/ StudentReopen =>
          /\ pc["sinhvien"] \notin Idle /\ sems' = sems
          /\ \E to \in {"rewind", "write", "mark", "closeWater", "read", "giveUp"} :
                pc' = [pc EXCEPT !["sinhvien"] = to]
    BY <1>2, Zenon DEF StudentLength, StudentRead, StudentMark, StudentReopen, Goto, Tested
  <2> QED BY <1>1, <1>2, <2>1, OtherSteps, Zenon
<1>4. StudentDone => TurnInv'
  BY <1>1, <1>2, GivesTurn DEF StudentDone
<1>5. /\ "open" \notin Idle /\ "create" \notin Idle /\ "openWater" \notin Idle
      /\ "openOutput" \notin Idle
      /\ "seekOutput" \notin Idle /\ "writeOutput" \notin Idle /\ "closeOutput" \notin Idle
      /\ "closeWater" \notin Idle /\ "signalWater" \notin Idle /\ "recreate" \notin Idle
  BY DEF Idle
<1>6. CloseStep("sinhvien", {<<"closeOutput", "output.txt", "mark">>,
                             <<"closeWater", "voinuoc.txt", "signalWater">>,
                             <<"giveUp", "sinhvien.txt", "signalFailure">>}) => TurnInv'
  BY <1>1, <1>2, <1>5, Closes
<1> QED BY <1>1, <1>2, <1>3, <1>4, <1>5, <1>6, Calls, GivesTurn, TakesTurn, Zenon DEF Student

\* voinuoc.
LEMMA TapTurn ==
  ASSUME TurnInv, Tap
  PROVE  TurnInv'
<1>1. /\ "sinhvien" \in Program /\ "voinuoc" \in Program
      /\ "wait" \in Idle /\ "off" \in Idle
  BY DEF Program, Idle
<1>2. /\ "read" \notin Idle /\ "assign" \notin Idle /\ "separate" \notin Idle
      /\ "open" \notin Idle /\ "close" \notin Idle /\ "openOutput" \notin Idle
      /\ "seekOutput" \notin Idle /\ "closeOutput" \notin Idle /\ "signal" \notin Idle
      /\ "giveUp" \notin Idle /\ "signalFailure" \notin Idle
  BY DEF Idle
<1>3. TapRead \/ TapAssign \/ TapSeparate => TurnInv'
  <2>1. TapRead \/ TapAssign \/ TapSeparate =>
          /\ pc["voinuoc"] \notin Idle /\ sems' = sems
          /\ \E to \in {"close", "read", "separate", "closeOutput"} :
                pc' = [pc EXCEPT !["voinuoc"] = to]
    BY <1>2, Zenon DEF TapRead, TapAssign, TapSeparate, Goto
  <2> QED BY <1>1, <1>2, <2>1, OtherSteps, Zenon
<1>4. CloseStep("voinuoc", {<<"close", "voinuoc.txt", "openOutput">>,
                            <<"closeOutput", "output.txt", "signal">>,
                            <<"giveUp", "voinuoc.txt", "signalFailure">>}) => TurnInv'
  BY <1>1, <1>2, Closes
<1>5. (\E s \in {<<"signal", "wait">>, <<"signalFailure", "off">>} :
         Signal("voinuoc", s[1], "sinhvien", s[2])) => TurnInv'
  BY <1>1, <1>2, GivesTurn
<1> QED BY <1>1, <1>2, <1>3, <1>4, <1>5, Calls, TakesTurn, Zenon DEF Tap

\* The semaphores of the water pipeline pass one turn, for every input and
\* whether or not the files can be opened.
THEOREM OneWorkingHolds == Spec => []OneWorking
<1>1. Init => TurnInv
  BY DEF Init, TurnInv, Works, Idle, Program
<1>2. TurnInv /\ [Next]_vars => TurnInv'
  <2>1. TurnInv /\ Next => TurnInv'
    BY MainTurn, StudentTurn, TapTurn, Zenon DEF Next
  <2>2. TurnInv /\ UNCHANGED vars => TurnInv'
    BY DEF vars, TurnInv, Works
  <2> QED BY <2>1, <2>2
<1>3. TurnInv => OneWorking
  <2>1. "main" \in Program /\ "sinhvien" \in Program /\ "voinuoc" \in Program
    BY DEF Program
  <2>2. /\ Works("main") \in {0, 1} /\ Works("sinhvien") \in {0, 1} /\ Works("voinuoc") \in {0, 1}
    BY DEF Works
  <2> QED BY <2>1, <2>2, WorkingCount DEF TurnInv, OneWorking
<1> QED BY <1>1, <1>2, <1>3, PTL DEF Spec

-----------------------------------------------------------------------------
(* UserState: context switches keep the programs apart, for any number of  *)
(* user and kernel threads and any number of changes to the registers.     *)

\* Every variable has the type of the field it models.
UserTypeOK ==
    /\ running \in AnyThread
    /\ where \in [AnyThread -> Places]
    /\ space \in [AnyThread -> {"NULL", "live", "deleted"}]
    /\ userRegisters \in [AnyThread -> Regs]
    /\ registers \in Regs
    /\ pageTableOf \in AnyThread
    /\ changes \in [AnyThread -> Nat]

Executes(t) == where[t] \in {"user", "call"}

\* space is live exactly while a program executes, and NULL before: that is
\* what Scheduler::Run tests.
SpaceAgrees ==
    \A t \in AnyThread :
        /\ Executes(t) <=> space[t] = "live"
        /\ where[t] \in {"new", "load", "kernel"} <=> space[t] = "NULL"

\* A program counts its changes from when it starts.
NotStarted == \A t \in AnyThread : where[t] \in {"new", "load"} => changes[t] = 0

\* A program that was switched out finds its registers in its thread.
Saved ==
    \A t \in AnyThread :
        Executes(t) /\ t # running =>
            userRegisters[t] = [of |-> t, n |-> changes[t]]

Inv == UserTypeOK /\ SpaceAgrees /\ NotStarted /\ Saved /\ OwnMachine

\* The first thread is about to load its program; nothing executes yet.
LEMMA InitInv == UserInit => Inv
<1> SUFFICES ASSUME UserInit PROVE Inv
  OBVIOUS
<1>1. UserTypeOK
  BY DEF UserInit, UserTypeOK, Places, Regs
<1>2. \A t \in AnyThread : where[t] \in {"new", "load", "kernel"} /\ space[t] = "NULL"
  BY DEF UserInit
<1>3. SpaceAgrees /\ Saved
  BY <1>2 DEF SpaceAgrees, Saved, Executes
<1>4. NotStarted
  BY DEF UserInit, NotStarted
<1>5. OwnMachine
  BY <1>1, <1>2 DEF OwnMachine, UserTypeOK
<1> QED BY <1>1, <1>3, <1>4, <1>5 DEF Inv

\* Scheduler::Run keeps the outgoing program's registers and gives back the
\* incoming one's, whether or not either of them is a program.
LEMMA SwitchInv ==
  ASSUME Inv, NEW next \in AnyThread, Switch(next)
  PROVE  Inv'
<1> USE DEF Inv
<1> DEFINE saved == IF space[running] # "NULL" THEN SaveUserState ELSE userRegisters
           back == where[next] # "new" /\ space[next] # "NULL"
<1>1. /\ running' = next
      /\ userRegisters' = saved
      /\ registers' = IF back THEN saved[next] ELSE registers
      /\ pageTableOf' = IF back THEN next ELSE pageTableOf
      /\ where' = [where EXCEPT ![next] = IF @ = "new" THEN "load" ELSE @]
      /\ space' = space /\ changes' = changes
  BY DEF Switch, Run, RestoreUserState
<1>2. saved \in [AnyThread -> Regs]
  BY DEF SaveUserState, UserTypeOK
<1>3. \A t \in AnyThread :
         Executes(t) => saved[t] = [of |-> t, n |-> changes[t]]
  <2> SUFFICES ASSUME NEW t \in AnyThread, Executes(t)
               PROVE  saved[t] = [of |-> t, n |-> changes[t]]
    OBVIOUS
  <2>1. CASE t = running
    BY <2>1 DEF OwnMachine, SpaceAgrees, Executes, SaveUserState, UserTypeOK
  <2>2. CASE t # running
    BY <2>2 DEF Saved, SaveUserState, UserTypeOK
  <2> QED BY <2>1, <2>2
<1>4. \A t \in AnyThread :
         /\ where'[t] = IF t = next /\ where[t] = "new" THEN "load" ELSE where[t]
         /\ Executes(t)' <=> Executes(t)
  BY <1>1 DEF UserTypeOK, Executes
<1>5. UserTypeOK'
  <2>1. where' \in [AnyThread -> Places]
    BY <1>1 DEF UserTypeOK, Places
  <2>2. registers' \in Regs /\ pageTableOf' \in AnyThread
    BY <1>1, <1>2 DEF UserTypeOK
  <2> QED BY <1>1, <1>2, <2>1, <2>2 DEF UserTypeOK
<1>6. SpaceAgrees'
  BY <1>1, <1>4 DEF SpaceAgrees
<1>7. NotStarted'
  BY <1>1, <1>4 DEF NotStarted
<1>8. Saved'
  BY <1>1, <1>3, <1>4 DEF Saved
<1>9. OwnMachine'
  <2> SUFFICES ASSUME Executes(next)
               PROVE  /\ registers' = [of |-> next, n |-> changes[next]]
                      /\ pageTableOf' = next
                      /\ space[next] = "live"
    BY <1>1, <1>4 DEF OwnMachine, Executes
  <2>1. back /\ space[next] = "live"
    BY DEF SpaceAgrees, Executes
  <2> QED BY <1>1, <1>3, <2>1
<1> QED BY <1>5, <1>6, <1>7, <1>8, <1>9

\* StartProcess sets up registers and page table of the running thread only.
LEMMA StartInv ==
  ASSUME Inv, StartProcess
  PROVE  Inv'
<1> USE DEF Inv
<1>1. running \in AnyThread /\ where[running] = "load" /\ changes[running] = 0
  BY DEF StartProcess, UserTypeOK, NotStarted
<1>2. UserTypeOK'
  BY <1>1 DEF StartProcess, UserTypeOK, Places, Regs
<1>3. SpaceAgrees' /\ NotStarted'
  BY <1>1 DEF StartProcess, UserTypeOK, SpaceAgrees, NotStarted, Executes
<1>4. Saved'
  BY DEF StartProcess, UserTypeOK, Saved, Executes
<1>5. OwnMachine'
  BY <1>1 DEF StartProcess, UserTypeOK, OwnMachine
<1> QED BY <1>2, <1>3, <1>4, <1>5

\* Instructions and system calls change the registers of the running program;
\* Exit deletes its address space.
LEMMA ProgramInv ==
  ASSUME Inv, Instruction \/ SystemCall \/ SystemReturn \/ Exit
  PROVE  Inv'
<1> USE DEF Inv
<1>1. running \in AnyThread /\ Executes(running)
  BY DEF Instruction, SystemCall, SystemReturn, Exit, UserTypeOK, Executes
<1>2. /\ registers = [of |-> running, n |-> changes[running]]
      /\ pageTableOf = running /\ space[running] = "live"
      /\ changes[running] \in Nat
  BY <1>1 DEF OwnMachine, Executes, UserTypeOK
<1>3. UNCHANGED <<running, userRegisters, pageTableOf>>
  BY DEF Instruction, SystemCall, SystemReturn, Exit
<1>4. CASE Instruction \/ SystemReturn
  <2>1. /\ registers' = [of |-> running, n |-> changes[running] + 1]
        /\ changes' = [changes EXCEPT ![running] = @ + 1]
        /\ space' = space
        /\ where' = [where EXCEPT ![running] = "user"]
    <3>1. where[running] = "user" => [where EXCEPT ![running] = "user"] = where
      BY <1>1 DEF UserTypeOK
    <3> QED BY <1>2, <1>4, <3>1 DEF Instruction, SystemReturn, WriteRegister
  <2>2. UserTypeOK'
    BY <1>1, <1>2, <1>3, <2>1 DEF UserTypeOK, Places, Regs
  <2>3. SpaceAgrees' /\ NotStarted'
    BY <1>1, <2>1 DEF UserTypeOK, SpaceAgrees, NotStarted, Executes
  <2>4. Saved'
    BY <1>3, <2>1 DEF UserTypeOK, Saved, Executes
  <2>5. OwnMachine'
    BY <1>1, <1>2, <1>3, <2>1 DEF UserTypeOK, OwnMachine
  <2> QED BY <2>2, <2>3, <2>4, <2>5
<1>5. CASE SystemCall
  <2>1. UserTypeOK'
    BY <1>1, <1>5 DEF SystemCall, UserTypeOK, Places
  <2>2. SpaceAgrees' /\ NotStarted' /\ Saved'
    BY <1>1, <1>5 DEF SystemCall, UserTypeOK, SpaceAgrees, NotStarted, Saved, Executes
  <2>3. OwnMachine'
    BY <1>1, <1>2, <1>5 DEF SystemCall, OwnMachine
  <2> QED BY <2>1, <2>2, <2>3
<1>6. CASE Exit
  <2>1. UserTypeOK'
    BY <1>1, <1>6 DEF Exit, UserTypeOK, Places
  <2>2. SpaceAgrees' /\ NotStarted' /\ Saved'
    BY <1>1, <1>6 DEF Exit, UserTypeOK, SpaceAgrees, NotStarted, Saved, Executes
  <2>3. OwnMachine'
    BY <1>1, <1>6 DEF Exit, UserTypeOK, OwnMachine
  <2> QED BY <2>1, <2>2, <2>3
<1> QED BY <1>4, <1>5, <1>6

\* A program that executes has its own registers, its own page table and a
\* live address space, whatever other threads did meanwhile.
THEOREM OwnMachineHolds == UserSpec => []OwnMachine
<1>1. Inv /\ [UserNext]_userVars => Inv'
  <2> SUFFICES ASSUME Inv, [UserNext]_userVars PROVE Inv'
    OBVIOUS
  <2>1. CASE UNCHANGED userVars
    BY <2>1 DEF userVars, Inv, UserTypeOK, SpaceAgrees, NotStarted, Saved,
                OwnMachine, Executes
  <2>2. CASE UserNext
    BY <2>2, SwitchInv, StartInv, ProgramInv DEF UserNext
  <2> QED BY <2>1, <2>2
<1>2. Inv => OwnMachine
  BY DEF Inv
<1> QED BY InitInv, <1>1, <1>2, PTL DEF UserSpec

-----------------------------------------------------------------------------
(* ArrayStack implements a last-in first-out stack, for every array size   *)
(* and every set of values.                                                *)

\* An array stack begins empty.
LEMMA ArrayInitType == ArrayInit => ArrayTypeOK
BY SizeAssumption DEF ArrayInit, ArrayTypeOK

\* The bounds ASSERTed by Push and Pop keep top within the array.
LEMMA ArrayNextType == ArrayTypeOK /\ [ArrayNext]_arrayVars => ArrayTypeOK'
<1> SUFFICES ASSUME ArrayTypeOK, [ArrayNext]_arrayVars PROVE ArrayTypeOK'
  OBVIOUS
<1> USE SizeAssumption DEF ArrayTypeOK
<1>1. ASSUME NEW v \in Value, ArrayPush(v) PROVE ArrayTypeOK'
  BY <1>1 DEF ArrayPush, ArrayFull
<1>2. CASE ArrayPop
  BY <1>2 DEF ArrayPop, ArrayEmpty
<1>3. CASE UNCHANGED arrayVars
  BY <1>3 DEF arrayVars
<1> QED BY <1>1, <1>2, <1>3 DEF ArrayNext

\* top never leaves the array: neither ASSERT of the class can be passed wrongly.
THEOREM ArrayTypeCorrect == ArraySpec => []ArrayTypeOK
BY ArrayInitType, ArrayNextType, PTL DEF ArraySpec

\* The places in use, as a sequence.
LEMMA ContentsSeq ==
  ASSUME ArrayTypeOK
  PROVE  /\ ArrayContents \in Seq(Value)
         /\ Len(ArrayContents) = top
         /\ \A k \in 1 .. top : ArrayContents[k] = stack[k - 1]
<1>1. top \in Nat /\ \A k \in 1 .. top : stack[k - 1] \in Value
  BY SizeAssumption DEF ArrayTypeOK
<1>2. ArrayContents \in [1 .. top -> Value]
  BY <1>1 DEF ArrayContents
<1> QED BY <1>1, <1>2, SeqDef, LenProperties DEF ArrayContents

\* Push writes above the values on the stack and changes none of them.
LEMMA PushAppends ==
  ASSUME ArrayTypeOK, ArrayTypeOK', NEW v \in Value, ArrayPush(v)
  PROVE  L!Push(v)
<1> DEFINE c == ArrayContents
           d == ArrayContents'
<1>1. /\ top \in Nat /\ top < size
      /\ top' = top + 1 /\ stack' = [stack EXCEPT ![top] = v]
  BY SizeAssumption DEF ArrayPush, ArrayFull, ArrayTypeOK
<1>2. c \in Seq(Value) /\ Len(c) = top /\ \A k \in 1 .. top : c[k] = stack[k - 1]
  BY ContentsSeq
<1>3. /\ d \in Seq(Value) /\ Len(d) = top + 1
      /\ \A k \in 1 .. top + 1 : d[k] = stack'[k - 1]
  <2>1. d = [k \in 1 .. top + 1 |-> stack'[k - 1]]
    BY <1>1 DEF ArrayContents
  <2>2. \A k \in 1 .. top + 1 : stack'[k - 1] \in Value
    <3>1. stack' \in [0 .. size - 1 -> Value]
      BY DEF ArrayTypeOK
    <3>2. \A k \in 1 .. top + 1 : k - 1 \in 0 .. size - 1
      BY <1>1, SizeAssumption
    <3> QED BY <3>1, <3>2
  <2>3. d \in [1 .. top + 1 -> Value]
    BY <2>1, <2>2
  <2> QED BY <1>1, <2>1, <2>3, SeqDef, LenProperties
<1>4. /\ Append(c, v) \in Seq(Value) /\ Len(Append(c, v)) = top + 1
      /\ \A k \in 1 .. top : Append(c, v)[k] = c[k]
      /\ Append(c, v)[top + 1] = v
  BY <1>1, <1>2, AppendProperties
<1>5. \A k \in 1 .. top + 1 : d[k] = Append(c, v)[k]
  <2> SUFFICES ASSUME NEW k \in 1 .. top + 1 PROVE d[k] = Append(c, v)[k]
    BY Zenon
  <2>0. stack \in [0 .. size - 1 -> Value]
    BY DEF ArrayTypeOK
  <2>1. CASE k = top + 1
    <3>1. stack'[top] = v
      BY <1>1, <2>0, SizeAssumption
    <3> QED BY <1>1, <1>3, <1>4, <2>1, <3>1
  <2>2. CASE k \in 1 .. top
    <3>1. stack'[k - 1] = stack[k - 1]
      BY <1>1, <2>0, <2>2, SizeAssumption
    <3> QED BY <1>2, <1>3, <1>4, <2>2, <3>1
  <2>3. k = top + 1 \/ k \in 1 .. top
    BY <1>1
  <2> HIDE DEF c, d
  <2> QED BY <2>1, <2>2, <2>3, Zenon
<1>6. d = Append(c, v)
  <2> HIDE DEF c, d
  <2> QED BY <1>3, <1>4, <1>5, SeqEqual
<1> QED BY <1>6 DEF ArrayPush, L!Push

\* Pop takes the value on top, and only that one.
LEMMA PopTakesLast ==
  ASSUME ArrayTypeOK, ArrayTypeOK', ArrayPop
  PROVE  L!Pop
<1> DEFINE c == ArrayContents
           d == ArrayContents'
           e == SubSeq(c, 1, top - 1)
<1>1. top \in Nat /\ top >= 1 /\ top' = top - 1 /\ stack' = stack
  BY SizeAssumption DEF ArrayPop, ArrayEmpty, ArrayTypeOK
<1>2. c \in Seq(Value) /\ Len(c) = top /\ \A k \in 1 .. top : c[k] = stack[k - 1]
  BY ContentsSeq
<1>3. c # <<>> /\ c[Len(c)] = stack[top - 1]
  BY <1>1, <1>2
<1>4. /\ d \in Seq(Value) /\ Len(d) = top - 1
      /\ \A k \in 1 .. top - 1 : d[k] = stack[k - 1]
  <2>1. d = [k \in 1 .. top - 1 |-> stack[k - 1]]
    BY <1>1 DEF ArrayContents
  <2>2. \A k \in 1 .. top - 1 : stack[k - 1] \in Value
    BY <1>1, SizeAssumption DEF ArrayTypeOK
  <2>3. d \in [1 .. top - 1 -> Value]
    BY <2>1, <2>2
  <2> QED BY <1>1, <2>1, <2>3, SeqDef, LenProperties
<1>5. e \in Seq(Value) /\ Len(e) = top - 1 /\ \A k \in 1 .. top - 1 : e[k] = c[k]
  BY <1>1, <1>2, SubSeqProperties
<1>6. d = e
  <2> HIDE DEF c, d, e
  <2>1. ASSUME NEW k \in 1 .. top - 1 PROVE d[k] = e[k]
    <3>1. k \in 1 .. top
      BY <1>1
    <3>2. d[k] = stack[k - 1] /\ c[k] = stack[k - 1] /\ e[k] = c[k]
      BY <1>2, <1>4, <1>5, <3>1
    <3> QED BY <3>2
  <2> QED BY <1>4, <1>5, <2>1, SeqEqual
<1> QED BY <1>2, <1>3, <1>6 DEF ArrayPop, L!Pop

\* ArrayStack of inheritstack.cc, and the same code in stack.cc and in
\* templatestack.cc, is a last-in first-out stack of any size and value type.
THEOREM ArrayImplementsLifo == ArraySpec => L!Spec
<1>1. ArrayInit => L!Init
  <2> SUFFICES ASSUME ArrayInit PROVE L!Init
    OBVIOUS
  <2>1. ArrayContents \in Seq(Value) /\ Len(ArrayContents) = 0
    BY ArrayInitType, ContentsSeq DEF ArrayInit
  <2>2. ArrayContents = <<>>
    <3> HIDE DEF ArrayContents
    <3> QED BY <2>1, EmptySeq
  <2> QED BY <2>2 DEF ArrayInit, L!Init
<1>2. ArrayTypeOK /\ ArrayTypeOK' /\ [ArrayNext]_arrayVars
        => [L!Next]_<<ArrayContents, popped>>
  <2> SUFFICES ASSUME ArrayTypeOK, ArrayTypeOK', [ArrayNext]_arrayVars
               PROVE  [L!Next]_<<ArrayContents, popped>>
    OBVIOUS
  <2>1. ASSUME NEW v \in Value, ArrayPush(v) PROVE L!Next
    BY <2>1, PushAppends DEF L!Next
  <2>2. CASE ArrayPop
    BY <2>2, PopTakesLast DEF L!Next
  <2>3. CASE UNCHANGED arrayVars
    BY <2>3 DEF arrayVars, ArrayContents
  <2> QED BY <2>1, <2>2, <2>3 DEF ArrayNext
<1> QED BY <1>1, <1>2, ArrayTypeCorrect, PTL DEF ArraySpec, L!Spec
===============================================================================
