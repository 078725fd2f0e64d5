------------------------------ MODULE ProcTable ------------------------------
(***************************************************************************)
(* The process table of code/userprog: PTable and PCB, the system calls    *)
(* Exec, Join and Exit of exception.cc that use them, and the start of a   *)
(* process in progtest.cc.                                                 *)
(*                                                                         *)
(* A process is one kernel thread.  The kernel gives up the CPU only       *)
(* inside P(), V() and Fork() (see Threads), so a step runs from one of    *)
(* these calls to the next.  Semaphores obey SemContract: P() waits for a  *)
(* positive value and takes one unit.                                      *)
(***************************************************************************)
EXTENDS Naturals, FiniteSets

CONSTANTS
    Proc,         \* Thread objects of processes (addresses: reused)
    Main,         \* the thread that runs the first program, process 0
    MaxProcess,   \* MAX_PROCESS, and the size given to PTable
    Prog,         \* program names Exec may be given
    Scheduler,    \* "./test/scheduler"
    MaxExec,      \* bound: calls of Exec in a behaviour
    NoProc,       \* NULL as a Thread*
    NoProg        \* no program name

ASSUME ProcTableAssumption ==
    /\ Main \in Proc
    /\ MaxProcess \in Nat \ {0}
    /\ Scheduler \in Prog
    /\ MaxExec \in Nat
    /\ NoProc \notin Proc
    /\ NoProg \notin Prog

Slot == 0 .. MaxProcess - 1
Nobody == MaxProcess       \* parentID = -1; also "no slot"
Status == {0, 1}           \* arguments of Exit: zero and nonzero
NotCalled == 2             \* a process that has not called Exit

VARIABLES
    bm, bmsem,                 \* PTable
    sems,                      \* pcb[i]: "null", "live" or "deleted" (~PCB ran)
    parentID, numwait, exitcode, thread,         \* PCB
    joinsem, exitsem, multex,                    \* PCB, semaphore values
    pc, processID,             \* Thread
    name,                      \* Thread::name, the buffer of ExecFunction
    nameFreed,                 \* that buffer was deleted
    arg, slot,                 \* locals: name given to Exec, slot in use
    children,                  \* what the program knows: Exec'd, not yet joined
    exitArg,                   \* last argument given to Exit
    execs,                     \* calls of Exec so far
    disciplined,               \* programs Join each child once, before they Exit
    machine                    \* "up", "halted", or "crashed"

table == <<bm, bmsem>>
pcbs == <<sems, parentID, numwait, exitcode, thread, joinsem, exitsem, multex>>
threads == <<pc, processID, name, nameFreed, arg, slot, children, exitArg>>
vars == <<table, pcbs, threads, execs, disciplined, machine>>

\* Where a process is.  "user" is user code; the others are kernel code about
\* to make the P(), V() or Fork() call they are named after.
Pc == {"none", "start", "user",
       "Exec.bmsemP", "Exec.slot", "Exec.fork", "Exec.multexV", "Exec.bmsemV",
       "Exec.return",
       "Join.multexP", "Join.inc", "Join.joinsemP", "Join.release",
       "Exit.multexP", "Exit.dec", "Exit.joinsemV", "Exit.exitsemP",
       "Exit.remove"}

(* PTable::PTable, then main() starts the first program in process 0.       *)
Init ==
    /\ bm = {0} /\ bmsem = 1
    /\ sems = [i \in Slot |-> IF i = 0 THEN "live" ELSE "null"]
    /\ parentID = [i \in Slot |-> Nobody]
    /\ numwait = [i \in Slot |-> 0]
    /\ exitcode = [i \in Slot |-> 0]
    /\ thread = [i \in Slot |-> NoProc]
    /\ joinsem = [i \in Slot |-> 0]
    /\ exitsem = [i \in Slot |-> 0]
    /\ multex = [i \in Slot |-> IF i = 0 THEN 1 ELSE 0]
    /\ pc = [t \in Proc |-> IF t = Main THEN "user" ELSE "none"]
    /\ processID = [t \in Proc |-> IF t = Main THEN 0 ELSE Nobody]
    /\ name = [t \in Proc |-> NoProg]
    /\ nameFreed = [t \in Proc |-> FALSE]
    /\ arg = [t \in Proc |-> NoProg]
    /\ slot = [t \in Proc |-> Nobody]
    /\ children = [t \in Proc |-> {}]
    /\ exitArg = [t \in Proc |-> NotCalled]
    /\ execs = 0
    /\ disciplined \in BOOLEAN
    /\ machine = "up"

At(t, where) == machine = "up" /\ pc[t] = where
Goto(t, where) == pc' = [pc EXCEPT ![t] = where]

-----------------------------------------------------------------------------
(* ExecFunction up to bmsem->P().  A name that fileSystem->Open rejects     *)
(* changes nothing.                                                         *)
CallExec(t, p) ==
    /\ At(t, "user")
    /\ execs < MaxExec
    /\ execs' = execs + 1
    /\ arg' = [arg EXCEPT ![t] = p]
    /\ Goto(t, "Exec.bmsemP")
    /\ UNCHANGED <<table, pcbs, processID, name, nameFreed, slot, children,
                   exitArg, machine>>

ExecLock(t) ==
    /\ At(t, "Exec.bmsemP")
    /\ bmsem > 0
    /\ bmsem' = bmsem - 1
    /\ Goto(t, "Exec.slot")
    /\ UNCHANGED <<bm, pcbs, processID, name, nameFreed, arg, slot, children,
                   exitArg, execs, machine>>

(* BitMap::Find: the first clear bit, if there is one. *)
Free == Slot \ bm
GetFreeSlot == CHOOSE i \in Free : \A j \in Free : i <= j

(* Results of strcmp(name, currentThread->getName()).  The parent deletes   *)
(* the buffer its child's name points to, so later the bytes may be anything *)
(* (often the buffer of this very call, allocated again).                   *)
NamedAs(t, p) == IF nameFreed[t] THEN BOOLEAN ELSE {name[t] = p}

(* ExecUpdate refuses: bmsem->V(), return -1.  GetFreeSlot has already      *)
(* marked the slot.                                                         *)
ExecRefused(t) ==
    /\ At(t, "Exec.slot")
    /\ \/ Free = {}
       \/ arg[t] = Scheduler
       \/ TRUE \in NamedAs(t, arg[t])
    /\ bm' = IF Free = {} THEN bm ELSE bm \cup {GetFreeSlot}
    /\ bmsem' = bmsem + 1
    /\ arg' = [arg EXCEPT ![t] = NoProg]
    /\ Goto(t, "user")
    /\ UNCHANGED <<pcbs, processID, name, nameFreed, slot, children, exitArg,
                   execs, machine>>

(* ExecUpdate from GetFreeSlot to the new PCB; "marked" and "joinable" are  *)
(* the bit GetFreeSlot leaves and the initial value of joinsem.             *)
NewPCBWith(t, marked, joinable) ==
    /\ At(t, "Exec.slot")
    /\ Free # {}
    /\ arg[t] # Scheduler
    /\ FALSE \in NamedAs(t, arg[t])
    /\ LET i == GetFreeSlot
       IN  /\ bm' = IF marked THEN bm \cup {i} ELSE bm
           /\ slot' = [slot EXCEPT ![t] = i]
           /\ sems' = [sems EXCEPT ![i] = "live"]
           /\ parentID' = [parentID EXCEPT ![i] = processID[t]]
           /\ numwait' = [numwait EXCEPT ![i] = 0]
           /\ exitcode' = [exitcode EXCEPT ![i] = 0]
           /\ thread' = [thread EXCEPT ![i] = NoProc]
           /\ joinsem' = [joinsem EXCEPT ![i] = joinable]
           /\ exitsem' = [exitsem EXCEPT ![i] = 0]
           /\ multex' = [multex EXCEPT ![i] = 0]
    /\ Goto(t, "Exec.fork")
    /\ UNCHANGED <<bmsem, processID, name, nameFreed, arg, children, exitArg,
                   execs, machine>>

\* Mutants of NewPCB: the slot is used but not marked; joinsem starts at 1.
NewPCBUnmarked(t) == NewPCBWith(t, FALSE, 0)
NewPCBJoinable(t) == NewPCBWith(t, TRUE, 1)

(* ExecUpdate makes the PCB and PCB::Exec takes its multex (value 1). *)
NewPCB(t) == NewPCBWith(t, TRUE, 0)

(* PCB::Exec: new Thread(filename), its processID and parentID, Fork.       *)
ExecFork(t, u) ==
    /\ At(t, "Exec.fork")
    /\ pc[u] = "none"
    /\ thread' = [thread EXCEPT ![slot[t]] = u]
    /\ parentID' = [parentID EXCEPT ![slot[t]] = processID[t]]
    /\ processID' = [processID EXCEPT ![u] = slot[t]]
    /\ name' = [name EXCEPT ![u] = arg[t]]
    /\ nameFreed' = [nameFreed EXCEPT ![u] = FALSE]
    /\ children' = [children EXCEPT ![u] = {}]
    /\ exitArg' = [exitArg EXCEPT ![u] = NotCalled]
    /\ pc' = [pc EXCEPT ![t] = "Exec.multexV", ![u] = "start"]
    /\ UNCHANGED <<table, sems, numwait, exitcode, joinsem, exitsem, multex, arg,
                   slot, execs, machine>>

ExecMultexV(t) ==
    /\ At(t, "Exec.multexV")
    /\ multex' = [multex EXCEPT ![slot[t]] = @ + 1]
    /\ Goto(t, "Exec.bmsemV")
    /\ UNCHANGED <<table, sems, parentID, numwait, exitcode, thread, joinsem,
                   exitsem, processID, name, nameFreed, arg, slot, children,
                   exitArg, execs, machine>>

ExecUnlock(t) ==
    /\ At(t, "Exec.bmsemV")
    /\ bmsem' = bmsem + 1
    /\ Goto(t, "Exec.return")
    /\ UNCHANGED <<bm, pcbs, processID, name, nameFreed, arg, slot, children,
                   exitArg, execs, machine>>

(* ExecFunction returns the pid and deletes progName, the child's name. *)
ExecReturn(t) ==
    /\ At(t, "Exec.return")
    /\ nameFreed' = [u \in Proc |-> nameFreed[u] \/ u = thread[slot[t]]]
    /\ children' = [children EXCEPT ![t] = @ \cup {slot[t]}]
    /\ arg' = [arg EXCEPT ![t] = NoProg]
    /\ slot' = [slot EXCEPT ![t] = Nobody]
    /\ Goto(t, "user")
    /\ UNCHANGED <<table, pcbs, processID, name, exitArg, execs, machine>>

(* StartProcessID: the new process builds its AddrSpace and runs.           *)
StartProcessID(t) ==
    /\ At(t, "start")
    /\ Goto(t, "user")
    /\ UNCHANGED <<table, pcbs, processID, name, nameFreed, arg, slot, children,
                   exitArg, execs, machine>>

-----------------------------------------------------------------------------
(* JoinFunction and JoinUpdate up to the first P().  A process that is not  *)
(* the parent gets -1 and continues.                                        *)
CallJoin(t, i) ==
    /\ At(t, "user")
    /\ disciplined => i \in children[t]
    /\ sems[i] # "null"
    /\ parentID[i] = processID[t]
    /\ slot' = [slot EXCEPT ![t] = i]
    /\ Goto(t, "Join.multexP")
    /\ UNCHANGED <<table, pcbs, processID, name, nameFreed, arg, children,
                   exitArg, execs, machine>>

(* The P() that both IncNumWait and DecNumWait start with, on PCB i. *)
TakeMultex(t, i, next) ==
    /\ sems[i] = "live"
    /\ multex[i] > 0
    /\ multex' = [multex EXCEPT ![i] = @ - 1]
    /\ Goto(t, next)
    /\ UNCHANGED <<table, sems, parentID, numwait, exitcode, thread, joinsem,
                   exitsem, processID, name, nameFreed, arg, slot, children,
                   exitArg, execs, machine>>

(* ... and the update and V() they end with. *)
SetNumWait(t, i, n, next) ==
    /\ sems[i] = "live"
    /\ numwait' = [numwait EXCEPT ![i] = n]
    /\ multex' = [multex EXCEPT ![i] = @ + 1]
    /\ Goto(t, next)
    /\ UNCHANGED <<table, sems, parentID, exitcode, thread, joinsem, exitsem,
                   processID, name, nameFreed, arg, slot, children, exitArg,
                   execs, machine>>

JoinMultexP(t) ==
    /\ At(t, "Join.multexP")
    /\ TakeMultex(t, parentID[slot[t]], "Join.inc")

IncNumWait(t) ==
    /\ At(t, "Join.inc")
    /\ SetNumWait(t, parentID[slot[t]], numwait[parentID[slot[t]]] + 1, "Join.joinsemP")

JoinWait(t) ==
    /\ At(t, "Join.joinsemP")
    /\ sems[slot[t]] = "live"
    /\ joinsem[slot[t]] > 0
    /\ joinsem' = [joinsem EXCEPT ![slot[t]] = @ - 1]
    /\ Goto(t, "Join.release")
    /\ UNCHANGED <<table, sems, parentID, numwait, exitcode, thread, exitsem,
                   multex, processID, name, nameFreed, arg, slot, children,
                   exitArg, execs, machine>>

\* Mutant of JoinReturn: no ExitRelease.
JoinReturnOnly(t) ==
    /\ At(t, "Join.release")
    /\ children' = [children EXCEPT ![t] = @ \ {slot[t]}]
    /\ slot' = [slot EXCEPT ![t] = Nobody]
    /\ Goto(t, "user")
    /\ UNCHANGED <<table, pcbs, processID, name, nameFreed, arg, exitArg, execs,
                   machine>>

(* GetExitCode, ExitRelease, and the return of Join. *)
JoinReturn(t) ==
    /\ At(t, "Join.release")
    /\ sems[slot[t]] = "live"
    /\ exitsem' = [exitsem EXCEPT ![slot[t]] = @ + 1]
    /\ children' = [children EXCEPT ![t] = @ \ {slot[t]}]
    /\ slot' = [slot EXCEPT ![t] = Nobody]
    /\ Goto(t, "user")
    /\ UNCHANGED <<table, sems, parentID, numwait, exitcode, thread, joinsem,
                   multex, processID, name, nameFreed, arg, exitArg, execs,
                   machine>>

-----------------------------------------------------------------------------
(* ExitFunction(status): a nonzero status returns to the program, process 0 *)
(* halts the machine, another process starts the handshake with its parent. *)
(* Its slot is always marked (PidsExact): IsExist never fails here.         *)
CallExit(t, status) ==
    /\ At(t, "user")
    /\ disciplined => children[t] = {}
    /\ exitArg' = [exitArg EXCEPT ![t] = status]
    /\ \/ /\ status # 0
          /\ UNCHANGED <<pc, exitcode, machine>>
       \/ /\ status = 0
          /\ processID[t] = 0
          /\ machine' = "halted"
          /\ UNCHANGED <<pc, exitcode>>
       \/ /\ status = 0
          /\ processID[t] # 0
          /\ processID[t] \in bm
          /\ exitcode' = [exitcode EXCEPT ![processID[t]] = status]
          /\ Goto(t, "Exit.multexP")
          /\ UNCHANGED machine
    /\ UNCHANGED <<table, sems, parentID, numwait, thread, joinsem, exitsem,
                   multex, processID, name, nameFreed, arg, slot, children, execs>>

ExitMultexP(t) ==
    /\ At(t, "Exit.multexP")
    /\ TakeMultex(t, parentID[processID[t]], "Exit.dec")

DecNumWait(t) ==
    LET i == parentID[processID[t]]
    IN  /\ At(t, "Exit.dec")
        /\ SetNumWait(t, i, IF numwait[i] > 0 THEN numwait[i] - 1 ELSE 0,
                      "Exit.joinsemV")

JoinRelease(t) ==
    /\ At(t, "Exit.joinsemV")
    /\ joinsem' = [joinsem EXCEPT ![processID[t]] = @ + 1]
    /\ Goto(t, "Exit.exitsemP")
    /\ UNCHANGED <<table, sems, parentID, numwait, exitcode, thread, exitsem,
                   multex, processID, name, nameFreed, arg, slot, children,
                   exitArg, execs, machine>>

\* Mutant of ExitWait: the child does not wait for its parent.
ExitWaitSkipped(t) ==
    /\ At(t, "Exit.exitsemP")
    /\ Goto(t, "Exit.remove")
    /\ UNCHANGED <<table, pcbs, processID, name, nameFreed, arg, slot, children,
                   exitArg, execs, machine>>

ExitWait(t) ==
    /\ At(t, "Exit.exitsemP")
    /\ exitsem[processID[t]] > 0
    /\ exitsem' = [exitsem EXCEPT ![processID[t]] = @ - 1]
    /\ Goto(t, "Exit.remove")
    /\ UNCHANGED <<table, sems, parentID, numwait, exitcode, thread, joinsem,
                   multex, processID, name, nameFreed, arg, slot, children,
                   exitArg, execs, machine>>

(* Threads asleep in, or between the P() and the V() of, a semaphore of     *)
(* pcb[i].                                                                  *)
Using(i) ==
    {t \in Proc :
        \/ pc[t] \in {"Join.joinsemP", "Join.release"} /\ slot[t] = i
        \/ pc[t] \in {"Join.multexP", "Join.inc"} /\ parentID[slot[t]] = i
        \/ pc[t] \in {"Exit.multexP", "Exit.dec"} /\ parentID[processID[t]] = i
        \/ pc[t] \in {"Exec.multexV"} /\ slot[t] = i}

(* PTable::Remove and ~PCB, which finishes the thread: it never returns, so *)
(* pcb[pid] keeps pointing to the PCB and its parentID stays readable.      *)
(* Deleting a semaphore in use is undefined.                                *)
Remove(t) ==
    LET i == processID[t]
    IN  /\ At(t, "Exit.remove")
        /\ bm' = bm \ {i}
        /\ sems' = [sems EXCEPT ![i] = "deleted"]
        /\ machine' = IF Using(i) = {} THEN "up" ELSE "crashed"
        /\ pc' = [pc EXCEPT ![t] = "none"]
        /\ processID' = [processID EXCEPT ![t] = Nobody]
        /\ name' = [name EXCEPT ![t] = NoProg]
        /\ nameFreed' = [nameFreed EXCEPT ![t] = FALSE]
        /\ children' = [children EXCEPT ![t] = {}]
        /\ exitArg' = [exitArg EXCEPT ![t] = NotCalled]
        /\ UNCHANGED <<bmsem, parentID, numwait, exitcode, thread, joinsem,
                       exitsem, multex, arg, slot, execs>>
-----------------------------------------------------------------------------
(* JoinUpdate reads pcb[id]->parentID of a slot never used. *)
JoinNull(t, i) == At(t, "user") /\ ~disciplined /\ sems[i] = "null"

(* P() or V() on a semaphore of a PCB whose destructor ran. *)
UsesDeleted(t) ==
    /\ machine = "up"
    /\ \/ pc[t] \in {"Join.joinsemP", "Join.release"} /\ sems[slot[t]] # "live"
       \/ pc[t] \in {"Join.multexP", "Join.inc"} /\ sems[parentID[slot[t]]] # "live"
       \/ /\ pc[t] \in {"Exit.multexP", "Exit.dec"}
          /\ sems[parentID[processID[t]]] # "live"

(* Undefined behaviour: the model says nothing of what follows. *)
Crash(t) ==
    /\ UsesDeleted(t) \/ \E i \in Slot : JoinNull(t, i)
    /\ machine' = "crashed"
    /\ UNCHANGED <<table, pcbs, threads, execs>>

(* The system call Halt. *)
Halt(t) ==
    /\ At(t, "user")
    /\ machine' = "halted"
    /\ UNCHANGED <<table, pcbs, threads, execs>>

(* Kernel code between two calls of a program. *)
KernelStep(t) ==
    \/ ExecLock(t)
    \/ ExecRefused(t)
    \/ NewPCB(t)
    \/ \E u \in Proc : ExecFork(t, u)
    \/ ExecMultexV(t)
    \/ ExecUnlock(t)
    \/ ExecReturn(t)
    \/ StartProcessID(t)
    \/ JoinMultexP(t)
    \/ IncNumWait(t)
    \/ JoinWait(t)
    \/ JoinReturn(t)
    \/ ExitMultexP(t)
    \/ DecNumWait(t)
    \/ JoinRelease(t)
    \/ ExitWait(t)
    \/ Remove(t)

Step(t) ==
    \/ \E p \in Prog : CallExec(t, p)
    \/ \E i \in Slot : CallJoin(t, i)
    \/ \E status \in Status : CallExit(t, status)
    \/ KernelStep(t)
    \/ Crash(t)
    \/ Halt(t)

Next == UNCHANGED disciplined /\ \E t \in Proc : Step(t)

Spec == Init /\ [][Next]_vars

Disciplined == disciplined /\ UNCHANGED disciplined

(* The scheduler runs every ready thread, a disciplined program gets round  *)
(* to joining its children, and programs other than the first end.  The     *)
(* first, whose Exit halts the machine, may run on.                         *)
FairSpec ==
    /\ Spec
    /\ \A t \in Proc : WF_vars(Disciplined /\ KernelStep(t))
    /\ \A t \in Proc : WF_vars(Disciplined /\ \E i \in Slot : CallJoin(t, i))
    /\ \A t \in Proc \ {Main} : WF_vars(Disciplined /\ CallExit(t, 0))

-----------------------------------------------------------------------------
\* Every variable has the type of the field it models.
TypeOK ==
    /\ bm \subseteq Slot /\ bmsem \in Nat
    /\ sems \in [Slot -> {"null", "live", "deleted"}]
    /\ parentID \in [Slot -> Slot \cup {Nobody}]
    /\ numwait \in [Slot -> Nat]
    /\ exitcode \in [Slot -> Status]
    /\ thread \in [Slot -> Proc \cup {NoProc}]
    /\ joinsem \in [Slot -> Nat]
    /\ exitsem \in [Slot -> Nat]
    /\ multex \in [Slot -> Nat]
    /\ pc \in [Proc -> Pc]
    /\ processID \in [Proc -> Slot \cup {Nobody}]
    /\ name \in [Proc -> Prog \cup {NoProg}]
    /\ nameFreed \in [Proc -> BOOLEAN]
    /\ arg \in [Proc -> Prog \cup {NoProg}]
    /\ slot \in [Proc -> Slot \cup {Nobody}]
    /\ children \in [Proc -> SUBSET Slot]
    /\ exitArg \in [Proc -> Status \cup {NotCalled}]
    /\ execs \in 0 .. MaxExec
    /\ disciplined \in BOOLEAN
    /\ machine \in {"up", "halted", "crashed"}

Alive == {t \in Proc : pc[t] # "none"}

\* ExecUpdate under bmsem: a process's pid is marked in bm, belongs to no other
\* process, and leads to its own live PCB, whatever the programs call.
PidsExact ==
    /\ \A t \in Alive :
          /\ processID[t] \in bm
          /\ processID[t] # 0 => thread[processID[t]] = t
          /\ sems[processID[t]] = "live"
    /\ \A t, u \in Alive : processID[t] = processID[u] => t = u

\* Join returns only once the child has called Exit, with the code it gave to
\* Exit, and while the child still waits to be released (so that its PCB exists).
JoinedHasExited ==
    \A t \in Proc :
        pc[t] = "Join.release" =>
            LET child == thread[slot[t]]
            IN  /\ pc[child] = "Exit.exitsemP"
                /\ processID[child] = slot[t]
                /\ exitArg[child] = exitcode[slot[t]]

\* With programs that join each child once before they exit, no thread uses a
\* PCB that was never made or already deleted, and ~PCB deletes no semaphore
\* with a thread in it.
NoCrash == disciplined => machine # "crashed"

\* With such programs every Join returns, and a child that was Exec'd is
\* finished and its slot freed, or the machine halts.
ChildrenReaped ==
    \A t \in Proc :
        /\ disciplined /\ pc[t] = "Join.joinsemP" ~> (pc[t] = "user" \/ machine # "up")
        /\ t # Main => (disciplined /\ pc[t] # "none" ~> (pc[t] = "none" \/ machine # "up"))
=============================================================================
