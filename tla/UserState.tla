------------------------------ MODULE UserState ------------------------------
(***************************************************************************)
(* The registers and the page table of the simulated machine, shared by    *)
(* all user programs: what Scheduler::Run saves and restores, what         *)
(* StartProcess and StartProcessID set up, and what instructions and       *)
(* system calls change.  The scheduler may choose any thread.              *)
(*                                                                         *)
(* The registers are abstracted to the thread whose program they came from *)
(* and the number of changes that program made to them.                    *)
(***************************************************************************)
EXTENDS Naturals

CONSTANTS
    UserThread,    \* threads that run a program
    KernelThread,  \* threads that never do: space stays NULL
    MaxChanges     \* bound: changes a program makes to its registers

ASSUME UserStateAssumption ==
    /\ UserThread \cap KernelThread = {}
    /\ MaxChanges \in Nat

AnyThread == UserThread \cup KernelThread

VARIABLES
    running,       \* currentThread
    where,         \* what a thread does: see Places
    space,         \* Thread::space: "NULL", "live" or "deleted"
    userRegisters, \* Thread::userRegisters
    registers,     \* Machine::registers
    pageTableOf,   \* the thread whose page table Machine::pageTable is
    changes        \* how often the program of a thread changed its registers

userVars == <<running, where, space, userRegisters, registers, pageTableOf, changes>>

\* "new": forked; "load": in the constructor of AddrSpace, which may wait;
\* "user": executing its program; "call": in a system call; "kernel": a kernel
\* thread; "finish": in Thread::Finish.
Places == {"new", "load", "user", "call", "kernel", "finish"}
Regs == [of : AnyThread, n : Nat]

UserInit ==
    /\ running \in AnyThread
    /\ where = [t \in AnyThread |-> IF t \in KernelThread THEN "kernel"
                                    ELSE IF t = running THEN "load" ELSE "new"]
    /\ space = [t \in AnyThread |-> "NULL"]
    /\ userRegisters = [t \in AnyThread |-> [of |-> running, n |-> 0]]
    /\ registers = [of |-> running, n |-> 0]
    /\ pageTableOf = running
    /\ changes = [t \in AnyThread |-> 0]

SaveUserState == [userRegisters EXCEPT ![running] = registers]
RestoreUserState(saved, next) == saved[next]

\* Mutant of Run: a thread that comes back does not get its registers.
RunNoRestore(next) ==
    LET saved == IF space[running] # "NULL" THEN SaveUserState ELSE userRegisters
        back == where[next] # "new" /\ space[next] # "NULL"
    IN  /\ running' = next
        /\ userRegisters' = saved
        /\ registers' = registers
        /\ pageTableOf' = IF back THEN next ELSE pageTableOf

(* Scheduler::Run: a thread that was forked and has not run does not come   *)
(* back from SWITCH, and gets neither registers nor a page table here.      *)
Run(next) ==
    LET saved == IF space[running] # "NULL" THEN SaveUserState ELSE userRegisters
        back == where[next] # "new" /\ space[next] # "NULL"
    IN  /\ running' = next
        /\ userRegisters' = saved
        /\ registers' = IF back THEN RestoreUserState(saved, next) ELSE registers
        /\ pageTableOf' = IF back THEN next ELSE pageTableOf

(* The running thread yields or sleeps, in the kernel, or at an interrupt   *)
(* between two instructions of its program.                                 *)
Switch(next) ==
    /\ where[next] # "finish"
    /\ Run(next)
    /\ where' = [where EXCEPT ![next] = IF @ = "new" THEN "load" ELSE @]
    /\ UNCHANGED <<space, changes>>

(* The rest of StartProcess and of StartProcessID, once the program is      *)
(* loaded: InitRegisters, RestoreState, machine->Run.                       *)
StartProcess ==
    /\ where[running] = "load"
    /\ space' = [space EXCEPT ![running] = "live"]
    /\ registers' = [of |-> running, n |-> 0]
    /\ pageTableOf' = running
    /\ where' = [where EXCEPT ![running] = "user"]
    /\ UNCHANGED <<running, userRegisters, changes>>

\* WriteRegister on behalf of the program.
WriteRegister ==
    /\ changes[running] < MaxChanges
    /\ registers' = [registers EXCEPT !.n = @ + 1]
    /\ changes' = [changes EXCEPT ![running] = @ + 1]

Instruction ==
    /\ where[running] = "user"
    /\ WriteRegister
    /\ UNCHANGED <<running, where, space, userRegisters, pageTableOf>>

SystemCall ==
    /\ where[running] = "user"
    /\ where' = [where EXCEPT ![running] = "call"]
    /\ UNCHANGED <<running, space, userRegisters, registers, pageTableOf, changes>>

(* The end of a system call, which may have slept: the result, and the PCs. *)
SystemReturn ==
    /\ where[running] = "call"
    /\ WriteRegister
    /\ where' = [where EXCEPT ![running] = "user"]
    /\ UNCHANGED <<running, space, userRegisters, pageTableOf>>

(* PTable::ExitUpdate and Thread::FreeSpace: space is deleted, and the      *)
(* pointer stays.                                                           *)
Exit ==
    /\ where[running] = "call"
    /\ space' = [space EXCEPT ![running] = "deleted"]
    /\ where' = [where EXCEPT ![running] = "finish"]
    /\ UNCHANGED <<running, userRegisters, registers, pageTableOf, changes>>

UserNext ==
    \/ \E t \in AnyThread : Switch(t)
    \/ StartProcess
    \/ Instruction
    \/ SystemCall
    \/ SystemReturn
    \/ Exit

UserSpec == UserInit /\ [][UserNext]_userVars

-----------------------------------------------------------------------------
(* Whatever other programs, kernel threads, forks and exits came between, a *)
(* program that executes finds the registers it left, with the results of   *)
(* its own system calls, and its own page table, not deleted.               *)
OwnMachine ==
    where[running] \in {"user", "call"} =>
        /\ registers = [of |-> running, n |-> changes[running]]
        /\ pageTableOf = running
        /\ space[pageTableOf] = "live"
=============================================================================
