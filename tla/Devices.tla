------------------------------ MODULE Devices ------------------------------
(***************************************************************************)
(* The machine's simulated time: the queue of pending interrupts           *)
(* (machine/interrupt.cc), the timer (machine/timer.cc) and the disk       *)
(* (machine/disk.cc) with its synchronous interface (filesys/synchdisk.cc),*)
(* under kernel threads that compute and read and write sectors, as those  *)
(* of user programs do in the file system.  SynchDisk's lock keeps none of *)
(* them out: Lock::Acquire and Lock::Release are empty.                    *)
(*                                                                         *)
(* Time advances by SystemTick whenever a thread enables interrupts, and   *)
(* while all sleep, to the next pending interrupt.  Each pass through      *)
(* CheckIfDue is a step, and so is each dispatch of a thread.              *)
(***************************************************************************)
EXTENDS DiskTiming, Sequences

CONSTANTS SystemTick, TimerTicks,
          NumThreads,    \* kernel threads
          MaxTicks,      \* bound: the threads compute up to this time
          MaxRequests,   \* bound: disk requests
          MaxDraws       \* bound: random intervals drawn by the timer

ASSUME DevicesAssumption ==
    SystemTick \in Nat /\ TimerTicks \in Nat \ {0} /\ NumThreads \in Nat \ {0}

KernelThreads == 1 .. NumThreads

VARIABLES totalTicks, pending, yieldOnReturn,
          doing,         \* what the machine is doing
          active, lastSector, bufferInit,   \* the disk
          semaphore, queue,                 \* SynchDisk's semaphore
          currentThread, readyList,
          at,            \* where each thread is: it runs, is in P() or has ended
          requests,      \* how many disk requests there were
          draws          \* how many intervals the timer has drawn

clock == <<totalTicks, pending, yieldOnReturn>>
diskVars == <<active, lastSector, bufferInit>>
threadVars == <<semaphore, queue, currentThread, readyList, at>>
deviceVars == <<clock, doing, diskVars, threadVars, requests, draws>>

\* List::SortedInsert, into a list in order of the times: behind those with the
\* same time.
SortedInsert(list, item) ==
    LET c == CHOOSE c \in 0 .. Len(list) :
                 \A i \in DOMAIN list : list[i].when <= item.when <=> i <= c
    IN  SubSeq(list, 1, c) \o <<item>> \o SubSeq(list, c + 1, Len(list))

Schedule(list, now, fromNow, type) ==
    SortedInsert(list, [when |-> now + fromNow, type |-> type])

\* Timer::TimeOfNextInterrupt, of a timer with random intervals; after MaxDraws
\* of them it draws the longest.
TimeOfNextInterrupt == IF draws < MaxDraws THEN 1 .. 2 * TimerTicks ELSE {2 * TimerTicks}

\* A machine with the timer (nachos -rs) or without; the first thread runs and
\* has forked the others.
DevicesInit ==
    /\ totalTicks = 0 /\ yieldOnReturn = FALSE
    /\ \/ pending = <<>>
       \/ \E n \in 1 .. 2 * TimerTicks : pending = Schedule(<<>>, 0, n, "TimerInt")
    /\ doing = "run"
    /\ active = FALSE /\ lastSector = 0 /\ bufferInit = 0
    /\ semaphore = 0 /\ queue = <<>>
    /\ currentThread = 1 /\ readyList = [i \in 1 .. NumThreads - 1 |-> i + 1]
    /\ at = [t \in KernelThreads |-> "run"]
    /\ requests = 0 /\ draws = 0

-----------------------------------------------------------------------------
(* Handlers, called by CheckIfDue with the rest of the pending interrupts. *)

TimerExpired(rest, now) ==
    /\ \E n \in TimeOfNextInterrupt : pending' = Schedule(rest, now, n, "TimerInt")
    /\ draws' = IF draws < MaxDraws THEN draws + 1 ELSE draws
    /\ yieldOnReturn' = TRUE
    /\ UNCHANGED <<diskVars, threadVars>>

\* Semaphore::V: the first thread of the queue is made ready.
V ==
    /\ semaphore' = semaphore + 1
    /\ IF queue = <<>> THEN UNCHANGED <<queue, readyList>>
       ELSE queue' = Tail(queue) /\ readyList' = Append(readyList, Head(queue))
    /\ UNCHANGED <<currentThread, at>>

\* Mutant: the disk is not marked as free.
RequestDoneStaysActive(rest) ==
    /\ pending' = rest
    /\ V
    /\ UNCHANGED <<diskVars, yieldOnReturn, draws>>

\* Disk::HandleInterrupt and SynchDisk::RequestDone.
RequestDone(rest) ==
    /\ pending' = rest
    /\ active' = FALSE
    /\ V
    /\ UNCHANGED <<lastSector, bufferInit, yieldOnReturn, draws>>

Fire(now) ==
    /\ totalTicks' = now
    /\ CASE Head(pending).type = "TimerInt" -> TimerExpired(Tail(pending), now)
         [] Head(pending).type = "DiskInt" -> RequestDone(Tail(pending))
    /\ UNCHANGED requests

\* CheckIfDue: with only the timer left, an idle machine has nothing to do.
OnlyTimer == Len(pending) = 1 /\ Head(pending).type = "TimerInt"

\* Mutant: an interrupt is due one tick early.
IsDueEarly == pending # <<>> /\ Head(pending).when <= totalTicks + 1

IsDue == pending # <<>> /\ Head(pending).when <= totalTicks

-----------------------------------------------------------------------------
(* Interrupt::OneTick                                                      *)

Rest == <<diskVars, requests, draws>>

\* The running thread enables interrupts.
Compute ==
    /\ doing = "run" /\ totalTicks < MaxTicks
    /\ totalTicks' = totalTicks + SystemTick
    /\ doing' = "tick"
    /\ UNCHANGED <<pending, yieldOnReturn, threadVars, Rest>>

TickFire ==
    /\ doing = "tick" /\ IsDue
    /\ Fire(totalTicks)
    /\ UNCHANGED doing

\* Thread::Yield puts the thread behind the ready ones; alone, it runs again.
TickEnd ==
    /\ doing = "tick" /\ ~IsDue
    /\ yieldOnReturn' = FALSE
    /\ doing' = IF yieldOnReturn THEN "switch" ELSE "run"
    /\ readyList' = IF yieldOnReturn THEN Append(readyList, currentThread) ELSE readyList
    /\ UNCHANGED <<totalTicks, pending, semaphore, queue, currentThread, at, Rest>>

-----------------------------------------------------------------------------
(* Scheduler::FindNextToRun and Run, from Thread::Yield and Thread::Sleep. *)

\* Where a thread resumes, at its start, in Yield or in P, it enables
\* interrupts; in P it takes the semaphore first.
Resume ==
    LET t == Head(readyList)
    IN  /\ doing = "switch" /\ readyList # <<>>
        /\ at[t] = "P" => semaphore # 0
        /\ currentThread' = t /\ readyList' = Tail(readyList)
        /\ semaphore' = IF at[t] = "P" THEN semaphore - 1 ELSE semaphore
        /\ at' = [at EXCEPT ![t] = "run"]
        /\ totalTicks' = totalTicks + SystemTick
        /\ doing' = "tick"
        /\ UNCHANGED <<pending, yieldOnReturn, queue, Rest>>

\* The loop of P: another thread has taken the semaphore before.
SleepAgain ==
    LET t == Head(readyList)
    IN  /\ doing = "switch" /\ readyList # <<>>
        /\ at[t] = "P" /\ semaphore = 0
        /\ currentThread' = t /\ readyList' = Tail(readyList)
        /\ queue' = Append(queue, t)
        /\ UNCHANGED <<clock, doing, semaphore, at, Rest>>

-----------------------------------------------------------------------------
(* Interrupt::Idle: no thread is ready.                                    *)

Idle == doing = "switch" /\ readyList = <<>>

\* Mutant: an idle machine with only the timer left waits for it.
IdleHaltSpins ==
    /\ Idle
    /\ pending = <<>> \/ OnlyTimer
    /\ doing' = IF pending = <<>> THEN "halted" ELSE "switch"
    /\ totalTicks' = IF pending # <<>> /\ ~IsDue THEN Head(pending).when ELSE totalTicks
    /\ UNCHANGED <<pending, yieldOnReturn, threadVars, Rest>>

IdleHalt ==
    /\ Idle
    /\ pending = <<>> \/ OnlyTimer
    /\ doing' = "halted"
    /\ totalTicks' = IF pending # <<>> /\ ~IsDue THEN Head(pending).when ELSE totalTicks
    /\ UNCHANGED <<pending, yieldOnReturn, threadVars, Rest>>

\* The clock is advanced to the first interrupt.
IdleFire ==
    /\ Idle /\ pending # <<>> /\ ~OnlyTimer
    /\ Fire(IF IsDue THEN totalTicks ELSE Head(pending).when)
    /\ doing' = "others"

OthersFire ==
    /\ doing = "others" /\ IsDue /\ ~OnlyTimer
    /\ Fire(totalTicks)
    /\ UNCHANGED doing

\* Idle returns to the loop of Sleep.
OthersEnd ==
    /\ doing = "others" /\ ~(IsDue /\ ~OnlyTimer)
    /\ yieldOnReturn' = FALSE
    /\ doing' = "switch"
    /\ UNCHANGED <<totalTicks, pending, threadVars, Rest>>

-----------------------------------------------------------------------------
(* A thread: SynchDisk::ReadSector and WriteSector, and its end.           *)

DiskRequest(sector, writing) ==
    LET ticks == ComputeLatency(totalTicks, lastSector, bufferInit, sector, writing)
    IN  /\ pending' = Schedule(pending, totalTicks, ticks, "DiskInt")
        /\ active' = TRUE
        /\ bufferInit' = BufferInit(totalTicks, lastSector, bufferInit, sector)
        /\ lastSector' = sector
        /\ requests' = requests + 1

\* lock->Acquire() is empty.  P() takes a semaphore left by the interrupt of
\* another thread's request, and otherwise sleeps.
ReadOrWriteSector(sector, writing) ==
    /\ doing = "run" /\ requests < MaxRequests
    /\ ~active
    /\ DiskRequest(sector, writing)
    /\ IF semaphore > 0
       THEN /\ semaphore' = semaphore - 1
            /\ totalTicks' = totalTicks + SystemTick
            /\ doing' = "tick"
            /\ UNCHANGED <<queue, at>>
       ELSE /\ queue' = Append(queue, currentThread)
            /\ at' = [at EXCEPT ![currentThread] = "P"]
            /\ doing' = "switch"
            /\ UNCHANGED <<semaphore, totalTicks>>
    /\ UNCHANGED <<yieldOnReturn, currentThread, readyList, draws>>

\* ASSERT(!active) of Disk::ReadRequest and WriteRequest fails: Nachos aborts.
AssertFails ==
    /\ doing = "run" /\ requests < MaxRequests
    /\ active
    /\ doing' = "aborted"
    /\ UNCHANGED <<clock, threadVars, Rest>>

\* Thread::Finish.
Finish ==
    /\ doing = "run"
    /\ at' = [at EXCEPT ![currentThread] = "done"]
    /\ doing' = "switch"
    /\ UNCHANGED <<clock, semaphore, queue, currentThread, readyList, Rest>>

\* The machine is off.
StayHalted == doing \in {"halted", "aborted"} /\ UNCHANGED deviceVars

DevicesNext ==
    \/ Compute \/ TickFire \/ TickEnd \/ Resume \/ SleepAgain
    \/ IdleHalt \/ IdleFire \/ OthersFire \/ OthersEnd
    \/ \E sector \in Sectors, writing \in BOOLEAN : ReadOrWriteSector(sector, writing)
    \/ AssertFails \/ Finish \/ StayHalted

\* The simulated machine goes on as long as the host runs it.
DevicesSpec == DevicesInit /\ [][DevicesNext]_deviceVars /\ WF_deviceVars(DevicesNext)

-----------------------------------------------------------------------------
(* Properties                                                              *)

\* A thread runs only when no interrupt is overdue: all that came due while
\* interrupts were off have been delivered, in the order of their times.
NothingOverdue ==
    /\ \A i, j \in DOMAIN pending : i < j => pending[i].when <= pending[j].when
    /\ doing = "run" => \A i \in DOMAIN pending : pending[i].when > totalTicks

\* No interrupt comes before its time, and none more than one enabling of
\* interrupts after it, however many threads are switched in between; in an
\* idle machine each comes on time.
OnTime ==
    /\ []NothingOverdue
    /\ [][/\ TickFire => totalTicks' - Head(pending).when \in 0 .. SystemTick
          /\ IdleFire \/ OthersFire => totalTicks' = Head(pending).when]_deviceVars

\* The threads in P(), asleep or woken and not yet running.
Waiting == {t \in KernelThreads : at[t] = "P"}

\* Requests and answers match, with any number of threads and no lock between
\* them: the disk is active exactly while one interrupt of it is pending, and a
\* thread is in P() exactly while that interrupt, or the V it has done, is there
\* for it.  No answer is lost or given twice, although a thread may take the V
\* of another's request and leave its own behind.
OneRequest ==
    /\ LET ofDisk == {i \in DOMAIN pending : pending[i].type = "DiskInt"}
       IN  IF active THEN \E i \in DOMAIN pending : ofDisk = {i} ELSE ofDisk = {}
    /\ semaphore \in (IF active THEN {0} ELSE {0, 1})
    /\ IF active \/ semaphore = 1 THEN \E t \in KernelThreads : Waiting = {t}
       ELSE Waiting = {}

\* "only one request at a time" (disk.cc:120): no thread asks for a sector
\* while the disk works on one, so ASSERT(!active) does not fail.
OneAtATime == doing # "aborted"

\* A request takes until the sector has passed under the head from end to end,
\* and no sector time longer: after the seek or, for a read of the track the
\* head was on, since the track buffer has been filling.
LatencyExact ==
    [][\A sector \in Sectors, writing \in BOOLEAN : ReadOrWriteSector(sector, writing) =>
        LET seek == abs(Track(sector) - Track(lastSector)) * SeekTime
            arrived == totalTicks + seek
            due == pending'[CHOOSE i \in DOMAIN pending' : pending'[i].type = "DiskInt"].when
        IN  \/ Passes(sector, arrived, due) /\ ~Passes(sector, arrived, due - 1)
            \/ /\ ~writing /\ seek = 0 /\ due = totalTicks + RotationTime
               /\ Passes(sector, bufferInit, due)]_deviceVars

\* A thread that waits for the disk goes on, although the timer may be the next
\* interrupt and other threads overtake it, and with nothing more to do the
\* machine halts, although the timer never stops; unless the assertion fails.
DevicesProgress ==
    /\ \A t \in KernelThreads : at[t] = "P" ~> at[t] # "P" \/ doing = "aborted"
    /\ <>(doing \in {"halted", "aborted"})
=============================================================================
