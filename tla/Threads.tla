------------------------------- MODULE Threads -------------------------------
(***************************************************************************)
(* Kernel threads of code/threads: the ready list and context switch of    *)
(* scheduler.cc, Fork / Yield / Sleep / Finish of thread.cc, the           *)
(* semaphores of synch.cc, and the part of machine/interrupt.cc that       *)
(* decides when another thread or an interrupt handler may run.            *)
(*                                                                         *)
(* Nachos runs on one simulated CPU.  The kernel is only interrupted at    *)
(* Interrupt::OneTick, which SetLevel(IntOn) and every user instruction    *)
(* call, so everything a thread does with interrupts off is one step.      *)
(***************************************************************************)
EXTENDS Naturals, Sequences, FiniteSets

CONSTANTS
    Thread,        \* Thread objects (addresses: reused once deleted)
    Main,          \* the thread Initialize() makes for the running program
    Sem,           \* Semaphore objects
    InitialValue,  \* initialValue of each semaphore
    Device,        \* devices that schedule an interrupt
    DeviceSem,     \* the semaphore a device's handler does V() on
    Polled,        \* devices that rearm themselves (console input, network)
    MaxValue,      \* bound: no thread does V() on a semaphore at this value
    NoThread,      \* NULL as a Thread*
    NoSem          \* not inside Semaphore::P

ASSUME ThreadsAssumption ==
    /\ IsFiniteSet(Thread) /\ Main \in Thread
    /\ InitialValue \in [Sem -> Nat]
    /\ DeviceSem \in [Device -> Sem]
    /\ Polled \subseteq Device
    /\ MaxValue \in Nat
    /\ NoThread \notin Thread
    /\ NoSem \notin Sem

VARIABLES
    current,    \* currentThread
    readyList,  \* Scheduler::readyList
    status,     \* Thread::status; "NONE" when the address holds no Thread
    at,         \* where the thread's saved stack resumes it
    want,       \* the semaphore whose P() the thread is inside
    value,      \* Semaphore::value
    queue,      \* Semaphore::queue
    threadToBeDestroyed,
    pending,    \* devices with an interrupt scheduled
    mode        \* what the CPU is doing

vars == <<current, readyList, status, at, want, value, queue,
          threadToBeDestroyed, pending, mode>>

\* "root": ThreadRoot, never ran; "run": outside the scheduler and P();
\* "P": after the Sleep() in the loop of P(); "finish": in Finish()'s Sleep().
Where == {"none", "root", "run", "P", "finish"}

\* "on": interrupts enabled; "off": a thread woken in P(), about to test the
\* value again; "sleep": the loop of Thread::Sleep; "idle": that loop after
\* Interrupt::Idle fired a handler; "halted": after Interrupt::Halt.
Mode == {"on", "off", "sleep", "idle", "halted"}

Init ==
    /\ current = Main
    /\ readyList = <<>>
    /\ status = [t \in Thread |-> IF t = Main THEN "RUNNING" ELSE "NONE"]
    /\ at = [t \in Thread |-> IF t = Main THEN "run" ELSE "none"]
    /\ want = [t \in Thread |-> NoSem]
    /\ value = InitialValue
    /\ queue = [s \in Sem |-> <<>>]
    /\ threadToBeDestroyed = NoThread
    /\ pending = {}
    /\ mode = "on"

-----------------------------------------------------------------------------
\* Mutant of Run: threadToBeDestroyed is not reset.
RunKeepsCarcass(next, st) ==
    LET carcass == IF at[next] = "root" THEN NoThread ELSE threadToBeDestroyed
    IN  /\ current' = next
        /\ status' = [t \in Thread |-> IF t = carcass THEN "NONE"
                                       ELSE IF t = next THEN "RUNNING" ELSE st[t]]
        /\ at' = [t \in Thread |-> IF t = carcass THEN "none"
                                   ELSE IF t = next /\ at[t] = "root" THEN "run"
                                   ELSE at[t]]
        /\ mode' = IF at[next] = "P" THEN "off" ELSE "on"
        /\ UNCHANGED threadToBeDestroyed

(* Scheduler::Run(next), for a caller that set the other threads' status to *)
(* st.  A thread that has run before returns from SWITCH and deletes the    *)
(* carcass; a new one starts in ThreadRoot, which does not.                 *)
Run(next, st) ==
    LET carcass == IF at[next] = "root" THEN NoThread ELSE threadToBeDestroyed
    IN  /\ current' = next
        /\ status' = [t \in Thread |-> IF t = carcass THEN "NONE"
                                       ELSE IF t = next THEN "RUNNING" ELSE st[t]]
        /\ at' = [t \in Thread |-> IF t = carcass THEN "none"
                                   ELSE IF t = next /\ at[t] = "root" THEN "run"
                                   ELSE at[t]]
        /\ threadToBeDestroyed' = IF at[next] = "root" THEN threadToBeDestroyed
                                                       ELSE NoThread
        /\ mode' = IF at[next] = "P" THEN "off" ELSE "on"

(* The loop of Thread::Sleep found a ready thread. *)
SleepRun ==
    /\ mode \in {"sleep", "idle"}
    /\ readyList # <<>>
    /\ readyList' = Tail(readyList)
    /\ Run(Head(readyList), status)
    /\ UNCHANGED <<want, value, queue, pending>>

\* Mutant of Yield: the thread goes to the front of the ready list.
YieldFirst ==
    /\ mode = "on"
    /\ readyList # <<>>
    /\ readyList' = <<current>> \o Tail(readyList)
    /\ Run(Head(readyList), [status EXCEPT ![current] = "READY"])
    /\ UNCHANGED <<want, value, queue, pending>>

(* Thread::Yield, called by the thread or, when the timer handler set       *)
(* yieldOnReturn, by OneTick.  With nothing ready it changes nothing.       *)
Yield ==
    /\ mode = "on"
    /\ readyList # <<>>
    /\ readyList' = Append(Tail(readyList), current)
    /\ Run(Head(readyList), [status EXCEPT ![current] = "READY"])
    /\ UNCHANGED <<want, value, queue, pending>>

(* new Thread(...) followed by Thread::Fork. *)
Fork(t) ==
    /\ mode = "on"
    /\ status[t] = "NONE"
    /\ status' = [status EXCEPT ![t] = "READY"]
    /\ at' = [at EXCEPT ![t] = "root"]
    /\ readyList' = Append(readyList, t)
    /\ UNCHANGED <<current, want, value, queue, threadToBeDestroyed, pending, mode>>

(* Thread::Finish up to its Sleep(). *)
Finish ==
    /\ mode = "on"
    /\ threadToBeDestroyed' = current
    /\ status' = [status EXCEPT ![current] = "BLOCKED"]
    /\ at' = [at EXCEPT ![current] = "finish"]
    /\ mode' = "sleep"
    /\ UNCHANGED <<current, readyList, want, value, queue, pending>>

-----------------------------------------------------------------------------

(* One round of the while loop of Semaphore::P, from its test to Sleep() or *)
(* to the return.                                                           *)
TestValue(s) ==
    \/ /\ value[s] = 0
       /\ queue' = [queue EXCEPT ![s] = Append(@, current)]
       /\ status' = [status EXCEPT ![current] = "BLOCKED"]
       /\ at' = [at EXCEPT ![current] = "P"]
       /\ want' = [want EXCEPT ![current] = s]
       /\ mode' = "sleep"
       /\ UNCHANGED value
    \/ /\ value[s] # 0
       /\ value' = [value EXCEPT ![s] = @ - 1]
       /\ at' = [at EXCEPT ![current] = "run"]
       /\ want' = [want EXCEPT ![current] = NoSem]
       /\ mode' = "on"
       /\ UNCHANGED <<queue, status>>

(* Semaphore::P called by the running thread. *)
P(s) ==
    /\ mode = "on"
    /\ TestValue(s)
    /\ UNCHANGED <<current, readyList, threadToBeDestroyed, pending>>

(* The thread woken by a V() runs again and repeats the test; another       *)
(* thread may have taken the value since.                                   *)
RetryP ==
    /\ mode = "off"
    /\ TestValue(want[current])
    /\ UNCHANGED <<current, readyList, threadToBeDestroyed, pending>>

\* Mutant of ReleaseValue: V() wakes a sleeper only when the value was 0.
ReleaseValueFromZero(s) ==
    /\ value' = [value EXCEPT ![s] = @ + 1]
    /\ \/ /\ queue[s] = <<>> \/ value[s] > 0
          /\ UNCHANGED <<queue, readyList, status>>
       \/ /\ queue[s] # <<>> /\ value[s] = 0
          /\ queue' = [queue EXCEPT ![s] = Tail(@)]
          /\ readyList' = Append(readyList, Head(queue[s]))
          /\ status' = [status EXCEPT ![Head(queue[s])] = "READY"]

(* What Semaphore::V does to the semaphore and to the scheduler. *)
ReleaseValue(s) ==
    /\ value' = [value EXCEPT ![s] = @ + 1]
    /\ \/ /\ queue[s] = <<>>
          /\ UNCHANGED <<queue, readyList, status>>
       \/ /\ queue[s] # <<>>
          /\ queue' = [queue EXCEPT ![s] = Tail(@)]
          /\ readyList' = Append(readyList, Head(queue[s]))
          /\ status' = [status EXCEPT ![Head(queue[s])] = "READY"]

(* Semaphore::V called by the running thread. *)
V(s) ==
    /\ mode = "on"
    /\ value[s] < MaxValue
    /\ ReleaseValue(s)
    /\ UNCHANGED <<current, at, want, threadToBeDestroyed, pending, mode>>

-----------------------------------------------------------------------------
(* A driver gives the device work, or the constructor of a polled device     *)
(* starts its polling: Interrupt::Schedule.                                  *)
StartDevice(d) ==
    /\ mode = "on"
    /\ d \notin pending
    /\ value[DeviceSem[d]] < MaxValue
    /\ pending' = pending \cup {d}
    /\ UNCHANGED <<current, readyList, status, at, want, value, queue,
                   threadToBeDestroyed, mode>>

(* CheckIfDue invokes the handler of a device, which does V(). *)
Handle(d) ==
    /\ d \in pending
    /\ d \in Polled => value[DeviceSem[d]] < MaxValue
    /\ ReleaseValue(DeviceSem[d])
    /\ pending' = IF d \in Polled THEN pending ELSE pending \ {d}
    /\ UNCHANGED <<current, at, want, threadToBeDestroyed>>

(* An interrupt at OneTick, between two steps of the running thread. *)
Interrupt(d) ==
    /\ mode = "on"
    /\ Handle(d)
    /\ UNCHANGED mode

(* Interrupt::Idle, called by Sleep with nothing ready: the clock advances  *)
(* to the next interrupt, and the others due at that time fire too (not a   *)
(* polled device again: it rearms itself for a later tick).                 *)
Idle(d) ==
    /\ mode \in {"sleep", "idle"}
    /\ readyList = <<>> \/ (mode = "idle" /\ d \notin Polled)
    /\ Handle(d)
    /\ mode' = "idle"

(* Interrupt::Idle with no interrupt pending halts the machine. *)
IdleHalt ==
    /\ mode \in {"sleep", "idle"}
    /\ readyList = <<>>
    /\ pending = {}
    /\ mode' = "halted"
    /\ UNCHANGED <<current, readyList, status, at, want, value, queue,
                   threadToBeDestroyed, pending>>

Next ==
    \/ SleepRun
    \/ Yield
    \/ \E t \in Thread : Fork(t)
    \/ Finish
    \/ \E s \in Sem : P(s)
    \/ RetryP
    \/ \E s \in Sem : V(s)
    \/ \E d \in Device : StartDevice(d)
    \/ \E d \in Device : Interrupt(d)
    \/ \E d \in Device : Idle(d)
    \/ IdleHalt

Spec == Init /\ [][Next]_vars

(* What the scheduler and the devices owe: the loop of Sleep goes on, the   *)
(* switched-to thread continues, the timer of "nachos -rs" eventually makes *)
(* the running thread yield, and a started device completes.                *)
Fairness ==
    /\ WF_vars(SleepRun)
    /\ WF_vars(RetryP)
    /\ WF_vars(Yield)
    /\ \A d \in Device \ Polled : WF_vars(Interrupt(d) \/ Idle(d))

FairSpec == Spec /\ Fairness

-----------------------------------------------------------------------------
OnList(t, list) == \E i \in 1..Len(list) : list[i] = t

\* Every variable has the type of the field it models.
TypeOK ==
    /\ current \in Thread
    /\ readyList \in Seq(Thread)
    /\ status \in [Thread -> {"NONE", "RUNNING", "READY", "BLOCKED"}]
    /\ at \in [Thread -> Where]
    /\ want \in [Thread -> Sem \cup {NoSem}]
    /\ value \in [Sem -> Nat]
    /\ queue \in [Sem -> Seq(Thread)]
    /\ threadToBeDestroyed \in Thread \cup {NoThread}
    /\ pending \subseteq Device
    /\ mode \in Mode

NoDuplicates(list) ==
    \A i, j \in 1..Len(list) : list[i] = list[j] => i = j

\* Scheduler::readyList holds exactly the READY threads, each once, so no
\* V(), Fork() or Yield() enters a thread twice or loses one.
ReadyListExact ==
    /\ NoDuplicates(readyList)
    /\ \A t \in Thread : OnList(t, readyList) <=> status[t] = "READY"

\* A semaphore's queue holds exactly the threads blocked in its P(), each once:
\* a sleeper can be reached by a later V(), and by no other semaphore's.
QueuesExact ==
    \A s \in Sem :
        /\ NoDuplicates(queue[s])
        /\ \A t \in Thread :
              OnList(t, queue[s]) <=>
                  status[t] = "BLOCKED" /\ at[t] = "P" /\ want[t] = s

\* The CPU belongs to one thread: while it executes, currentThread alone is
\* RUNNING; inside the loop of Sleep nobody is, and currentThread may even be
\* on the ready list, woken by a handler before it was switched out.
OneRunning ==
    \A t \in Thread :
        status[t] = "RUNNING" <=> t = current /\ mode \in {"on", "off"}

\* The stack a thread resumes on agrees with its state: a deleted Thread is
\* neither scheduled nor queued, and a finished one never runs again.
StacksAgree ==
    /\ \A t \in Thread :
          /\ at[t] = "none" <=> status[t] = "NONE"
          /\ at[t] = "finish" => status[t] = "BLOCKED"
          /\ status[t] = "BLOCKED" => at[t] \in {"P", "finish"}
          /\ at[t] = "P" <=> want[t] # NoSem
    /\ status[current] # "NONE"
    /\ mode = "on" => at[current] = "run"
    /\ mode = "off" => at[current] = "P"
    /\ threadToBeDestroyed # NoThread => at[threadToBeDestroyed] = "finish"

\* Every thread is exactly where its status says, on one list, one queue or the
\* CPU, whatever interrupts, Yields, V()s and Finishes came in between.
ThreadsInPlace == ReadyListExact /\ QueuesExact /\ OneRunning /\ StacksAgree

\* Threads a V() took off the queue of s that have not yet tested the value.
Woken(s) == {t \in Thread : want[t] = s /\ status[t] # "BLOCKED"}

\* No lost wakeup in P()/V(): as long as some thread sleeps in P(s), every unit
\* of the value is matched by a thread on its way to take it.
NoLostWakeup ==
    \A s \in Sem : queue[s] # <<>> => value[s] <= Cardinality(Woken(s))

Contract == INSTANCE SemContract

\* P() and V(), sleeping, barging and repeated tests included, implement the
\* one-step semaphore of synch.h:27-29.
ImplementsContract == Contract!Spec

\* ... and under fair scheduling a unit never rests beside a sleeping thread.
ImplementsFairContract == Contract!FairSpec

\* FIFO scheduling with the timer on: a ready thread gets the CPU.
ReadyRuns ==
    \A t \in Thread : status[t] = "READY" ~> status[t] = "RUNNING"
=============================================================================
