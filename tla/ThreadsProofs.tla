---------------------------- MODULE ThreadsProofs ----------------------------
(* Proofs about Threads, for every number of threads, semaphores, devices.  *)
EXTENDS Threads, FiniteSetTheorems, TLAPS

-----------------------------------------------------------------------------
(* List::Append and List::Remove, as Append, Head and Tail. *)

\* Appending adds exactly the new thread.
LEMMA AppendOnList ==
    ASSUME NEW list \in Seq(Thread), NEW x \in Thread
    PROVE  /\ Append(list, x) \in Seq(Thread)
           /\ \A t : OnList(t, Append(list, x)) <=> OnList(t, list) \/ t = x
<1>1. /\ Append(list, x) \in Seq(Thread)
      /\ Len(Append(list, x)) = Len(list) + 1
      /\ \A i \in 1..Len(list) : Append(list, x)[i] = list[i]
      /\ Append(list, x)[Len(list) + 1] = x
      /\ Len(list) \in Nat
  OBVIOUS
<1>2. ASSUME NEW t PROVE OnList(t, Append(list, x)) <=> OnList(t, list) \/ t = x
  BY <1>1 DEF OnList
<1> QED BY <1>1, <1>2

\* Appending a thread that is not on the list keeps the list free of duplicates.
LEMMA AppendNoDuplicates ==
    ASSUME NEW list \in Seq(Thread), NEW x \in Thread,
           NoDuplicates(list), ~OnList(x, list)
    PROVE  NoDuplicates(Append(list, x))
<1>1. /\ Len(Append(list, x)) = Len(list) + 1
      /\ \A i \in 1..Len(list) : Append(list, x)[i] = list[i]
      /\ Append(list, x)[Len(list) + 1] = x
      /\ Len(list) \in Nat
  OBVIOUS
<1> QED BY <1>1 DEF OnList, NoDuplicates

\* Removing the head removes that thread and no other.
LEMMA RemoveOnList ==
    ASSUME NEW list \in Seq(Thread), list # <<>>, NoDuplicates(list)
    PROVE  /\ Head(list) \in Thread
           /\ OnList(Head(list), list)
           /\ Tail(list) \in Seq(Thread)
           /\ NoDuplicates(Tail(list))
           /\ \A t : OnList(t, Tail(list)) <=> OnList(t, list) /\ t # Head(list)
<1>1. /\ Head(list) = list[1]
      /\ Head(list) \in Thread
      /\ Len(list) \in Nat \ {0}
      /\ Tail(list) \in Seq(Thread)
      /\ Len(Tail(list)) = Len(list) - 1
      /\ \A i \in 1..Len(list) - 1 : Tail(list)[i] = list[i + 1]
  OBVIOUS
<1>2. OnList(Head(list), list)
  BY <1>1 DEF OnList
<1>3. NoDuplicates(Tail(list))
  <2> SUFFICES ASSUME NEW i \in 1..Len(Tail(list)), NEW j \in 1..Len(Tail(list)),
                      Tail(list)[i] = Tail(list)[j]
               PROVE  i = j
    BY DEF NoDuplicates
  <2>1. list[i + 1] = list[j + 1] /\ i + 1 \in 1..Len(list) /\ j + 1 \in 1..Len(list)
    BY <1>1
  <2>2. i + 1 = j + 1
    BY <2>1 DEF NoDuplicates
  <2> QED BY <2>2
<1>4. ASSUME NEW t PROVE OnList(t, Tail(list)) <=> OnList(t, list) /\ t # Head(list)
  <2>1. ASSUME OnList(t, Tail(list)) PROVE OnList(t, list) /\ t # Head(list)
    <3>1. PICK i \in 1..Len(list) - 1 : Tail(list)[i] = t
      BY <1>1, <2>1 DEF OnList
    <3>2. list[i + 1] = t /\ i + 1 \in 1..Len(list) /\ i + 1 # 1 /\ 1 \in 1..Len(list)
      BY <1>1, <3>1
    <3> QED BY <1>1, <3>2 DEF OnList, NoDuplicates
  <2>2. ASSUME OnList(t, list), t # Head(list) PROVE OnList(t, Tail(list))
    <3>1. PICK i \in 1..Len(list) : list[i] = t
      BY <2>2 DEF OnList
    <3>2. i - 1 \in 1..Len(list) - 1 /\ (i - 1) + 1 = i
      BY <1>1, <2>2, <3>1
    <3>3. Tail(list)[i - 1] = t
      BY <1>1, <3>1, <3>2
    <3> QED BY <1>1, <3>2, <3>3 DEF OnList
  <2> QED BY <2>1, <2>2
<1> QED BY <1>1, <1>2, <1>3, <1>4

\* Nothing is on the empty list.
LEMMA EmptyList == NoDuplicates(<<>>) /\ \A t : ~OnList(t, <<>>)
BY DEF OnList, NoDuplicates

-----------------------------------------------------------------------------
(* The inductive invariant: lists, statuses and saved stacks agree.  None of *)
(* its conjuncts is inductive alone: that V() may put a sleeper on the ready *)
(* list rests on the sleeper being BLOCKED, hence on no list but the queue.  *)
Inv ==
    /\ TypeOK
    /\ ReadyListExact
    /\ QueuesExact
    /\ OneRunning
    /\ StacksAgree

\* What Initialize sets up satisfies the invariant.
LEMMA InitInv == Init => Inv
<1> SUFFICES ASSUME Init PROVE Inv
  OBVIOUS
<1> USE ThreadsAssumption DEF Init
<1>1. TypeOK
  BY DEF TypeOK, Where, Mode
<1>2. ReadyListExact
  BY EmptyList DEF ReadyListExact
<1>3. QueuesExact
  BY EmptyList DEF QueuesExact
<1>4. OneRunning /\ StacksAgree
  BY DEF OneRunning, StacksAgree
<1> QED BY <1>1, <1>2, <1>3, <1>4 DEF Inv

\* The thread Scheduler::FindNextToRun takes off the ready list.
LEMMA NextReady ==
    ASSUME Inv, readyList # <<>>
    PROVE  /\ Head(readyList) \in Thread
           /\ status[Head(readyList)] = "READY"
           /\ at[Head(readyList)] \in {"root", "run", "P"}
           /\ Tail(readyList) \in Seq(Thread)
           /\ NoDuplicates(Tail(readyList))
           /\ \A t \in Thread : OnList(t, Tail(readyList)) <=>
                     status[t] = "READY" /\ t # Head(readyList)
<1>1. readyList \in Seq(Thread) /\ NoDuplicates(readyList)
  BY DEF Inv, TypeOK, ReadyListExact
<1>2. status[Head(readyList)] = "READY"
  BY <1>1, RemoveOnList DEF Inv, ReadyListExact
<1> QED BY <1>1, <1>2, RemoveOnList DEF Inv, ReadyListExact, StacksAgree, TypeOK, Where

\* The end of Thread::Sleep: the first ready thread gets the CPU.
LEMMA SleepRunInv == Inv /\ SleepRun => Inv'
<1> SUFFICES ASSUME Inv, SleepRun PROVE Inv'
  OBVIOUS
<1> DEFINE n == Head(readyList)
<1>0. readyList # <<>>
  BY DEF SleepRun
<1>1. /\ n \in Thread
      /\ status[n] = "READY"
      /\ at[n] \in {"root", "run", "P"}
      /\ Tail(readyList) \in Seq(Thread)
      /\ NoDuplicates(Tail(readyList))
      /\ \A t \in Thread : OnList(t, Tail(readyList)) <=> status[t] = "READY" /\ t # n
  BY <1>0, NextReady
<1> HIDE DEF n
<1>2. Run(n, status) /\ readyList' = Tail(readyList) /\ mode \in {"sleep", "idle"}
      /\ UNCHANGED <<want, value, queue, pending>>
  BY DEF SleepRun, n
<1>3. TypeOK'
  BY <1>1, <1>2, ThreadsAssumption DEF Inv, TypeOK, Run, Where, Mode
<1>4. ReadyListExact'
  BY <1>1, <1>2, ThreadsAssumption DEF Inv, TypeOK, StacksAgree, ReadyListExact, Run
<1>5. QueuesExact'
  BY <1>1, <1>2, ThreadsAssumption DEF Inv, TypeOK, StacksAgree, QueuesExact, Run
<1>6. OneRunning'
  BY <1>1, <1>2, ThreadsAssumption DEF Inv, TypeOK, StacksAgree, OneRunning, Run
<1>7. StacksAgree'
  BY <1>1, <1>2, ThreadsAssumption DEF Inv, TypeOK, StacksAgree, OneRunning, Run
<1> QED BY <1>3, <1>4, <1>5, <1>6, <1>7 DEF Inv

\* Thread::Yield: the running thread goes to the end of the ready list.
LEMMA YieldInv == Inv /\ Yield => Inv'
<1> SUFFICES ASSUME Inv, Yield PROVE Inv'
  OBVIOUS
<1> DEFINE n == Head(readyList)
           st == [status EXCEPT ![current] = "READY"]
<1>0. readyList # <<>> /\ mode = "on"
  BY DEF Yield
<1>1. /\ n \in Thread
      /\ status[n] = "READY"
      /\ at[n] \in {"root", "run", "P"}
      /\ Tail(readyList) \in Seq(Thread)
      /\ NoDuplicates(Tail(readyList))
      /\ \A t \in Thread : OnList(t, Tail(readyList)) <=> status[t] = "READY" /\ t # n
  BY <1>0, NextReady
<1>2. current \in Thread /\ status[current] = "RUNNING" /\ at[current] = "run"
  BY <1>0 DEF Inv, TypeOK, OneRunning, StacksAgree
<1>3. /\ readyList' \in Seq(Thread)
      /\ NoDuplicates(readyList')
      /\ \A t \in Thread : OnList(t, readyList') <=>
                 (status[t] = "READY" /\ t # n) \/ t = current
  <2>1. ~OnList(current, Tail(readyList))
    BY <1>1, <1>2
  <2>2. readyList' = Append(Tail(readyList), current)
    BY DEF Yield
  <2> QED BY <1>1, <1>2, <2>1, <2>2, AppendOnList, AppendNoDuplicates, Zenon
<1>4. Run(n, st) /\ UNCHANGED <<want, value, queue, pending>>
  BY DEF Yield
<1> HIDE DEF n
<1>5. TypeOK'
  BY <1>1, <1>2, <1>3, <1>4, ThreadsAssumption DEF Inv, TypeOK, Run, Where, Mode
<1>6. ReadyListExact'
  BY <1>0, <1>1, <1>2, <1>3, <1>4, ThreadsAssumption
     DEF Inv, TypeOK, StacksAgree, ReadyListExact, Run
<1>7. QueuesExact'
  BY <1>0, <1>1, <1>2, <1>4, ThreadsAssumption
     DEF Inv, TypeOK, StacksAgree, QueuesExact, Run
<1>8. OneRunning'
  BY <1>0, <1>1, <1>2, <1>4, ThreadsAssumption
     DEF Inv, TypeOK, StacksAgree, OneRunning, Run
<1>9. StacksAgree'
  BY <1>0, <1>1, <1>2, <1>4, ThreadsAssumption
     DEF Inv, TypeOK, StacksAgree, OneRunning, Run
<1> QED BY <1>5, <1>6, <1>7, <1>8, <1>9 DEF Inv

\* Thread::Fork puts a new thread on the ready list.
LEMMA ForkInv == ASSUME NEW u \in Thread, Inv, Fork(u) PROVE Inv'
<1>1. readyList \in Seq(Thread) /\ NoDuplicates(readyList) /\ ~OnList(u, readyList)
  BY DEF Inv, TypeOK, ReadyListExact, Fork
<1>2. /\ readyList' \in Seq(Thread)
      /\ NoDuplicates(readyList')
      /\ \A t \in Thread : OnList(t, readyList') <=> OnList(t, readyList) \/ t = u
  BY <1>1, AppendOnList, AppendNoDuplicates DEF Fork
<1>3. TypeOK'
  BY <1>2 DEF Inv, TypeOK, Fork, Where
<1>4. ReadyListExact'
  BY <1>2 DEF Inv, TypeOK, ReadyListExact, Fork
<1>5. QueuesExact' /\ OneRunning' /\ StacksAgree'
  BY DEF Inv, TypeOK, QueuesExact, OneRunning, StacksAgree, Fork
<1> QED BY <1>3, <1>4, <1>5 DEF Inv

\* Thread::Finish leaves the running thread to be deleted.
LEMMA FinishInv == Inv /\ Finish => Inv'
<1> SUFFICES ASSUME Inv, Finish PROVE Inv'
  OBVIOUS
<1>1. TypeOK' /\ ReadyListExact'
  BY DEF Inv, TypeOK, ReadyListExact, OneRunning, Finish, Where, Mode
<1>2. QueuesExact' /\ OneRunning' /\ StacksAgree'
  BY DEF Inv, TypeOK, QueuesExact, OneRunning, StacksAgree, Finish
<1> QED BY <1>1, <1>2 DEF Inv

\* P() and the repeated test: the thread goes to the end of one queue, or on.
LEMMA TestValueInv ==
    ASSUME NEW s \in Sem, Inv, TestValue(s),
           \/ mode = "on"
           \/ mode = "off" /\ want[current] = s,
           UNCHANGED <<current, readyList, threadToBeDestroyed, pending>>
    PROVE  Inv'
<1>1. /\ current \in Thread
      /\ status[current] = "RUNNING"
      /\ at[current] \in {"run", "P"}
  BY DEF Inv, TypeOK, OneRunning, StacksAgree
<1>2. CASE value[s] = 0
  <2>1. /\ queue' = [queue EXCEPT ![s] = Append(queue[s], current)]
        /\ status' = [status EXCEPT ![current] = "BLOCKED"]
        /\ at' = [at EXCEPT ![current] = "P"]
        /\ want' = [want EXCEPT ![current] = s]
        /\ mode' = "sleep"
        /\ UNCHANGED value
    BY <1>2 DEF TestValue
  <2>2. queue[s] \in Seq(Thread) /\ NoDuplicates(queue[s]) /\ ~OnList(current, queue[s])
    BY <1>1 DEF Inv, TypeOK, QueuesExact
  <2>3. /\ queue'[s] \in Seq(Thread)
        /\ NoDuplicates(queue'[s])
        /\ \A t \in Thread : OnList(t, queue'[s]) <=> OnList(t, queue[s]) \/ t = current
    <3>1. queue'[s] = Append(queue[s], current)
      BY <2>1 DEF Inv, TypeOK
    <3> QED BY <1>1, <2>2, <3>1, AppendOnList, AppendNoDuplicates
  <2>4. TypeOK'
    BY <1>1, <2>1, <2>3 DEF Inv, TypeOK, Where, Mode
  <2>5. ReadyListExact'
    BY <1>1, <2>1 DEF Inv, TypeOK, ReadyListExact
  <2>6. QueuesExact'
    <3> SUFFICES ASSUME NEW r \in Sem
                 PROVE  /\ NoDuplicates(queue'[r])
                        /\ \A t \in Thread :
                             OnList(t, queue'[r]) <=>
                               status'[t] = "BLOCKED" /\ at'[t] = "P" /\ want'[t] = r
      BY DEF QueuesExact
    <3>1. CASE r = s
      BY <1>1, <2>1, <2>3, <3>1 DEF Inv, TypeOK, QueuesExact
    <3>2. CASE r # s
      BY <1>1, <2>1, <3>2 DEF Inv, TypeOK, QueuesExact
    <3> QED BY <3>1, <3>2
  <2>7. OneRunning' /\ StacksAgree'
    BY <1>1, <2>1, ThreadsAssumption DEF Inv, TypeOK, OneRunning, StacksAgree
  <2> QED BY <2>4, <2>5, <2>6, <2>7 DEF Inv
<1>3. CASE value[s] # 0
  <2>1. /\ value' = [value EXCEPT ![s] = @ - 1]
        /\ at' = [at EXCEPT ![current] = "run"]
        /\ want' = [want EXCEPT ![current] = NoSem]
        /\ mode' = "on"
        /\ UNCHANGED <<queue, status>>
    BY <1>3 DEF TestValue
  <2>2. TypeOK' /\ ReadyListExact'
    BY <1>1, <1>3, <2>1 DEF Inv, TypeOK, ReadyListExact, Where, Mode
  <2>3. QueuesExact'
    BY <1>1, <2>1 DEF Inv, TypeOK, QueuesExact
  <2>4. OneRunning' /\ StacksAgree'
    BY <1>1, <2>1 DEF Inv, TypeOK, OneRunning, StacksAgree
  <2> QED BY <2>2, <2>3, <2>4 DEF Inv
<1> QED BY <1>2, <1>3

\* V(), from a thread or from an interrupt handler: the first sleeper, if any,
\* moves from the queue to the ready list.
LEMMA ReleaseValueInv ==
    ASSUME NEW s \in Sem, Inv, ReleaseValue(s),
           UNCHANGED <<current, at, want, threadToBeDestroyed>>,
           \/ mode' = mode
           \/ mode \in {"sleep", "idle"} /\ mode' = "idle",
           pending' \subseteq Device
    PROVE  Inv'
<1>1. CASE queue[s] = <<>>
  <2>1. value' = [value EXCEPT ![s] = @ + 1] /\ UNCHANGED <<queue, readyList, status>>
    BY <1>1 DEF ReleaseValue
  <2>2. TypeOK'
    BY <2>1 DEF Inv, TypeOK, Mode
  <2>3. ReadyListExact' /\ QueuesExact'
    BY <2>1 DEF Inv, ReadyListExact, QueuesExact
  <2>4. OneRunning' /\ StacksAgree'
    BY <2>1 DEF Inv, OneRunning, StacksAgree
  <2> QED BY <2>2, <2>3, <2>4 DEF Inv
<1>2. CASE queue[s] # <<>>
  <2> DEFINE w == Head(queue[s])
  <2>1. /\ value' = [value EXCEPT ![s] = @ + 1]
        /\ queue' = [queue EXCEPT ![s] = Tail(queue[s])]
        /\ readyList' = Append(readyList, w)
        /\ status' = [status EXCEPT ![w] = "READY"]
    BY <1>2 DEF ReleaseValue
  <2>2. queue[s] \in Seq(Thread) /\ NoDuplicates(queue[s])
    BY DEF Inv, TypeOK, QueuesExact
  <2>3. /\ w \in Thread
        /\ OnList(w, queue[s])
        /\ Tail(queue[s]) \in Seq(Thread)
        /\ NoDuplicates(Tail(queue[s]))
        /\ \A t : OnList(t, Tail(queue[s])) <=> OnList(t, queue[s]) /\ t # w
    BY <1>2, <2>2, RemoveOnList
  <2> HIDE DEF w
  <2>4. status[w] = "BLOCKED" /\ at[w] = "P" /\ want[w] = s
    BY <2>3 DEF Inv, QueuesExact
  <2>5. /\ readyList' \in Seq(Thread)
        /\ NoDuplicates(readyList')
        /\ \A t \in Thread : OnList(t, readyList') <=> OnList(t, readyList) \/ t = w
    <3>1. readyList \in Seq(Thread) /\ NoDuplicates(readyList) /\ ~OnList(w, readyList)
      BY <2>3, <2>4 DEF Inv, TypeOK, ReadyListExact
    <3> QED BY <2>1, <2>3, <3>1, AppendOnList, AppendNoDuplicates
  <2>6. TypeOK'
    BY <2>1, <2>3, <2>5 DEF Inv, TypeOK, Mode
  <2>7. ReadyListExact'
    BY <2>1, <2>3, <2>5 DEF Inv, TypeOK, ReadyListExact
  <2>8. QueuesExact'
    <3> SUFFICES ASSUME NEW r \in Sem
                 PROVE  /\ NoDuplicates(queue'[r])
                        /\ \A t \in Thread :
                             OnList(t, queue'[r]) <=>
                               status'[t] = "BLOCKED" /\ at[t] = "P" /\ want[t] = r
      BY DEF QueuesExact
    <3>1. CASE r = s
      BY <2>1, <2>3, <3>1 DEF Inv, TypeOK, QueuesExact
    <3>2. CASE r # s
      BY <2>1, <2>3, <2>4, <3>2 DEF Inv, TypeOK, QueuesExact
    <3> QED BY <3>1, <3>2
  <2>9. OneRunning' /\ StacksAgree'
    BY <2>1, <2>3, <2>4 DEF Inv, TypeOK, OneRunning, StacksAgree
  <2> QED BY <2>6, <2>7, <2>8, <2>9 DEF Inv
<1> QED BY <1>1, <1>2

\* Every step of the kernel keeps the invariant.
LEMMA NextInv == Inv /\ [Next]_vars => Inv'
<1> SUFFICES ASSUME Inv, [Next]_vars PROVE Inv'
  OBVIOUS
<1>1. CASE SleepRun  BY <1>1, SleepRunInv
<1>2. CASE Yield  BY <1>2, YieldInv
<1>3. ASSUME NEW t \in Thread, Fork(t) PROVE Inv'  BY <1>3, ForkInv
<1>4. CASE Finish  BY <1>4, FinishInv
<1>5. ASSUME NEW s \in Sem, P(s) PROVE Inv'
  BY <1>5, TestValueInv DEF P
<1>6. CASE RetryP
  <2>1. want[current] \in Sem
    BY <1>6 DEF Inv, TypeOK, StacksAgree, RetryP
  <2> QED BY <1>6, <2>1, TestValueInv DEF RetryP
<1>7. ASSUME NEW s \in Sem, V(s) PROVE Inv'
  BY <1>7, ReleaseValueInv, Zenon DEF V, Inv, TypeOK
<1>8. ASSUME NEW d \in Device, StartDevice(d) PROVE Inv'
  BY <1>8 DEF Inv, TypeOK, ReadyListExact, QueuesExact, OneRunning, StacksAgree, StartDevice
<1>9. ASSUME NEW d \in Device, Interrupt(d) \/ Idle(d) PROVE Inv'
  <2>1. DeviceSem[d] \in Sem
    BY ThreadsAssumption
  <2>2. Handle(d) /\ pending' \subseteq Device
    BY <1>9 DEF Interrupt, Idle, Handle, Inv, TypeOK
  <2> QED BY <1>9, <2>1, <2>2, ReleaseValueInv DEF Interrupt, Idle, Handle
<1>10. CASE IdleHalt
  BY <1>10 DEF Inv, TypeOK, ReadyListExact, QueuesExact, OneRunning, StacksAgree, IdleHalt, Mode
<1>11. CASE UNCHANGED vars
  BY <1>11 DEF Inv, TypeOK, ReadyListExact, QueuesExact, OneRunning, StacksAgree, vars
<1> QED
  BY <1>1, <1>2, <1>3, <1>4, <1>5, <1>6, <1>7, <1>8, <1>9, <1>10, <1>11 DEF Next

\* The invariant holds in every behaviour of the kernel.
LEMMA InvHolds == Spec => []Inv
<1> QED BY InitInv, NextInv, PTL DEF Spec

\* Type correctness of the kernel's thread structures.
THEOREM TypeCorrect == Spec => []TypeOK
<1>1. Inv => TypeOK
  BY DEF Inv
<1> QED BY <1>1, InvHolds, PTL

\* Every thread is exactly where its status says: the READY ones on the ready
\* list, once; the ones asleep in P() on the queue of that semaphore and no
\* other; the current one, alone, RUNNING; deleted ones nowhere; whatever the
\* interleaving of Fork, Yield, Finish, P(), V() and interrupt handlers.
THEOREM ThreadsInPlaceHolds == Spec => []ThreadsInPlace
<1>1. Inv => ThreadsInPlace
  BY DEF Inv, ThreadsInPlace
<1> QED BY <1>1, InvHolds, PTL

-----------------------------------------------------------------------------
(* No lost wakeup. *)

\* Context switches, Fork and Finish wake nobody and let nobody take a unit.
LEMMA SameWoken ==
    ASSUME Inv, SleepRun \/ Yield \/ Finish \/ \E u \in Thread : Fork(u),
           NEW s \in Sem
    PROVE  Woken(s)' = Woken(s) /\ value'[s] = value[s] /\ queue'[s] = queue[s]
<1>1. CASE SleepRun
  <2>1. readyList # <<>>
    BY <1>1 DEF SleepRun
  <2> QED BY <1>1, <2>1, NextReady, ThreadsAssumption
          DEF SleepRun, Run, Woken, Inv, TypeOK, StacksAgree
<1>2. CASE Yield
  <2>1. readyList # <<>>
    BY <1>2 DEF Yield
  <2> QED BY <1>2, <2>1, NextReady, ThreadsAssumption
          DEF Yield, Run, Woken, Inv, TypeOK, StacksAgree
<1>3. CASE Finish
  BY <1>3, ThreadsAssumption, Zenon DEF Finish, Woken, Inv, TypeOK, StacksAgree
<1>4. CASE \E u \in Thread : Fork(u)
  BY <1>4, ThreadsAssumption DEF Fork, Woken, Inv, TypeOK, StacksAgree
<1> QED BY <1>1, <1>2, <1>3, <1>4

\* The threads that V() woke can be counted, as there are finitely many.
LEMMA WokenFinite ==
    ASSUME NEW s
    PROVE  IsFiniteSet(Woken(s)) /\ Cardinality(Woken(s)) \in Nat
<1>1. Woken(s) \in SUBSET Thread
  BY DEF Woken
<1> QED BY <1>1, FS_Subset, FS_CardinalityType, ThreadsAssumption

\* A P() that takes a unit or goes to sleep loses no wakeup.
LEMMA TestValueWakeup ==
    ASSUME NEW s \in Sem, Inv, NoLostWakeup, TestValue(s),
           \/ mode = "on"
           \/ mode = "off" /\ want[current] = s
    PROVE  NoLostWakeup'
<1> SUFFICES ASSUME NEW r \in Sem, queue'[r] # <<>>
             PROVE  value'[r] <= Cardinality(Woken(r)')
  BY DEF NoLostWakeup
<1>0. /\ current \in Thread
      /\ status[current] = "RUNNING"
      /\ want[current] \in {NoSem, s}
  BY DEF Inv, TypeOK, OneRunning, StacksAgree
<1>1. CASE value[s] = 0
  <2>1. CASE r = s
    <3>1. value'[r] = 0
      BY <1>1, <2>1 DEF TestValue
    <3>2. Woken(r)' \in SUBSET Thread
      BY DEF Woken
    <3>3. Cardinality(Woken(r)') \in Nat
      BY <3>2, FS_Subset, FS_CardinalityType, ThreadsAssumption
    <3> QED BY <3>1, <3>3
  <2>2. CASE r # s
    <3>1. value'[r] = value[r] /\ queue'[r] = queue[r]
      BY <1>1, <2>2 DEF TestValue, Inv, TypeOK
    <3>2. Woken(r)' = Woken(r)
      BY <1>0, <1>1, <2>2, ThreadsAssumption DEF TestValue, Woken, Inv, TypeOK
    <3> QED BY <3>1, <3>2 DEF NoLostWakeup
  <2> QED BY <2>1, <2>2
<1>2. CASE value[s] # 0
  <2>1. queue'[r] = queue[r] /\ Woken(r)' = Woken(r) \ {current}
    BY <1>0, <1>2, ThreadsAssumption DEF TestValue, Woken, Inv, TypeOK
  <2>2. value[r] <= Cardinality(Woken(r))
    BY <2>1 DEF NoLostWakeup
  <2>3. CASE r = s
    <3>1. value'[r] = value[r] - 1 /\ value[r] \in Nat
      BY <1>2, <2>3 DEF TestValue, Inv, TypeOK
    <3>2. /\ Cardinality(Woken(r)) \in Nat
          /\ Cardinality(Woken(r) \ {current}) \in
                 {Cardinality(Woken(r)), Cardinality(Woken(r)) - 1}
      BY WokenFinite, FS_RemoveElement, Zenon
    <3> QED BY <2>1, <2>2, <3>1, <3>2
  <2>4. CASE r # s
    <3>1. value'[r] = value[r]
      BY <1>2, <2>4 DEF TestValue, Inv, TypeOK
    <3>2. current \notin Woken(r)
      BY <1>0, <2>4, ThreadsAssumption DEF Woken
    <3> QED BY <2>1, <2>2, <3>1, <3>2, Zenon
  <2> QED BY <2>3, <2>4
<1> QED BY <1>1, <1>2

\* A V() makes one unit and, if a thread sleeps, wakes one.
LEMMA ReleaseValueWakeup ==
    ASSUME NEW s \in Sem, Inv, NoLostWakeup, ReleaseValue(s),
           UNCHANGED <<at, want>>
    PROVE  NoLostWakeup'
<1> SUFFICES ASSUME NEW r \in Sem, queue'[r] # <<>>
             PROVE  value'[r] <= Cardinality(Woken(r)')
  BY DEF NoLostWakeup
<1>1. CASE queue[s] = <<>>
  <2>1. UNCHANGED <<queue, status>> /\ r # s /\ value'[r] = value[r]
    BY <1>1 DEF ReleaseValue, Inv, TypeOK
  <2>2. Woken(r)' = Woken(r)
    BY <2>1 DEF Woken
  <2> QED BY <2>1, <2>2 DEF NoLostWakeup
<1>2. CASE queue[s] # <<>>
  <2> DEFINE w == Head(queue[s])
  <2>1. queue[s] \in Seq(Thread) /\ NoDuplicates(queue[s])
    BY DEF Inv, TypeOK, QueuesExact
  <2>2. w \in Thread /\ OnList(w, queue[s])
    BY <1>2, <2>1, RemoveOnList
  <2>3. status' = [status EXCEPT ![w] = "READY"]
    BY <1>2 DEF ReleaseValue
  <2> HIDE DEF w
  <2>4. status[w] = "BLOCKED" /\ want[w] = s
    BY <2>2 DEF Inv, QueuesExact
  <2>5. CASE r = s
    <3>1. Woken(r)' = Woken(r) \cup {w} /\ w \notin Woken(r)
      BY <2>2, <2>3, <2>4, <2>5 DEF Woken, Inv, TypeOK
    <3>2. value'[r] = value[r] + 1 /\ value[r] \in Nat
      BY <2>5 DEF ReleaseValue, Inv, TypeOK
    <3>3. value[r] <= Cardinality(Woken(r))
      BY <1>2, <2>5 DEF NoLostWakeup
    <3>4. /\ Cardinality(Woken(r)) \in Nat
          /\ Cardinality(Woken(r) \cup {w}) = Cardinality(Woken(r)) + 1
      BY <3>1, WokenFinite, FS_AddElement, Zenon
    <3> QED BY <3>1, <3>2, <3>3, <3>4
  <2>6. CASE r # s
    <3>1. Woken(r)' = Woken(r)
      BY <2>2, <2>3, <2>4, <2>6 DEF Woken, Inv, TypeOK
    <3>2. value'[r] = value[r] /\ queue'[r] = queue[r]
      BY <1>2, <2>6 DEF ReleaseValue, Inv, TypeOK
    <3> QED BY <3>1, <3>2 DEF NoLostWakeup
  <2> QED BY <2>5, <2>6
<1> QED BY <1>1, <1>2

\* P() and V() lose no wakeup: beside a sleeping thread there are never more
\* units than threads already woken to take them.
THEOREM WakeupsCorrect == Spec => []NoLostWakeup
<1>1. Init => NoLostWakeup
  BY DEF Init, NoLostWakeup
<1>2. Inv /\ NoLostWakeup /\ [Next]_vars => NoLostWakeup'
  <2> SUFFICES ASSUME Inv, NoLostWakeup, [Next]_vars PROVE NoLostWakeup'
    OBVIOUS
  <2>1. CASE SleepRun \/ Yield \/ Finish \/ \E t \in Thread : Fork(t)
    BY <2>1, SameWoken DEF NoLostWakeup
  <2>2. ASSUME NEW s \in Sem, P(s) PROVE NoLostWakeup'
    BY <2>2, TestValueWakeup DEF P
  <2>3. CASE RetryP
    <3>1. want[current] \in Sem
      BY <2>3 DEF Inv, TypeOK, StacksAgree, RetryP
    <3> QED BY <2>3, <3>1, TestValueWakeup DEF RetryP
  <2>4. ASSUME NEW s \in Sem, V(s) PROVE NoLostWakeup'
    BY <2>4, ReleaseValueWakeup DEF V
  <2>5. ASSUME NEW d \in Device, Interrupt(d) \/ Idle(d) PROVE NoLostWakeup'
    <3>1. DeviceSem[d] \in Sem
      BY ThreadsAssumption
    <3> QED BY <2>5, <3>1, ReleaseValueWakeup DEF Interrupt, Idle, Handle
  <2>6. ASSUME NEW d \in Device, StartDevice(d) PROVE NoLostWakeup'
    BY <2>6 DEF StartDevice, NoLostWakeup, Woken
  <2>7. CASE IdleHalt \/ UNCHANGED vars
    BY <2>7 DEF IdleHalt, vars, NoLostWakeup, Woken
  <2> QED BY <2>1, <2>2, <2>3, <2>4, <2>5, <2>6, <2>7 DEF Next
<1> QED BY <1>1, <1>2, InvHolds, PTL DEF Spec

-----------------------------------------------------------------------------
(* Threads implements the semaphore contract. *)

\* One round of P()'s loop is a wait, a take, or a change of neither.
LEMMA TestValueContract ==
    ASSUME NEW s \in Sem, Inv, TestValue(s),
           \/ mode = "on"
           \/ mode = "off" /\ want[current] = s
    PROVE  [Contract!Next]_(Contract!vars)
<1>0. /\ current \in Thread
      /\ want[current] \in {NoSem, s}
      /\ value[s] \in Nat
  BY DEF Inv, TypeOK, OneRunning, StacksAgree
<1>1. CASE value[s] = 0 /\ want[current] = NoSem
  <2>1. Contract!Wait(current, s)
    BY <1>0, <1>1 DEF TestValue, Contract!Wait
  <2> QED BY <1>0, <2>1 DEF Contract!Next
<1>2. CASE value[s] = 0 /\ want[current] = s
  BY <1>0, <1>2 DEF TestValue, Contract!vars, Inv, TypeOK
<1>3. CASE value[s] # 0
  <2>1. Contract!Take(current, s)
    BY <1>0, <1>3 DEF TestValue, Contract!Take
  <2> QED BY <1>0, <2>1 DEF Contract!Next
<1> QED BY <1>0, <1>1, <1>2, <1>3

\* Every V() is one Give.
LEMMA ReleaseValueContract ==
    ASSUME NEW s \in Sem, ReleaseValue(s), UNCHANGED want
    PROVE  [Contract!Next]_(Contract!vars)
<1>1. Contract!Give(s)
  BY DEF ReleaseValue, Contract!Give
<1> QED BY <1>1 DEF Contract!Next

\* Semaphore::P and Semaphore::V, with their queue, their sleeping and their
\* repeated test, implement the one-step P() and V() of synch.h.
THEOREM SemaphoresImplementContract == Spec => ImplementsContract
<1>1. Init => Contract!Init
  BY DEF Init, Contract!Init
<1>2. Inv /\ [Next]_vars => [Contract!Next]_(Contract!vars)
  <2> SUFFICES ASSUME Inv, [Next]_vars PROVE [Contract!Next]_(Contract!vars)
    OBVIOUS
  <2>1. CASE SleepRun \/ Yield \/ Finish \/ \E t \in Thread : Fork(t)
    BY <2>1 DEF SleepRun, Yield, Finish, Fork, Contract!vars
  <2>2. ASSUME NEW s \in Sem, P(s) PROVE [Contract!Next]_(Contract!vars)
    BY <2>2, TestValueContract DEF P
  <2>3. CASE RetryP
    <3>1. want[current] \in Sem
      BY <2>3 DEF Inv, TypeOK, StacksAgree, RetryP
    <3> QED BY <2>3, <3>1, TestValueContract DEF RetryP
  <2>4. ASSUME NEW s \in Sem, V(s) PROVE [Contract!Next]_(Contract!vars)
    BY <2>4, ReleaseValueContract DEF V
  <2>5. ASSUME NEW d \in Device, Interrupt(d) \/ Idle(d)
        PROVE  [Contract!Next]_(Contract!vars)
    <3>1. DeviceSem[d] \in Sem
      BY ThreadsAssumption
    <3> QED BY <2>5, <3>1, ReleaseValueContract DEF Interrupt, Idle, Handle
  <2>6. CASE (\E d \in Device : StartDevice(d)) \/ IdleHalt \/ UNCHANGED vars
    BY <2>6 DEF StartDevice, IdleHalt, vars, Contract!vars
  <2> QED BY <2>1, <2>2, <2>3, <2>4, <2>5, <2>6 DEF Next
<1> QED BY <1>1, <1>2, InvHolds, PTL DEF Spec, ImplementsContract, Contract!Spec
=============================================================================
