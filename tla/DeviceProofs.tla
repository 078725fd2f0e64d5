---------------------------- MODULE DeviceProofs ----------------------------
(***************************************************************************)
(* Proofs about the devices and what makes them synchronous: the console   *)
(* (SynchCons), and the disk and the timer on the queue of pending         *)
(* interrupts (Devices).                                                   *)
(***************************************************************************)
EXTENDS SynchCons, Devices, WellFoundedInduction, TLAPS

-----------------------------------------------------------------------------
(* SynchCons: for any number of threads, any lengths and any input.  The   *)
(* inductive invariant is Inv.                                             *)

Writing == {"Write.loop", "Write.wait"}
Reading == {"Read.wait", "Read.get", "Read.V"}

\* Where loop and numBytes stand: a call starts at 0 and waits for a character
\* only when there is one to come.
Bounds ==
    \A t \in Thread :
        /\ pc[t] \in {"Write.P", "Read.P"} => loop[t] = 0
        /\ pc[t] \in {"Write.wait", "Read.wait", "Read.get"} => loop[t] < numBytes[t]

\* WLineBlock and RLineBlock are locks: one thread at a time is inside.
Turns ==
    /\ WLineBlock \in {0, 1} /\ RLineBlock \in {0, 1}
    /\ \A t \in Thread : pc[t] \in Writing => WLineBlock = 0
    /\ \A t, u \in Thread : pc[t] \in Writing /\ pc[u] \in Writing => t = u
    /\ \A t \in Thread : pc[t] \in Reading => RLineBlock = 0
    /\ \A t, u \in Thread : pc[t] \in Reading /\ pc[u] \in Reading => t = u

\* A character that is being output, or whose interrupt has come, is waited for.
Awaited ==
    /\ synchWriteAvail \in {0, 1}
    /\ putBusy => synchWriteAvail = 0
    /\ putBusy \/ synchWriteAvail = 1 => \E t \in Thread : pc[t] = "Write.wait"

\* t has put a character of its line.
Shows(t) == pc[t] = "Write.wait" \/ (pc[t] = "Write.loop" /\ loop[t] > 0)

\* What is on display is the last character put by the thread that has its turn,
\* or ends a line.
Displayed ==
    /\ \A t \in Thread : pc[t] = "Write.wait" =>
          display = <<Place(t, loop[t] + 1, numBytes[t])>>
    /\ \A t \in Thread : pc[t] = "Write.loop" /\ loop[t] > 0 =>
          display = <<Place(t, loop[t], numBytes[t])>>
    /\ (\A t \in Thread : ~Shows(t)) =>
          (display # <<>> => ~(display[1].at < display[1].of))

\* t has taken a character and its line goes on.
InLine(t) == pc[t] \in {"Read.wait", "Read.get"} /\ loop[t] > 0

\* The last character taken belongs to the thread that is in its line, or ends
\* a line.
LastTaken ==
    /\ \A t \in Thread : InLine(t) =>
          /\ taken # <<>>
          /\ taken[Len(taken)].who = t
          /\ taken[Len(taken)].at = loop[t]
          /\ ~EndsLine(taken[Len(taken)])
    /\ (\A t \in Thread : ~InLine(t)) /\ taken # <<>> => EndsLine(taken[Len(taken)])

Inv ==
    /\ TypeOK /\ Bounds /\ Turns
    /\ Awaited /\ PutWhenFree /\ Displayed
    /\ LastTaken /\ LinesTaken

-----------------------------------------------------------------------------
(* Its proof. *)

\* Every step keeps the types.
LEMMA TypeStep ==
    ASSUME TypeOK, Bounds, Next
    PROVE  TypeOK'
<1> USE SynchConsAssumption DEF device, sems, calls, Goto
<1>1. ASSUME NEW t \in Thread, NEW n \in WriteLengths, CallWrite(t, n) PROVE TypeOK'
  BY <1>1 DEF CallWrite, TypeOK, Bounds
<1>2. ASSUME NEW t \in Thread, NEW n \in ReadLengths, CallRead(t, n) PROVE TypeOK'
  BY <1>2 DEF CallRead, TypeOK, Bounds
<1>3. ASSUME NEW t \in Thread, WriteLock(t) PROVE TypeOK'
  BY <1>3 DEF WriteLock, TypeOK, Bounds
<1>4. ASSUME NEW t \in Thread, PutChar(t) PROVE TypeOK'
  BY <1>4 DEF PutChar, TypeOK, Bounds
<1>5. ASSUME NEW t \in Thread, WriteWait(t) PROVE TypeOK'
  BY <1>5 DEF WriteWait, TypeOK, Bounds
<1>6. ASSUME NEW t \in Thread, WriteReturn(t) PROVE TypeOK'
  BY <1>6 DEF WriteReturn, TypeOK, Bounds
<1>7. ASSUME NEW t \in Thread, ReadLock(t) PROVE TypeOK'
  BY <1>7 DEF ReadLock, Continue, TypeOK, Bounds
<1>8. ASSUME NEW t \in Thread, ReadWait(t) PROVE TypeOK'
  BY <1>8 DEF ReadWait, TypeOK, Bounds
<1>9. ASSUME NEW t \in Thread, GetChar(t) PROVE TypeOK'
  <2> USE <1>9 DEF GetChar, TypeOK, Continue
  <2> DEFINE E == [who : Thread, at : Nat, of : Nat, char : Char]
  <2>1. Got(t, loop[t] + 1, numBytes[t], incoming) \in E
    BY DEF Got
  <2>2. taken' \in Seq(E)
    <3>1. Append(taken, Got(t, loop[t] + 1, numBytes[t], incoming)) \in Seq(E)
      BY <2>1
    <3> QED BY <3>1, Zenon
  <2>3. \A u \in Thread : loop'[u] \in Nat /\ loop'[u] <= numBytes[u]
    BY DEF Bounds
  <2>4. loop' \in [Thread -> Nat]
    BY <2>3
  <2>5. "EOF" \in Char
    BY DEF Char
  <2> QED BY <2>2, <2>3, <2>4, <2>5, Zenon
<1>10. ASSUME NEW t \in Thread, ReadReturn(t) PROVE TypeOK'
  BY <1>10 DEF ReadReturn, TypeOK, Bounds
<1>11. CASE WriteDone
  <2>1. /\ putBusy' = FALSE /\ synchWriteAvail' = synchWriteAvail + 1
        /\ UNCHANGED <<incoming, keyboard, synchReadAvail, RLineBlock, WLineBlock,
                       pc, numBytes, loop, taken>>
    BY <1>11, Zenon DEF WriteDone
  <2>2. putBusy' \in BOOLEAN
    BY <2>1, Zenon
  <2>3. synchWriteAvail' \in Nat
    BY <2>1 DEF TypeOK
  <2> QED BY <2>1, <2>2, <2>3, Zenon DEF TypeOK
<1>12. CASE CheckCharAvail
  <2> USE <1>12 DEF CheckCharAvail, TypeOK
  <2>1. Head(keyboard) \in Char /\ Tail(keyboard) \in Seq(Char)
    OBVIOUS
  <2> QED BY <2>1
<1> QED
  BY <1>1, <1>2, <1>3, <1>4, <1>5, <1>6, <1>7, <1>8, <1>9, <1>10, <1>11, <1>12
     DEF Next, Kernel

\* Every step keeps the counts of the calls.
LEMMA BoundsStep ==
    ASSUME TypeOK, Bounds, Next
    PROVE  Bounds'
<1> USE SynchConsAssumption DEF device, sems, calls, Goto
<1>1. ASSUME NEW t \in Thread, NEW n \in WriteLengths, CallWrite(t, n) PROVE Bounds'
  BY <1>1 DEF CallWrite, TypeOK, Bounds
<1>2. ASSUME NEW t \in Thread, NEW n \in ReadLengths, CallRead(t, n) PROVE Bounds'
  BY <1>2 DEF CallRead, TypeOK, Bounds
<1>3. ASSUME NEW t \in Thread, WriteLock(t) PROVE Bounds'
  BY <1>3 DEF WriteLock, TypeOK, Bounds
<1>4. ASSUME NEW t \in Thread, PutChar(t) PROVE Bounds'
  BY <1>4 DEF PutChar, TypeOK, Bounds
<1>5. ASSUME NEW t \in Thread, WriteWait(t) PROVE Bounds'
  BY <1>5 DEF WriteWait, TypeOK, Bounds
<1>6. ASSUME NEW t \in Thread, WriteReturn(t) PROVE Bounds'
  BY <1>6 DEF WriteReturn, TypeOK, Bounds
<1>7. ASSUME NEW t \in Thread, ReadLock(t) PROVE Bounds'
  BY <1>7 DEF ReadLock, Continue, TypeOK, Bounds
<1>8. ASSUME NEW t \in Thread, ReadWait(t) PROVE Bounds'
  BY <1>8 DEF ReadWait, TypeOK, Bounds
<1>9. ASSUME NEW t \in Thread, GetChar(t) PROVE Bounds'
  BY <1>9, Zenon DEF GetChar, Continue, TypeOK, Bounds
<1>10. ASSUME NEW t \in Thread, ReadReturn(t) PROVE Bounds'
  BY <1>10 DEF ReadReturn, TypeOK, Bounds
<1>11. CASE WriteDone
  BY <1>11 DEF WriteDone, TypeOK, Bounds
<1>12. CASE CheckCharAvail
  BY <1>12 DEF CheckCharAvail, TypeOK, Bounds
<1> QED
  BY <1>1, <1>2, <1>3, <1>4, <1>5, <1>6, <1>7, <1>8, <1>9, <1>10, <1>11, <1>12
     DEF Next, Kernel

\* Every step keeps the lines locked.
LEMMA TurnsStep ==
    ASSUME TypeOK, Turns, Next
    PROVE  Turns'
<1> USE DEF device, sems, calls, Goto
<1>1. ASSUME NEW t \in Thread, NEW n \in WriteLengths, CallWrite(t, n) PROVE Turns'
  BY <1>1 DEF CallWrite, TypeOK, Turns, Writing, Reading
<1>2. ASSUME NEW t \in Thread, NEW n \in ReadLengths, CallRead(t, n) PROVE Turns'
  BY <1>2 DEF CallRead, TypeOK, Turns, Writing, Reading
<1>3. ASSUME NEW t \in Thread, WriteLock(t) PROVE Turns'
  BY <1>3 DEF WriteLock, TypeOK, Turns, Writing, Reading
<1>4. ASSUME NEW t \in Thread, PutChar(t) PROVE Turns'
  BY <1>4 DEF PutChar, TypeOK, Turns, Writing, Reading
<1>5. ASSUME NEW t \in Thread, WriteWait(t) PROVE Turns'
  BY <1>5 DEF WriteWait, TypeOK, Turns, Writing, Reading
<1>6. ASSUME NEW t \in Thread, WriteReturn(t) PROVE Turns'
  BY <1>6 DEF WriteReturn, TypeOK, Turns, Writing, Reading
<1>7. ASSUME NEW t \in Thread, ReadLock(t) PROVE Turns'
  BY <1>7 DEF ReadLock, Continue, TypeOK, Turns, Writing, Reading
<1>8. ASSUME NEW t \in Thread, ReadWait(t) PROVE Turns'
  BY <1>8 DEF ReadWait, TypeOK, Turns, Writing, Reading
<1>9. ASSUME NEW t \in Thread, GetChar(t) PROVE Turns'
  <2>1. pc' = [pc EXCEPT ![t] = pc'[t]] /\ pc'[t] \in Reading /\ pc[t] \in Reading
    BY <1>9 DEF GetChar, Continue, TypeOK, Reading
  <2>2. UNCHANGED <<WLineBlock, RLineBlock>>
    BY <1>9 DEF GetChar
  <2>3. \A u \in Thread : u # t => pc'[u] = pc[u]
    BY <2>1 DEF TypeOK
  <2>4. \A u \in Thread : pc'[u] \in Writing => pc[u] \in Writing
    BY <2>1, <2>3 DEF Reading, Writing
  <2>5. \A u \in Thread : pc'[u] \in Reading => pc[u] \in Reading
    BY <2>1, <2>3
  <2> QED BY <2>2, <2>4, <2>5 DEF Turns
<1>10. ASSUME NEW t \in Thread, ReadReturn(t) PROVE Turns'
  BY <1>10 DEF ReadReturn, TypeOK, Turns, Writing, Reading
<1>11. CASE WriteDone
  BY <1>11 DEF WriteDone, TypeOK, Turns, Writing, Reading
<1>12. CASE CheckCharAvail
  BY <1>12 DEF CheckCharAvail, TypeOK, Turns, Writing, Reading
<1> QED
  BY <1>1, <1>2, <1>3, <1>4, <1>5, <1>6, <1>7, <1>8, <1>9, <1>10, <1>11, <1>12
     DEF Next, Kernel

\* Every step keeps the wakeups of Write in balance.
LEMMA AwaitedStep ==
    ASSUME TypeOK, Turns, Awaited, PutWhenFree, Next
    PROVE  (Awaited /\ PutWhenFree)'
<1> USE DEF device, sems, calls, Goto
<1>1. ASSUME NEW t \in Thread, NEW n \in WriteLengths, CallWrite(t, n)
      PROVE  (Awaited /\ PutWhenFree)'
  BY <1>1 DEF CallWrite, TypeOK, Turns, Awaited, PutWhenFree, Writing
<1>2. ASSUME NEW t \in Thread, NEW n \in ReadLengths, CallRead(t, n)
      PROVE  (Awaited /\ PutWhenFree)'
  BY <1>2 DEF CallRead, TypeOK, Turns, Awaited, PutWhenFree, Writing
<1>3. ASSUME NEW t \in Thread, WriteLock(t) PROVE (Awaited /\ PutWhenFree)'
  BY <1>3 DEF WriteLock, TypeOK, Turns, Awaited, PutWhenFree, Writing
<1>4. ASSUME NEW t \in Thread, PutChar(t) PROVE (Awaited /\ PutWhenFree)'
  BY <1>4 DEF PutChar, TypeOK, Turns, Awaited, PutWhenFree, Writing
<1>5. ASSUME NEW t \in Thread, WriteWait(t) PROVE (Awaited /\ PutWhenFree)'
  BY <1>5 DEF WriteWait, TypeOK, Turns, Awaited, PutWhenFree, Writing
<1>6. ASSUME NEW t \in Thread, WriteReturn(t) PROVE (Awaited /\ PutWhenFree)'
  BY <1>6 DEF WriteReturn, TypeOK, Turns, Awaited, PutWhenFree, Writing
<1>7. ASSUME NEW t \in Thread, ReadLock(t) PROVE (Awaited /\ PutWhenFree)'
  BY <1>7 DEF ReadLock, Continue, TypeOK, Turns, Awaited, PutWhenFree, Writing
<1>8. ASSUME NEW t \in Thread, ReadWait(t) PROVE (Awaited /\ PutWhenFree)'
  BY <1>8 DEF ReadWait, TypeOK, Turns, Awaited, PutWhenFree, Writing
<1>9. ASSUME NEW t \in Thread, GetChar(t) PROVE (Awaited /\ PutWhenFree)'
  BY <1>9 DEF GetChar, Continue, TypeOK, Turns, Awaited, PutWhenFree, Writing
<1>10. ASSUME NEW t \in Thread, ReadReturn(t) PROVE (Awaited /\ PutWhenFree)'
  BY <1>10 DEF ReadReturn, TypeOK, Turns, Awaited, PutWhenFree, Writing
<1>11. CASE WriteDone
  BY <1>11 DEF WriteDone, TypeOK, Turns, Awaited, PutWhenFree, Writing
<1>12. CASE CheckCharAvail
  BY <1>12 DEF CheckCharAvail, TypeOK, Turns, Awaited, PutWhenFree, Writing
<1> QED
  BY <1>1, <1>2, <1>3, <1>4, <1>5, <1>6, <1>7, <1>8, <1>9, <1>10, <1>11, <1>12
     DEF Next, Kernel

\* Every step keeps track of the line on display.
LEMMA DisplayedStep ==
    ASSUME TypeOK, Bounds, Turns, Displayed, Next
    PROVE  Displayed'
<1> USE DEF device, sems, calls, Goto
<1>1. ASSUME NEW t \in Thread, NEW n \in WriteLengths, CallWrite(t, n) PROVE Displayed'
  BY <1>1 DEF CallWrite, TypeOK, Bounds, Turns, Displayed, Shows, Writing, Place
<1>2. ASSUME NEW t \in Thread, NEW n \in ReadLengths, CallRead(t, n) PROVE Displayed'
  BY <1>2 DEF CallRead, TypeOK, Bounds, Turns, Displayed, Shows, Writing, Place
<1>3. ASSUME NEW t \in Thread, WriteLock(t) PROVE Displayed'
  BY <1>3 DEF WriteLock, TypeOK, Bounds, Turns, Displayed, Shows, Writing, Place
<1>4. ASSUME NEW t \in Thread, PutChar(t) PROVE Displayed'
  BY <1>4 DEF PutChar, TypeOK, Bounds, Turns, Displayed, Shows, Writing, Place
<1>5. ASSUME NEW t \in Thread, WriteWait(t) PROVE Displayed'
  BY <1>5 DEF WriteWait, TypeOK, Bounds, Turns, Displayed, Shows, Writing, Place
<1>6. ASSUME NEW t \in Thread, WriteReturn(t) PROVE Displayed'
  BY <1>6 DEF WriteReturn, TypeOK, Bounds, Turns, Displayed, Shows, Writing, Place
<1>7. ASSUME NEW t \in Thread, ReadLock(t) PROVE Displayed'
  BY <1>7 DEF ReadLock, Continue, TypeOK, Bounds, Turns, Displayed, Shows, Writing, Place
<1>8. ASSUME NEW t \in Thread, ReadWait(t) PROVE Displayed'
  BY <1>8 DEF ReadWait, TypeOK, Bounds, Turns, Displayed, Shows, Writing, Place
<1>9. ASSUME NEW t \in Thread, GetChar(t) PROVE Displayed'
  BY <1>9, Zenon DEF GetChar, Continue, TypeOK, Bounds, Turns, Displayed, Shows, Writing, Place
<1>10. ASSUME NEW t \in Thread, ReadReturn(t) PROVE Displayed'
  BY <1>10 DEF ReadReturn, TypeOK, Bounds, Turns, Displayed, Shows, Writing, Place
<1>11. CASE WriteDone
  BY <1>11 DEF WriteDone, TypeOK, Bounds, Turns, Displayed, Shows, Writing, Place
<1>12. CASE CheckCharAvail
  BY <1>12 DEF CheckCharAvail, TypeOK, Bounds, Turns, Displayed, Shows, Writing, Place
<1> QED
  BY <1>1, <1>2, <1>3, <1>4, <1>5, <1>6, <1>7, <1>8, <1>9, <1>10, <1>11, <1>12
     DEF Next, Kernel

\* Every step keeps track of the line being read.
LEMMA LastTakenStep ==
    ASSUME TypeOK, Bounds, Turns, LastTaken, LinesTaken, Next
    PROVE  (LastTaken /\ LinesTaken)'
<1> USE DEF device, sems, calls, Goto
<1>1. ASSUME NEW t \in Thread, NEW n \in WriteLengths, CallWrite(t, n)
      PROVE  (LastTaken /\ LinesTaken)'
  BY <1>1, Zenon DEF CallWrite, TypeOK, Bounds, Turns, LastTaken, LinesTaken, InLine,
     EndsLine, Reading, Got
<1>2. ASSUME NEW t \in Thread, NEW n \in ReadLengths, CallRead(t, n)
      PROVE  (LastTaken /\ LinesTaken)'
  BY <1>2, Zenon DEF CallRead, TypeOK, Bounds, Turns, LastTaken, LinesTaken, InLine,
     EndsLine, Reading, Got
<1>3. ASSUME NEW t \in Thread, WriteLock(t) PROVE (LastTaken /\ LinesTaken)'
  BY <1>3 DEF WriteLock, TypeOK, Bounds, Turns, LastTaken, LinesTaken, InLine,
     EndsLine, Reading, Got
<1>4. ASSUME NEW t \in Thread, PutChar(t) PROVE (LastTaken /\ LinesTaken)'
  BY <1>4 DEF PutChar, TypeOK, Bounds, Turns, LastTaken, LinesTaken, InLine, EndsLine,
     Reading, Got
<1>5. ASSUME NEW t \in Thread, WriteWait(t) PROVE (LastTaken /\ LinesTaken)'
  BY <1>5, Zenon DEF WriteWait, TypeOK, Bounds, Turns, LastTaken, LinesTaken, InLine,
     EndsLine, Reading, Got
<1>6. ASSUME NEW t \in Thread, WriteReturn(t) PROVE (LastTaken /\ LinesTaken)'
  BY <1>6 DEF WriteReturn, TypeOK, Bounds, Turns, LastTaken, LinesTaken, InLine,
     EndsLine, Reading, Got
<1>7. ASSUME NEW t \in Thread, ReadLock(t) PROVE (LastTaken /\ LinesTaken)'
  BY <1>7 DEF ReadLock, Continue, TypeOK, Bounds, Turns, LastTaken, LinesTaken,
     InLine, EndsLine, Reading, Got
<1>8. ASSUME NEW t \in Thread, ReadWait(t) PROVE (LastTaken /\ LinesTaken)'
  BY <1>8 DEF ReadWait, TypeOK, Bounds, Turns, LastTaken, LinesTaken, InLine,
     EndsLine, Reading, Got
<1>9. ASSUME NEW t \in Thread, GetChar(t) PROVE (LastTaken /\ LinesTaken)'
  <2> DEFINE c == Got(t, loop[t] + 1, numBytes[t], incoming)
  <2>1. /\ pc[t] = "Read.get" /\ pc'[t] \in Reading
        /\ \A u \in Thread : u # t => pc'[u] = pc[u] /\ loop'[u] = loop[u]
    BY <1>9 DEF GetChar, Continue, TypeOK, Reading
  <2>2. \A u \in Thread : u # t => ~InLine(u) /\ ~InLine(u)'
    BY <2>1 DEF Turns, InLine, Reading
  <2>3. CASE incoming = "EOF"
    <3>1. taken' = taken /\ loop'[t] = loop[t] /\ pc'[t] = "Read.wait"
      BY <1>9, <2>3 DEF GetChar, TypeOK
    <3>2. InLine(t)' = InLine(t)
      BY <2>1, <3>1 DEF InLine
    <3> QED BY <2>1, <2>2, <3>1, <3>2 DEF LastTaken, LinesTaken
  <2>4. CASE incoming # "EOF"
    <3>1. taken' = Append(taken, c)
      BY <1>9, <2>4 DEF GetChar
    <3>2. /\ taken' \in Seq([who : Thread, at : Nat, of : Nat, char : Char])
          /\ Len(taken') = Len(taken) + 1 /\ Len(taken) \in Nat
          /\ taken'[Len(taken')] = c
          /\ \A i \in 1 .. Len(taken) : taken'[i] = taken[i]
      <4>1. c \in [who : Thread, at : Nat, of : Nat, char : Char]
        BY DEF TypeOK, Got
      <4> QED BY <3>1, <4>1 DEF TypeOK
    <3>3. c.who = t /\ c.at = loop[t] + 1 /\ c.of = numBytes[t] /\ c.char = incoming
      BY DEF Got
    <3>4. taken' # <<>>
      BY <3>2
    <3> HIDE DEF c
    <3>5. LinesTaken'
      <4> SUFFICES ASSUME NEW i \in 1 .. Len(taken') - 1
                   PROVE  IF EndsLine(taken'[i]) THEN taken'[i + 1].at = 1
                          ELSE /\ taken'[i + 1].who = taken'[i].who
                               /\ taken'[i + 1].at = taken'[i].at + 1
        BY DEF LinesTaken, EndsLine
      <4>1. CASE i = Len(taken)
        <5>1. taken # <<>> /\ taken'[i] = taken[Len(taken)] /\ taken'[i + 1] = c
          BY <3>2, <4>1
        <5>2. CASE loop[t] = 0
          <6>1. \A u \in Thread : ~InLine(u)
            BY <2>2, <5>2 DEF InLine
          <6> QED BY <3>3, <5>1, <5>2, <6>1 DEF LastTaken
        <5>3. CASE loop[t] > 0
          <6>1. InLine(t)
            BY <2>1, <5>3 DEF InLine
          <6> QED BY <3>3, <5>1, <6>1 DEF LastTaken
        <5> QED BY <5>2, <5>3 DEF TypeOK
      <4>2. CASE i # Len(taken)
        <5>1. i \in 1 .. Len(taken) - 1
          BY <3>2, <4>2
        <5>2. taken'[i] = taken[i] /\ taken'[i + 1] = taken[i + 1]
          BY <3>2, <5>1
        <5> QED BY <5>1, <5>2 DEF LinesTaken
      <4> QED BY <4>1, <4>2
    <3>6. LastTaken'
      <4>1. CASE EndsLine(c)
        <5>1. ~InLine(t)'
          BY <1>9, <2>4, <3>3, <4>1 DEF GetChar, Continue, InLine, EndsLine, TypeOK
        <5> QED BY <2>2, <3>2, <4>1, <5>1 DEF LastTaken, EndsLine
      <4>2. CASE ~EndsLine(c)
        <5>1. incoming \notin {"EOF", "newline", "ctrlA"} /\ loop[t] + 1 # numBytes[t]
          BY <2>4, <3>3, <4>2 DEF EndsLine
        <5>2. loop'[t] = loop[t] + 1 /\ pc'[t] = "Read.wait"
          BY <1>9, <5>1 DEF GetChar, Continue, TypeOK, Bounds
        <5>3. InLine(t)'
          BY <5>2 DEF InLine, TypeOK
        <5> QED BY <2>2, <3>2, <3>3, <3>4, <4>2, <5>2, <5>3 DEF LastTaken, EndsLine
      <4> QED BY <4>1, <4>2
    <3> QED BY <3>5, <3>6
  <2> QED BY <2>3, <2>4
<1>10. ASSUME NEW t \in Thread, ReadReturn(t) PROVE (LastTaken /\ LinesTaken)'
  BY <1>10 DEF ReadReturn, TypeOK, Bounds, Turns, LastTaken, LinesTaken, InLine,
     EndsLine, Reading, Got
<1>11. CASE WriteDone
  BY <1>11 DEF WriteDone, TypeOK, Bounds, Turns, LastTaken, LinesTaken, InLine,
     EndsLine, Reading, Got
<1>12. CASE CheckCharAvail
  BY <1>12 DEF CheckCharAvail, TypeOK, Bounds, Turns, LastTaken, LinesTaken, InLine,
     EndsLine, Reading, Got
<1> QED
  BY <1>1, <1>2, <1>3, <1>4, <1>5, <1>6, <1>7, <1>8, <1>9, <1>10, <1>11, <1>12
     DEF Next, Kernel

-----------------------------------------------------------------------------
\* The console starts idle, with nothing on display and nothing taken.
LEMMA InvInit == Init => Inv
<1> SUFFICES ASSUME Init PROVE Inv
  OBVIOUS
<1> USE SynchConsAssumption DEF Init
<1>1. TypeOK
  <2>1. keyboard \in Seq(Char) /\ incoming \in Char
    BY DEF Char
  <2>2. taken \in Seq([who : Thread, at : Nat, of : Nat, char : Char])
    OBVIOUS
  <2>3. putBusy \in BOOLEAN
    BY Zenon
  <2>4. /\ pc \in [Thread -> {"idle", "Write.P", "Write.loop", "Write.wait",
                            "Read.P", "Read.wait", "Read.get", "Read.V"}]
        /\ numBytes \in [Thread -> Nat] /\ loop \in [Thread -> Nat]
        /\ \A t \in Thread : loop[t] <= numBytes[t]
    OBVIOUS
  <2>5. /\ synchReadAvail \in Nat /\ synchWriteAvail \in Nat
        /\ RLineBlock \in Nat /\ WLineBlock \in Nat
    OBVIOUS
  <2> QED BY <2>1, <2>2, <2>3, <2>4, <2>5, Zenon DEF TypeOK
<1>2. Bounds /\ Turns
  BY DEF Bounds, Turns, Writing, Reading
<1>3. Awaited /\ PutWhenFree /\ Displayed
  BY DEF Awaited, PutWhenFree, Displayed, Shows
<1>4. LastTaken /\ LinesTaken
  BY DEF LastTaken, LinesTaken, InLine
<1> QED BY <1>1, <1>2, <1>3, <1>4 DEF Inv

\* Every step keeps the invariant.
LEMMA InvNext == Inv /\ [Next]_vars => Inv'
<1>1. ASSUME Inv, Next PROVE Inv'
  BY <1>1, TypeStep, BoundsStep, TurnsStep, AwaitedStep, DisplayedStep, LastTakenStep
  DEF Inv
<1>2. ASSUME Inv, UNCHANGED vars PROVE Inv'
  BY <1>2, Zenon
  DEF vars, device, sems, calls, Inv, TypeOK, Bounds, Turns, Awaited, PutWhenFree,
      Displayed, LastTaken, LinesTaken, EndsLine, Shows, InLine
<1> QED BY <1>1, <1>2

\* The invariant holds in every state.
LEMMA InvHolds == Spec => []Inv
BY InvInit, InvNext, PTL DEF Spec

\* Every field keeps its type, and no call writes outside its buffer.
THEOREM TypeCorrect == Spec => []TypeOK
<1>1. Inv => TypeOK
  BY DEF Inv
<1> QED BY <1>1, InvHolds, PTL

\* The assertion of Console::PutChar never fails, however many threads call
\* Write and whenever the device interrupts.
THEOREM PutCharCorrect == Spec => []PutWhenFree
<1>1. Inv => PutWhenFree
  BY DEF Inv
<1> QED BY <1>1, InvHolds, PTL

\* The lines that Write displays are never mixed.
THEOREM LinesDisplayedHolds == Spec => LinesDisplayed
<1> DEFINE A == display # <<>> /\ display' # display => Follows(display[1], display'[1])
<1>1. ASSUME Inv, Next PROVE A
  <2>1. CASE UNCHANGED display
    BY <2>1
  <2>2. ASSUME NEW t \in Thread, PutChar(t), display # <<>> PROVE A
    <3>1. display' = <<Place(t, loop[t] + 1, numBytes[t])>>
      BY <2>2, Zenon DEF PutChar
    <3>2. CASE loop[t] > 0
      <4>1. display = <<Place(t, loop[t], numBytes[t])>>
        BY <1>1, <2>2, <3>2 DEF Inv, Displayed, PutChar
      <4>2. loop[t] < numBytes[t]
        BY <2>2 DEF PutChar
      <4> QED BY <3>1, <4>1, <4>2 DEF Follows, Place
    <3>3. CASE loop[t] = 0
      <4>1. \A u \in Thread : ~Shows(u)
        BY <1>1, <2>2, <3>3 DEF Inv, Turns, Writing, Shows, PutChar
      <4>2. ~(display[1].at < display[1].of)
        BY <1>1, <2>2, <4>1 DEF Inv, Displayed
      <4> QED BY <3>1, <3>3, <4>2 DEF Follows, Place
    <3> QED BY <1>1, <2>2, <3>2, <3>3 DEF Inv, TypeOK
  <2> QED
    BY <1>1, <2>1, <2>2 DEF Next, Kernel, CallWrite, CallRead, WriteLock, WriteWait,
       WriteReturn, ReadLock, ReadWait, GetChar, ReadReturn, WriteDone, CheckCharAvail
<1>2. UNCHANGED vars => UNCHANGED display
  BY DEF vars
<1>3. Inv /\ [Next]_vars => [A]_vars
  BY <1>1, <1>2
<1> QED BY <1>3, InvHolds, PTL DEF Spec, LinesDisplayed

\* No Read gets a character out of another Read's line.
THEOREM LinesTakenHolds == Spec => []LinesTaken
<1>1. Inv => LinesTaken
  BY DEF Inv
<1> QED BY <1>1, InvHolds, PTL

-----------------------------------------------------------------------------
(* Devices: for any disk, any lengths of the ticks, any random intervals   *)
(* of the timer, any number of threads and any requests.  The inductive    *)
(* invariant is DevicesInv:                                                *)
(* the queue is in order and no interrupt in it is late, an active disk    *)
(* has one interrupt in it, and a thread in P() has its V done or to come. *)

\* An entry of Interrupt::pending.
PendingInterrupt == [when : Nat, type : {"TimerInt", "DiskInt"}]

\* The list is in the order of the times.
Sorted(list) == \A i, j \in DOMAIN list : i < j => list[i].when <= list[j].when

\* Where the interrupts of the disk are.
Disks(list) == {i \in DOMAIN list : list[i].type = "DiskInt"}

\* What is below a bound in a sequence of increasing values comes first.
LEMMA InitialSegment ==
  ASSUME NEW n \in Nat, NEW D \in SUBSET (1 .. n),
         \A i \in D : \A j \in 1 .. n : j < i => j \in D
  PROVE  \E c \in 0 .. n : \A i \in 1 .. n : i \in D <=> i <= c
<1> DEFINE Out == (1 .. n + 1) \ D
<1>1. n + 1 \in Out /\ Out \subseteq Nat
  OBVIOUS
<1> HIDE DEF Out
<1>2. PICK k \in Out : \A j \in Out : ~(<<j, k>> \in OpToRel(<, Nat))
  BY <1>1, WFMin, NatLessThanWellFounded, Zenon
<1>3. k \in 1 .. n + 1 /\ k \notin D /\ \A j \in 1 .. n + 1 : j < k => j \in D
  <2>1. \A j \in Out : ~(j < k)
    BY <1>1, <1>2, Zenon DEF OpToRel
  <2> QED BY <2>1 DEF Out
<1>4. \A i \in 1 .. n : i \in D <=> i <= k - 1
  BY <1>3
<1>5. k - 1 \in 0 .. n
  BY <1>3
<1> QED BY <1>4, <1>5, Zenon

\* new is the list with the item behind its first c.
InsertedAt(new, list, c, item) ==
    /\ new \in Seq(PendingInterrupt) /\ Len(new) = Len(list) + 1
    /\ \A i \in 1 .. Len(list) + 1 :
          new[i] = IF i <= c THEN list[i] ELSE IF i = c + 1 THEN item ELSE list[i - 1]

\* An element put behind the first c of a sequence, place by place.
LEMMA InsertAtPlaces ==
  ASSUME NEW s \in Seq(PendingInterrupt), NEW e \in PendingInterrupt, NEW c \in 0 .. Len(s)
  PROVE  InsertedAt(SubSeq(s, 1, c) \o <<e>> \o SubSeq(s, c + 1, Len(s)), s, c, e)
<1> DEFINE S == PendingInterrupt
<1> HIDE DEF PendingInterrupt
<1> DEFINE a == SubSeq(s, 1, c)
           b == SubSeq(s, c + 1, Len(s))
<1>0. c \in Nat /\ Len(s) \in Nat /\ c <= Len(s)
  OBVIOUS
<1>1. a \in Seq(S) /\ Len(a) = c /\ \A i \in 1 .. c : a[i] = s[i]
  OBVIOUS
<1>2. /\ b \in Seq(S) /\ Len(b) = Len(s) - c
      /\ \A i \in 1 .. Len(s) - c : b[i] = s[i + c]
  OBVIOUS
<1> HIDE DEF S
<1> HIDE DEF a, b
<1>4. /\ a \o <<e>> \in Seq(S) /\ Len(a \o <<e>>) = c + 1
      /\ \A i \in 1 .. c + 1 : (a \o <<e>>)[i] = IF i <= c THEN s[i] ELSE e
  BY <1>1 DEF S
<1>5. /\ (a \o <<e>>) \o b \in Seq(S) /\ Len((a \o <<e>>) \o b) = Len(s) + 1
      /\ \A i \in 1 .. Len(s) + 1 :
            ((a \o <<e>>) \o b)[i] = IF i <= c + 1 THEN (a \o <<e>>)[i] ELSE b[i - (c + 1)]
  <2>1. (a \o <<e>>) \o b \in Seq(S)
    BY <1>2, <1>4
  <2>2. Len((a \o <<e>>) \o b) = Len(s) + 1
    <3> DEFINE ae == a \o <<e>>
    <3>1. ae \in Seq(S) /\ Len(ae) = c + 1
      BY <1>4, Zenon
    <3> HIDE DEF ae
    <3>2. Len(ae \o b) = Len(ae) + Len(b)
      <4>1. b \in Seq(S)
        BY <1>2, Zenon
      <4>2. ae \in Seq(S)
        BY <3>1, Zenon
      <4> QED BY <4>1, <4>2
    <3>3. Len(ae \o b) = Len(s) + 1
      BY <1>0, <1>2, <3>1, <3>2
    <3> QED BY <3>3, Zenon DEF ae
  <2>3. ASSUME NEW i \in 1 .. Len(s) + 1
        PROVE  ((a \o <<e>>) \o b)[i]
                 = IF i <= c + 1 THEN (a \o <<e>>)[i] ELSE b[i - (c + 1)]
    BY <1>0, <1>2, <1>4
  <2> QED BY <2>1, <2>2, <2>3, Zenon
<1>6. ASSUME NEW i \in 1 .. Len(s) + 1
      PROVE  ((a \o <<e>>) \o b)[i]
               = IF i <= c THEN s[i] ELSE IF i = c + 1 THEN e ELSE s[i - 1]
  <2>1. CASE i <= c + 1
    BY <1>4, <1>5, <2>1
  <2>2. CASE i > c + 1
    <3>1. i - (c + 1) \in 1 .. Len(s) - c /\ (i - (c + 1)) + c = i - 1
      BY <1>0, <2>2
    <3>2. ((a \o <<e>>) \o b)[i] = b[i - (c + 1)]
      BY <1>0, <1>5, <2>2
    <3>3. b[i - (c + 1)] = s[(i - (c + 1)) + c]
      BY <1>2, <3>1, Zenon
    <3>4. ~(i <= c) /\ i # c + 1
      BY <1>0, <2>2
    <3> QED BY <3>1, <3>2, <3>3, <3>4, Zenon
  <2>3. i <= c + 1 \/ i > c + 1
    BY <1>0
  <2> QED BY <2>1, <2>2, <2>3, Zenon
<1> DEFINE r == (a \o <<e>>) \o b
<1>7. /\ r \in Seq(S) /\ Len(r) = Len(s) + 1
      /\ \A i \in 1 .. Len(s) + 1 :
            r[i] = IF i <= c THEN s[i] ELSE IF i = c + 1 THEN e ELSE s[i - 1]
  BY <1>5, <1>6, Zenon
<1> HIDE DEF r
<1> QED BY <1>7, Zenon DEF InsertedAt, S, r, a, b

\* List::SortedInsert into a list that is in order of the times: the item is
\* in its place, and the others keep theirs in front of it and behind it.
LEMMA Inserted ==
  ASSUME NEW list \in Seq(PendingInterrupt), Sorted(list), NEW item \in PendingInterrupt
  PROVE  \E c \in 0 .. Len(list) :
            /\ InsertedAt(SortedInsert(list, item), list, c, item)
            /\ \A i \in 1 .. Len(list) : list[i].when <= item.when <=> i <= c
<1> DEFINE D == {i \in DOMAIN list : list[i].when <= item.when}
           n == Len(list)
           Behind(c) == \A i \in DOMAIN list : list[i].when <= item.when <=> i <= c
           c == CHOOSE c \in 0 .. Len(list) : Behind(c)
<1>1. /\ n \in Nat /\ DOMAIN list = 1 .. n
      /\ \A i \in 1 .. n : list[i] \in PendingInterrupt
  OBVIOUS
<1>2. item.when \in Nat /\ \A i \in 1 .. n : list[i].when \in Nat
  BY <1>1 DEF PendingInterrupt
<1> HIDE DEF n
<1>3. D \in SUBSET (1 .. n) /\ \A i \in D : \A j \in 1 .. n : j < i => j \in D
  <2>1. D \in SUBSET (1 .. n)
    BY <1>1
  <2>2. ASSUME NEW i \in D, NEW j \in 1 .. n, j < i PROVE list[j].when <= item.when
    <3>1. list[j].when <= list[i].when /\ list[i].when <= item.when /\ i \in 1 .. n
      BY <1>1, <2>2 DEF Sorted
    <3> QED BY <1>2, <3>1
  <2> QED BY <1>1, <2>1, <2>2
<1>4. \E k \in 0 .. n : \A i \in 1 .. n : i \in D <=> i <= k
  <2> HIDE DEF D
  <2> QED BY <1>1, <1>3, InitialSegment, Zenon
<1>5. \E k \in 0 .. Len(list) : Behind(k)
  BY <1>1, <1>4, Zenon DEF n
<1>6. c \in 0 .. Len(list) /\ Behind(c)
  BY <1>5, Zenon
<1>7. SortedInsert(list, item) = SubSeq(list, 1, c) \o <<item>> \o SubSeq(list, c + 1, Len(list))
  BY Zenon DEF SortedInsert
<1> HIDE DEF c
<1>8. InsertedAt(SortedInsert(list, item), list, c, item)
  BY <1>6, <1>7, InsertAtPlaces, Zenon
<1> QED BY <1>1, <1>6, <1>8, Zenon DEF n

\* The list stays in order; a new item, and no other, has been added.
LEMMA InsertKeepsOrder ==
  ASSUME NEW list \in Seq(PendingInterrupt), Sorted(list), NEW item \in PendingInterrupt,
         NEW new, new = SortedInsert(list, item)
  PROVE  /\ new \in Seq(PendingInterrupt) /\ Sorted(new)
         /\ \A i \in DOMAIN new : new[i] = item \/ \E j \in DOMAIN list : new[i] = list[j]
<1>1. PICK c \in 0 .. Len(list) :
            /\ InsertedAt(new, list, c, item)
            /\ \A i \in 1 .. Len(list) : list[i].when <= item.when <=> i <= c
  BY Inserted, Zenon
<1> DEFINE n == Len(list)
<1>2. /\ n \in Nat /\ c \in 0 .. n /\ DOMAIN list = 1 .. n
      /\ \A i \in 1 .. n : list[i] \in PendingInterrupt
  OBVIOUS
<1>3. item.when \in Nat /\ \A i \in 1 .. n : list[i].when \in Nat
  BY <1>2 DEF PendingInterrupt
<1>4. new \in Seq(PendingInterrupt) /\ DOMAIN new = 1 .. n + 1
  BY <1>1 DEF InsertedAt
<1>5. /\ \A i \in 1 .. n + 1 : i <= c => new[i] = list[i]
      /\ new[c + 1] = item
      /\ \A i \in 1 .. n + 1 : i > c + 1 => new[i] = list[i - 1]
  BY <1>1, <1>2 DEF InsertedAt
<1>6. /\ \A i \in 1 .. n : i <= c => list[i].when <= item.when
      /\ \A i \in 1 .. n : i > c => item.when <= list[i].when
  BY <1>1, <1>2, <1>3
<1>7. \A i, j \in 1 .. n : i < j => list[i].when <= list[j].when
  BY <1>2 DEF Sorted
<1> HIDE DEF n
<1>8. ASSUME NEW i \in 1 .. n + 1, NEW j \in 1 .. n + 1, i < j
      PROVE  new[i].when <= new[j].when
  <2>1. CASE j <= c
    BY <1>2, <1>3, <1>5, <1>6, <1>7, <1>8, <2>1
  <2>2. CASE j = c + 1
    BY <1>2, <1>3, <1>5, <1>6, <1>7, <1>8, <2>2
  <2>3. CASE j > c + 1
    <3>1. j - 1 \in 1 .. n /\ new[j] = list[j - 1] /\ j - 1 > c
      BY <1>2, <1>5, <2>3
    <3>2. CASE i <= c
      <4>1. i \in 1 .. n /\ new[i] = list[i] /\ i < j - 1
        BY <1>2, <1>5, <3>1, <3>2
      <4> QED BY <1>7, <3>1, <4>1
    <3>3. CASE i = c + 1
      BY <1>2, <1>3, <1>5, <1>6, <1>7, <3>1, <3>3, Zenon
    <3>4. CASE i > c + 1
      <4>1. i - 1 \in 1 .. n /\ new[i] = list[i - 1] /\ i - 1 < j - 1
        BY <1>2, <1>5, <1>8, <3>4
      <4> QED BY <1>7, <3>1, <4>1
    <3> QED BY <1>2, <3>2, <3>3, <3>4
  <2> QED BY <1>2, <2>1, <2>2, <2>3
<1>9. ASSUME NEW i \in 1 .. n + 1
      PROVE  new[i] = item \/ \E j \in 1 .. n : new[i] = list[j]
  <2>1. CASE i <= c
    BY <1>2, <1>5, <2>1
  <2>2. CASE i = c + 1
    BY <1>5, <2>2
  <2>3. CASE i > c + 1
    <3>1. i - 1 \in 1 .. n /\ new[i] = list[i - 1]
      BY <1>2, <1>5, <2>3
    <3> QED BY <3>1
  <2> QED BY <1>2, <2>1, <2>2, <2>3
<1> QED BY <1>2, <1>4, <1>8, <1>9, Zenon DEF Sorted

-----------------------------------------------------------------------------
\* The queue of pending interrupts: in order, and none of them before the time t.
Queue(list, t) ==
    list \in Seq(PendingInterrupt) /\ Sorted(list) /\ \A i \in DOMAIN list : t <= list[i].when

\* An active disk has one interrupt in the queue, and another has none.
OneDisk(list, busy) ==
    IF busy THEN \E k \in DOMAIN list : Disks(list) = {k} ELSE Disks(list) = {}

\* How late a pending interrupt can be.
Earliest ==
    IF doing = "run" THEN totalTicks + 1
    ELSE IF doing = "tick" THEN totalTicks - SystemTick
    ELSE totalTicks

\* One thread is in P() while the interrupt for it, or the V of it, is there.
OneWaiting ==
    IF active \/ semaphore = 1 THEN \E t \in KernelThreads : Waiting = {t} ELSE Waiting = {}

\* The thread that runs is not in P().
Runs == doing \in {"run", "tick"} => at[currentThread] = "run"

ThreadTypes ==
    /\ at \in [KernelThreads -> {"run", "P", "done"}]
    /\ currentThread \in KernelThreads
    /\ readyList \in Seq(KernelThreads) /\ queue \in Seq(KernelThreads)
    /\ doing \in {"run", "tick", "switch", "others", "halted", "aborted"}

\* The semaphore, the disk and the threads.
OneRequestInv ==
    /\ ThreadTypes /\ Runs
    /\ active \in BOOLEAN /\ semaphore \in (IF active THEN {0} ELSE {0, 1})
    /\ OneWaiting

DevicesInv ==
    /\ totalTicks \in Nat /\ lastSector \in Sectors /\ bufferInit \in Nat
    /\ OneRequestInv
    /\ OneDisk(pending, active)
    /\ Queue(pending, Earliest)

\* A queue of interrupts from the time t on is one from each earlier time on.
LEMMA QueueEarlier ==
  ASSUME NEW list, NEW t \in Int, Queue(list, t)
  PROVE  /\ \A i \in DOMAIN list : list[i].when \in Nat /\ t <= list[i].when
         /\ \A u \in Int : u <= t => Queue(list, u)
<1>1. /\ list \in Seq(PendingInterrupt) /\ Sorted(list)
      /\ \A i \in DOMAIN list : t <= list[i].when
  BY Zenon DEF Queue
<1>2. \A i \in DOMAIN list : list[i] \in PendingInterrupt
  BY <1>1
<1>3. \A i \in DOMAIN list : list[i].when \in Nat
  BY <1>2 DEF PendingInterrupt
<1>4. ASSUME NEW u \in Int, u <= t, NEW i \in DOMAIN list PROVE u <= list[i].when
  BY <1>1, <1>3, <1>4
<1> QED BY <1>1, <1>3, <1>4, Zenon DEF Queue

\* Schedule puts an interrupt that is not before the time into the queue.
LEMMA ScheduleQueue ==
  ASSUME NEW list, NEW t \in Int, Queue(list, t), NEW now \in Nat, NEW n \in Nat,
         t <= now + n, NEW type \in {"TimerInt", "DiskInt"}
  PROVE  Queue(Schedule(list, now, n, type), t)
<1> DEFINE item == [when |-> now + n, type |-> type]
           new == SortedInsert(list, item)
<1>1. item \in PendingInterrupt /\ t <= item.when
  BY DEF PendingInterrupt
<1>2. list \in Seq(PendingInterrupt) /\ Sorted(list)
  BY Zenon DEF Queue
<1> HIDE DEF item, new
<1>3. new = SortedInsert(list, item)
  BY Zenon DEF new
<1>4. /\ new \in Seq(PendingInterrupt) /\ Sorted(new)
      /\ \A i \in DOMAIN new : new[i] = item \/ \E j \in DOMAIN list : new[i] = list[j]
  BY <1>1, <1>2, <1>3, InsertKeepsOrder
<1>5. \A i \in DOMAIN new : t <= new[i].when
  BY <1>1, <1>4, Zenon DEF Queue
<1>6. Schedule(list, now, n, type) = new
  BY Zenon DEF Schedule, new, item
<1> QED BY <1>4, <1>5, <1>6, Zenon DEF Queue

\* The interrupts of the disk after Schedule.
LEMMA ScheduleDisks ==
  ASSUME NEW list, NEW t \in Int, Queue(list, t), NEW busy \in BOOLEAN, OneDisk(list, busy),
         NEW now \in Nat, NEW n \in Nat, NEW type \in {"TimerInt", "DiskInt"},
         type = "DiskInt" => ~busy
  PROVE  OneDisk(Schedule(list, now, n, type), busy \/ type = "DiskInt")
<1> DEFINE item == [when |-> now + n, type |-> type]
           new == SortedInsert(list, item)
<1>1. item \in PendingInterrupt /\ item.type = type
  BY DEF PendingInterrupt
<1>2. list \in Seq(PendingInterrupt) /\ Sorted(list)
  BY Zenon DEF Queue
<1> HIDE DEF item, new
<1>3. PICK c \in 0 .. Len(list) : InsertedAt(new, list, c, item)
  BY <1>1, <1>2, Inserted, Zenon DEF new
<1>4. Len(list) \in Nat /\ DOMAIN list = 1 .. Len(list) /\ c \in Nat /\ c <= Len(list)
  BY <1>2
<1>5. DOMAIN new = 1 .. Len(list) + 1
  BY <1>3, <1>4 DEF InsertedAt
<1>6. /\ \A i \in 1 .. Len(list) + 1 : i <= c => new[i] = list[i]
      /\ new[c + 1] = item
      /\ \A i \in 1 .. Len(list) + 1 : i > c + 1 => new[i] = list[i - 1]
  BY <1>3, <1>4 DEF InsertedAt
<1>7. \A i \in DOMAIN new : i \in Disks(new) <=> IF i <= c THEN i \in Disks(list)
         ELSE IF i = c + 1 THEN type = "DiskInt" ELSE i - 1 \in Disks(list)
  <2>1. ASSUME NEW i \in 1 .. Len(list) + 1, i <= c
        PROVE  i \in Disks(new) <=> i \in Disks(list)
    BY <1>4, <1>5, <1>6, <2>1 DEF Disks
  <2>2. c + 1 \in Disks(new) <=> type = "DiskInt"
    BY <1>1, <1>4, <1>5, <1>6 DEF Disks
  <2>3. ASSUME NEW i \in 1 .. Len(list) + 1, i > c + 1
        PROVE  i \in Disks(new) <=> i - 1 \in Disks(list)
    BY <1>4, <1>5, <1>6, <2>3 DEF Disks
  <2> QED BY <1>4, <1>5, <2>1, <2>2, <2>3
<1>8. Schedule(list, now, n, type) = new
  BY Zenon DEF Schedule, new, item
<1>9. Disks(new) \subseteq DOMAIN new
  BY Zenon DEF Disks
<1>10. CASE busy
  <2>1. PICK k \in DOMAIN list : Disks(list) = {k}
    BY <1>10, Zenon DEF OneDisk
  <2> DEFINE m == IF k <= c THEN k ELSE k + 1
  <2>2. m \in DOMAIN new /\ type # "DiskInt"
    BY <1>4, <1>5, <1>10
  <2>3. \A i \in DOMAIN new : i \in Disks(new) <=> i = m
    BY <1>4, <1>5, <1>7, <2>1, <2>2
  <2> HIDE DEF m
  <2>4. Disks(new) = {m}
    BY <1>9, <2>2, <2>3, Zenon
  <2> QED BY <1>8, <1>10, <2>2, <2>4, Zenon DEF OneDisk
<1>11. CASE ~busy /\ type = "DiskInt"
  <2>1. Disks(list) = {}
    BY <1>11, Zenon DEF OneDisk
  <2>2. c + 1 \in DOMAIN new
    BY <1>4, <1>5
  <2>3. \A i \in DOMAIN new : i \in Disks(new) <=> i = c + 1
    BY <1>4, <1>5, <1>7, <1>11, <2>1
  <2>4. Disks(new) = {c + 1}
    BY <1>9, <2>2, <2>3, Zenon
  <2> QED BY <1>8, <1>11, <2>2, <2>4, Zenon DEF OneDisk
<1>12. CASE ~busy /\ type # "DiskInt"
  <2>1. Disks(list) = {}
    BY <1>12, Zenon DEF OneDisk
  <2>2. \A i \in DOMAIN new : i \notin Disks(new)
    BY <1>7, <1>12, <2>1, Zenon
  <2>3. Disks(new) = {}
    BY <1>9, <2>2, Zenon
  <2> QED BY <1>8, <1>12, <2>3, Zenon DEF OneDisk
<1> QED BY <1>10, <1>11, <1>12, Zenon

\* The first of the queue is the earliest, and what is behind it is a queue.
LEMMA HeadFirst ==
  ASSUME NEW list, NEW t \in Int, Queue(list, t), list # <<>>
  PROVE  /\ Head(list) \in PendingInterrupt /\ t <= Head(list).when
         /\ Queue(list, Head(list).when)
         /\ Queue(Tail(list), t) /\ Queue(Tail(list), Head(list).when)
<1>1. list \in Seq(PendingInterrupt) /\ Sorted(list) /\ \A i \in DOMAIN list : t <= list[i].when
  BY Zenon DEF Queue
<1>2. /\ Len(list) \in Nat \ {0} /\ DOMAIN list = 1 .. Len(list)
      /\ Head(list) = list[1] /\ Head(list) \in PendingInterrupt
  BY <1>1
<1>3. /\ Tail(list) \in Seq(PendingInterrupt) /\ DOMAIN Tail(list) = 1 .. Len(list) - 1
      /\ \A i \in 1 .. Len(list) - 1 : Tail(list)[i] = list[i + 1] /\ i + 1 \in DOMAIN list
  BY <1>1, <1>2
<1>4. \A i \in DOMAIN list : list[i].when \in Nat
  <2>1. \A i \in DOMAIN list : list[i] \in PendingInterrupt
    BY <1>1, <1>2
  <2> QED BY <2>1 DEF PendingInterrupt
<1>5. \A i \in DOMAIN list : Head(list).when <= list[i].when
  BY <1>1, <1>2, <1>4 DEF Sorted
<1>6. Sorted(Tail(list))
  <2> SUFFICES ASSUME NEW i \in 1 .. Len(list) - 1, NEW j \in 1 .. Len(list) - 1, i < j
               PROVE  Tail(list)[i].when <= Tail(list)[j].when
    BY <1>3, Zenon DEF Sorted
  <2>1. i + 1 < j + 1
    BY <1>2
  <2>2. list[i + 1].when <= list[j + 1].when
    BY <1>1, <1>3, <2>1, Zenon DEF Sorted
  <2> QED BY <1>3, <2>2, Zenon
<1>7. \A i \in DOMAIN Tail(list) :
         t <= Tail(list)[i].when /\ Head(list).when <= Tail(list)[i].when
  BY <1>1, <1>3, <1>5, Zenon
<1>8. t <= Head(list).when
  BY <1>1, <1>2
<1> QED BY <1>1, <1>2, <1>3, <1>5, <1>6, <1>7, <1>8, Zenon DEF Queue

\* The interrupts of the disk behind the first of the queue.
LEMMA TailDisks ==
  ASSUME NEW list, NEW t \in Int, Queue(list, t), list # <<>>,
         NEW busy \in BOOLEAN, OneDisk(list, busy)
  PROVE  /\ Head(list).type = "DiskInt" => busy /\ OneDisk(Tail(list), FALSE)
         /\ Head(list).type = "TimerInt" => OneDisk(Tail(list), busy)
<1>1. list \in Seq(PendingInterrupt)
  BY Zenon DEF Queue
<1>2. /\ Len(list) \in Nat \ {0} /\ DOMAIN list = 1 .. Len(list)
      /\ Head(list) = list[1] /\ 1 \in DOMAIN list
  BY <1>1
<1>3. /\ DOMAIN Tail(list) = 1 .. Len(list) - 1
      /\ \A i \in 1 .. Len(list) - 1 : Tail(list)[i] = list[i + 1] /\ i + 1 \in DOMAIN list
  BY <1>1, <1>2
<1>4. /\ \A i \in 1 .. Len(list) - 1 : i \in Disks(Tail(list)) <=> i + 1 \in Disks(list)
      /\ 1 \in Disks(list) <=> Head(list).type = "DiskInt"
      /\ Disks(Tail(list)) \subseteq 1 .. Len(list) - 1
  BY <1>2, <1>3, Zenon DEF Disks
<1>5. CASE busy
  <2>1. PICK k \in DOMAIN list : Disks(list) = {k}
    BY <1>5, Zenon DEF OneDisk
  <2>2. CASE Head(list).type = "DiskInt"
    <3>1. k = 1
      BY <1>4, <2>1, <2>2
    <3>2. \A i \in 1 .. Len(list) - 1 : i \notin Disks(Tail(list))
      BY <1>2, <1>4, <2>1, <3>1
    <3>3. Disks(Tail(list)) = {}
      BY <1>4, <3>2, Zenon
    <3> QED BY <1>5, <2>2, <3>3 DEF OneDisk
  <2>3. CASE Head(list).type = "TimerInt"
    <3>1. k # 1
      BY <1>4, <2>1, <2>3
    <3>2. k - 1 \in 1 .. Len(list) - 1
      BY <1>2, <3>1
    <3>3. \A i \in 1 .. Len(list) - 1 : i \in Disks(Tail(list)) <=> i = k - 1
      BY <1>2, <1>4, <2>1
    <3>4. Disks(Tail(list)) = {k - 1}
      BY <1>4, <3>2, <3>3, Zenon
    <3>5. OneDisk(Tail(list), TRUE)
      BY <1>3, <3>2, <3>4, Zenon DEF OneDisk
    <3> QED BY <1>5, <2>3, <3>5, Zenon
  <2> QED BY <2>2, <2>3, Zenon
<1>6. CASE ~busy
  <2>1. Disks(list) = {}
    BY <1>6, Zenon DEF OneDisk
  <2>2. Disks(Tail(list)) = {} /\ Head(list).type # "DiskInt"
    BY <1>4, <2>1, Zenon
  <2> QED BY <1>6, <2>2, Zenon DEF OneDisk
<1> QED BY <1>5, <1>6, Zenon

-----------------------------------------------------------------------------
\* ComputeLatency and UpdateLast count ticks.
LEMMA LatencyType ==
  ASSUME NEW now \in Nat, NEW last \in Sectors, NEW init \in Nat, NEW sector \in Sectors,
         NEW writing \in BOOLEAN
  PROVE  /\ ComputeLatency(now, last, init, sector, writing) \in Nat
         /\ BufferInit(now, last, init, sector) \in Nat
<1>1. /\ SectorsPerTrack \in Nat \ {0} /\ NumTracks \in Nat \ {0}
      /\ SeekTime \in Nat \ {0} /\ RotationTime \in Nat \ {0}
  BY DiskAssumption
<1>2. SectorsPerTrack * NumTracks \in Nat
  BY <1>1
<1>3. sector \in Nat /\ last \in Nat
  BY <1>2 DEF Sectors
<1> DEFINE seek == abs(Track(sector) - Track(last)) * SeekTime
           over == (now + seek) % RotationTime
           rotation == IF over > 0 THEN RotationTime - over ELSE 0
<1>4. seek \in Nat
  <2>1. Track(sector) \in Int /\ Track(last) \in Int
    BY <1>1, <1>3 DEF Track
  <2>2. abs(Track(sector) - Track(last)) \in Nat
    BY <2>1 DEF abs
  <2> QED BY <1>1, <2>2
<1> HIDE DEF seek
<1>5. over \in 0 .. RotationTime - 1
  BY <1>1, <1>4
<1> HIDE DEF over
<1>6. rotation \in Nat
  BY <1>1, <1>5
<1> HIDE DEF rotation
<1>7. TimeToSeek(now, last, sector) = [seek |-> seek, rotation |-> rotation]
  BY Zenon DEF TimeToSeek, seek, over, rotation
<1>8. TimeToSeek(now, last, sector).seek = seek /\ TimeToSeek(now, last, sector).rotation = rotation
  BY <1>7
<1>9. ASSUME NEW from \in Int PROVE ModuloDiff(sector, from) \in Nat
  <2>1. sector % SectorsPerTrack \in Int /\ from % SectorsPerTrack \in Int
    BY <1>1, <1>3
  <2> DEFINE d == ((sector % SectorsPerTrack) - (from % SectorsPerTrack)) + SectorsPerTrack
  <2>2. d \in Int
    BY <1>1, <2>1
  <2> HIDE DEF d
  <2>3. d % SectorsPerTrack \in Nat
    BY <1>1, <2>2
  <2> QED BY <2>3, Zenon DEF ModuloDiff, d
<1> DEFINE after == now + seek + rotation
           diff == ModuloDiff(sector, after \div RotationTime)
<1>10. after \in Nat /\ after \div RotationTime \in Int
  BY <1>1, <1>4, <1>6
<1>11. diff \in Nat
  BY <1>9, <1>10, Zenon
<1> HIDE DEF after, diff
<1>12. diff * RotationTime \in Nat
  BY <1>1, <1>11
<1>13. seek + rotation + RotationTime + diff * RotationTime \in Nat
  BY <1>1, <1>4, <1>6, <1>12
<1>14. \/ ComputeLatency(now, last, init, sector, writing) = RotationTime
       \/ ComputeLatency(now, last, init, sector, writing)
             = seek + rotation + RotationTime + diff * RotationTime
  BY <1>8, Zenon DEF ComputeLatency, after, diff
<1>15. \/ BufferInit(now, last, init, sector) = after
       \/ BufferInit(now, last, init, sector) = init
  BY <1>8, Zenon DEF BufferInit, after
<1>16. ComputeLatency(now, last, init, sector, writing) \in Nat
  BY <1>1, <1>13, <1>14, Zenon
<1> QED BY <1>10, <1>15, <1>16, Zenon

-----------------------------------------------------------------------------
\* CheckIfDue delivers the first of the queue: the timer schedules its next
\* interrupt, and the disk is free again.
LEMMA FireStep ==
  ASSUME DevicesInv, NEW now \in Nat, NEW t \in Int, t <= now,
         pending # <<>>, Queue(Tail(pending), t), Fire(now)
  PROVE  /\ totalTicks' = now /\ lastSector' = lastSector /\ bufferInit' = bufferInit
         /\ Queue(pending', t) /\ OneDisk(pending', active')
         /\ \/ active' = active /\ UNCHANGED threadVars
            \/ active /\ active' = FALSE /\ V
<1>1. active \in BOOLEAN /\ OneDisk(pending, active) /\ Queue(pending, Earliest)
  BY Zenon DEF DevicesInv, OneRequestInv
<1>2. Earliest \in Int
  BY DevicesAssumption DEF DevicesInv, Earliest
<1>3. Head(pending) \in PendingInterrupt
  BY <1>1, <1>2, HeadFirst, Zenon
<1>4. Head(pending).type \in {"TimerInt", "DiskInt"}
  BY <1>3 DEF PendingInterrupt
<1>5. /\ Head(pending).type = "DiskInt" => active /\ OneDisk(Tail(pending), FALSE)
      /\ Head(pending).type = "TimerInt" => OneDisk(Tail(pending), active)
  BY <1>1, <1>2, TailDisks, Zenon
<1>6. CASE Head(pending).type = "TimerInt"
  <2>1. totalTicks' = now /\ TimerExpired(Tail(pending), now)
    BY <1>6, Zenon DEF Fire
  <2>2. PICK n \in TimeOfNextInterrupt : pending' = Schedule(Tail(pending), now, n, "TimerInt")
    BY <2>1, Zenon DEF TimerExpired
  <2>3. n \in Nat /\ t <= now + n
    <3>1. 2 * TimerTicks \in Nat
      BY DevicesAssumption
    <3>2. n \in Nat
      BY <2>2, <3>1 DEF TimeOfNextInterrupt
    <3> QED BY <3>2
  <2>4. Queue(pending', t)
    BY <2>2, <2>3, ScheduleQueue
  <2>5. OneDisk(pending', active)
    <3>1. OneDisk(Schedule(Tail(pending), now, n, "TimerInt"), active \/ "TimerInt" = "DiskInt")
      BY <1>1, <1>5, <1>6, <2>3, ScheduleDisks
    <3>2. (active \/ "TimerInt" = "DiskInt") = active
      BY <1>1
    <3> QED BY <2>2, <3>1, <3>2
  <2>6. /\ active' = active /\ UNCHANGED threadVars
        /\ lastSector' = lastSector /\ bufferInit' = bufferInit
    BY <2>1, Zenon DEF TimerExpired, diskVars
  <2> QED BY <2>1, <2>4, <2>5, <2>6, Zenon
<1>7. CASE Head(pending).type = "DiskInt"
  <2>1. totalTicks' = now /\ RequestDone(Tail(pending))
    BY <1>7, Zenon DEF Fire
  <2>2. /\ pending' = Tail(pending) /\ active' = FALSE /\ V
        /\ lastSector' = lastSector /\ bufferInit' = bufferInit
    BY <2>1, Zenon DEF RequestDone
  <2> QED BY <1>5, <1>7, <2>1, <2>2, Zenon
<1> QED BY <1>4, <1>6, <1>7, Zenon

\* What DevicesInv says, fact by fact.
LEMMA DevicesFacts ==
  ASSUME DevicesInv
  PROVE  /\ totalTicks \in Nat /\ SystemTick \in Nat /\ OneRequestInv /\ Earliest \in Int
         /\ OneDisk(pending, active) /\ Queue(pending, Earliest)
<1>1. totalTicks \in Nat /\ SystemTick \in Nat
  BY DevicesAssumption DEF DevicesInv
<1>2. Earliest \in Int
  BY <1>1 DEF Earliest
<1> QED BY <1>1, <1>2, Zenon DEF DevicesInv

\* The handler of the disk's interrupt answers the thread that waits; that of
\* the timer changes nothing of this.
LEMMA FireThreads ==
  ASSUME OneRequestInv, doing' \in {"tick", "others"}, doing' = "tick" => doing = "tick",
         \/ active' = active /\ UNCHANGED threadVars
         \/ active /\ active' = FALSE /\ V
  PROVE  OneRequestInv'
<1>1. /\ active \in BOOLEAN /\ semaphore \in (IF active THEN {0} ELSE {0, 1}) /\ OneWaiting
      /\ readyList \in Seq(KernelThreads) /\ queue \in Seq(KernelThreads)
      /\ at \in [KernelThreads -> {"run", "P", "done"}] /\ currentThread \in KernelThreads
  BY Zenon DEF OneRequestInv, ThreadTypes
<1>2. at' = at /\ currentThread' = currentThread
  BY Zenon DEF threadVars, V
<1>3. Waiting' = Waiting /\ Runs'
  BY <1>2, Zenon DEF Waiting, Runs, OneRequestInv
<1>4. readyList' \in Seq(KernelThreads) /\ queue' \in Seq(KernelThreads)
  <2>1. CASE UNCHANGED threadVars
    BY <1>1, <2>1, Zenon DEF threadVars
  <2>2. CASE V
    <3>1. CASE queue = <<>>
      BY <1>1, <2>2, <3>1, Zenon DEF V
    <3>2. CASE queue # <<>>
      <4>1. queue' = Tail(queue) /\ readyList' = Append(readyList, Head(queue))
        BY <2>2, <3>2, Zenon DEF V
      <4> QED BY <1>1, <3>2, <4>1
    <3> QED BY <3>1, <3>2, Zenon
  <2> QED BY <2>1, <2>2, Zenon
<1>5. ThreadTypes'
  BY <1>1, <1>2, <1>4, Zenon DEF ThreadTypes
<1>6. /\ active' \in BOOLEAN /\ semaphore' \in (IF active' THEN {0} ELSE {0, 1})
      /\ (active' \/ semaphore' = 1) <=> (active \/ semaphore = 1)
  <2>1. CASE active' = active /\ UNCHANGED threadVars
    BY <1>1, <2>1, Zenon DEF threadVars
  <2>2. CASE active /\ active' = FALSE /\ V
    <3>1. semaphore = 0 /\ semaphore' = semaphore + 1
      BY <1>1, <2>2, Zenon DEF V
    <3>2. semaphore' = 1
      BY <3>1
    <3> QED BY <2>2, <3>2, Zenon
  <2> QED BY <2>1, <2>2, Zenon
<1>7. OneWaiting'
  BY <1>1, <1>3, <1>6, Zenon DEF OneWaiting
<1> QED BY <1>3, <1>5, <1>6, <1>7, Zenon DEF OneRequestInv

\* An interrupt delivered while a thread runs.
LEMMA TickFireStep ==
  ASSUME DevicesInv, TickFire
  PROVE  DevicesInv' /\ totalTicks' - Head(pending).when \in 0 .. SystemTick
<1>1. /\ doing = "tick" /\ doing' = "tick" /\ pending # <<>> /\ Head(pending).when <= totalTicks
      /\ Fire(totalTicks)
  BY Zenon DEF TickFire, IsDue
<1>2. Earliest = totalTicks - SystemTick /\ totalTicks \in Nat /\ SystemTick \in Nat
  BY <1>1, DevicesFacts DEF Earliest
<1>4. /\ Head(pending) \in PendingInterrupt /\ Earliest <= Head(pending).when
      /\ Queue(Tail(pending), Earliest)
  BY <1>1, DevicesFacts, HeadFirst, Zenon
<1>5. Head(pending).when \in Nat
  BY <1>4 DEF PendingInterrupt
<1>6. Earliest \in Int /\ Earliest <= totalTicks
  BY <1>2
<1>7. /\ totalTicks' = totalTicks /\ lastSector' = lastSector /\ bufferInit' = bufferInit
      /\ Queue(pending', Earliest) /\ OneDisk(pending', active')
      /\ \/ active' = active /\ UNCHANGED threadVars
         \/ active /\ active' = FALSE /\ V
  BY <1>1, <1>2, <1>4, <1>6, FireStep, Zenon
<1>8. Earliest' = Earliest
  BY <1>1, <1>7, Zenon DEF Earliest
<1>9. OneRequestInv'
  BY <1>1, <1>7, DevicesFacts, FireThreads, Zenon
<1>10. DevicesInv'
  BY <1>2, <1>7, <1>8, <1>9, Zenon DEF DevicesInv
<1>11. totalTicks' - Head(pending).when \in 0 .. SystemTick
  BY <1>1, <1>2, <1>4, <1>5, <1>7
<1> QED BY <1>10, <1>11, Zenon

\* An interrupt delivered while all threads sleep comes on time.
LEMMA IdleFireStep ==
  ASSUME DevicesInv, IdleFire \/ OthersFire
  PROVE  DevicesInv' /\ totalTicks' = Head(pending).when
<1>1. doing \in {"switch", "others"} /\ doing' = "others" /\ pending # <<>>
  BY Zenon DEF IdleFire, OthersFire, IsDue, Idle
<1>2. Earliest = totalTicks /\ totalTicks \in Nat
  BY <1>1, DevicesFacts DEF Earliest
<1> DEFINE now == Head(pending).when
<1>3. /\ Head(pending) \in PendingInterrupt /\ totalTicks <= now /\ Queue(Tail(pending), now)
  BY <1>1, <1>2, DevicesFacts, HeadFirst, Zenon
<1>4. now \in Nat
  BY <1>3 DEF PendingInterrupt
<1>5. Fire(now)
  <2>1. IsDue => now = totalTicks
    BY <1>2, <1>3, <1>4 DEF IsDue
  <2>2. CASE IdleFire
    BY <2>1, <2>2, Zenon DEF IdleFire
  <2>3. CASE OthersFire
    BY <2>1, <2>3, Zenon DEF OthersFire
  <2> QED BY <2>2, <2>3, Zenon
<1> HIDE DEF now
<1>6. now \in Int /\ now <= now
  BY <1>4
<1>7. /\ totalTicks' = now /\ lastSector' = lastSector /\ bufferInit' = bufferInit
      /\ Queue(pending', now) /\ OneDisk(pending', active')
      /\ \/ active' = active /\ UNCHANGED threadVars
         \/ active /\ active' = FALSE /\ V
  BY <1>1, <1>3, <1>4, <1>5, <1>6, FireStep, Zenon
<1>8. Earliest' = now
  BY <1>1, <1>4, <1>7 DEF Earliest
<1>9. OneRequestInv'
  BY <1>1, <1>7, DevicesFacts, FireThreads
<1>10. DevicesInv'
  BY <1>4, <1>7, <1>8, <1>9, Zenon DEF DevicesInv
<1> QED BY <1>7, <1>10, Zenon DEF now

\* Time does not go on while threads are switched, and a queue without overdue
\* interrupts has none a moment later.
LEMMA ClockStep ==
  ASSUME DevicesInv, OneRequestInv', pending' = pending, active' = active,
         lastSector' = lastSector, bufferInit' = bufferInit,
         \/ /\ doing = "run" /\ doing' = "tick" /\ totalTicks' = totalTicks + SystemTick
         \/ /\ doing = "switch" /\ doing' = "tick" /\ totalTicks' = totalTicks + SystemTick
         \/ /\ doing \in {"run", "switch", "others"}
            /\ doing' \in {"switch", "aborted"} /\ totalTicks' = totalTicks
         \/ doing' = doing /\ totalTicks' = totalTicks
  PROVE  DevicesInv'
<1>1. /\ totalTicks \in Nat /\ SystemTick \in Nat /\ Earliest \in Int
      /\ OneDisk(pending, active) /\ Queue(pending, Earliest)
  BY DevicesFacts, Zenon
<1>2. totalTicks' \in Nat /\ Earliest' \in Int /\ Earliest' <= Earliest
  BY <1>1 DEF Earliest
<1>3. Queue(pending, Earliest')
  BY <1>1, <1>2, QueueEarlier, Zenon
<1> QED BY <1>1, <1>2, <1>3, Zenon DEF DevicesInv

\* CheckIfDue finds nothing more that is due.
LEMMA TickEndStep ==
  ASSUME DevicesInv, TickEnd
  PROVE  DevicesInv'
<1>1. /\ doing = "tick" /\ ~IsDue /\ doing' \in {"run", "switch"} /\ totalTicks' = totalTicks
      /\ pending' = pending /\ active' = active
      /\ lastSector' = lastSector /\ bufferInit' = bufferInit
      /\ semaphore' = semaphore /\ queue' = queue /\ at' = at /\ currentThread' = currentThread
      /\ readyList' \in {readyList, Append(readyList, currentThread)}
  BY Zenon DEF TickEnd, Rest, diskVars
<1>2. totalTicks \in Nat /\ Earliest \in Int /\ OneRequestInv
  BY DevicesFacts, Zenon
<1>3. OneRequestInv'
  <2>1. Waiting' = Waiting /\ (OneWaiting <=> OneWaiting')
    BY <1>1, Zenon DEF Waiting, OneWaiting
  <2>2. readyList' \in Seq(KernelThreads)
    BY <1>1, <1>2 DEF OneRequestInv, ThreadTypes
  <2>3. ThreadTypes'
    BY <1>1, <1>2, <2>2, Zenon DEF OneRequestInv, ThreadTypes
  <2>4. Runs'
    BY <1>1, <1>2, Zenon DEF OneRequestInv, Runs
  <2> QED BY <1>1, <1>2, <2>1, <2>3, <2>4, Zenon DEF OneRequestInv
<1>4. Earliest' = totalTicks \/ Earliest' = totalTicks + 1
  BY <1>1 DEF Earliest
<1>5. \A i \in DOMAIN pending : pending[i].when \in Nat /\ totalTicks + 1 <= pending[i].when
  <2>1. CASE pending = <<>>
    BY <2>1
  <2>2. CASE pending # <<>>
    <3>1. Head(pending) \in PendingInterrupt /\ Queue(pending, Head(pending).when)
      BY <1>2, <2>2, DevicesFacts, HeadFirst, Zenon
    <3>2. Head(pending).when \in Nat /\ ~(Head(pending).when <= totalTicks)
      BY <1>1, <2>2, <3>1 DEF IsDue, PendingInterrupt
    <3>3. \A i \in DOMAIN pending :
             pending[i].when \in Nat /\ Head(pending).when <= pending[i].when
      BY <3>1, <3>2, QueueEarlier
    <3> QED BY <1>2, <3>2, <3>3
  <2> QED BY <2>1, <2>2, Zenon
<1>6. \A i \in DOMAIN pending :
         totalTicks <= pending[i].when /\ totalTicks + 1 <= pending[i].when
  BY <1>2, <1>5
<1>7. Queue(pending, Earliest')
  BY <1>4, <1>6, DevicesFacts, Zenon DEF Queue
<1> QED BY <1>1, <1>2, <1>3, <1>7, DevicesFacts, Zenon DEF DevicesInv

\* The next thread: it goes on, with the V it finds if it is in P(), or sleeps
\* again.
LEMMA SwitchStep ==
  ASSUME DevicesInv, Resume \/ SleepAgain
  PROVE  DevicesInv'
<1> DEFINE t == Head(readyList)
<1>1. /\ doing = "switch" /\ readyList # <<>> /\ currentThread' = t /\ readyList' = Tail(readyList)
      /\ pending' = pending /\ active' = active
      /\ lastSector' = lastSector /\ bufferInit' = bufferInit
  BY Zenon DEF Resume, SleepAgain, Rest, diskVars, clock
<1>2. OneRequestInv /\ ThreadTypes /\ active \in BOOLEAN /\ OneWaiting
  BY DevicesFacts, Zenon DEF OneRequestInv
<1>3. /\ at \in [KernelThreads -> {"run", "P", "done"}] /\ queue \in Seq(KernelThreads)
      /\ readyList \in Seq(KernelThreads)
  BY <1>2, Zenon DEF ThreadTypes
<1>4. t \in KernelThreads /\ readyList' \in Seq(KernelThreads)
  BY <1>1, <1>3
<1> HIDE DEF t
<1>5. CASE Resume
  <2>1. /\ at[t] = "P" => semaphore # 0
        /\ semaphore' = IF at[t] = "P" THEN semaphore - 1 ELSE semaphore
        /\ at' = [at EXCEPT ![t] = "run"] /\ queue' = queue
        /\ doing' = "tick" /\ totalTicks' = totalTicks + SystemTick
    BY <1>5, Zenon DEF Resume, t
  <2>2. /\ at' \in [KernelThreads -> {"run", "P", "done"}] /\ at'[t] = "run"
        /\ \A u \in KernelThreads : u # t => at'[u] = at[u]
    BY <1>3, <1>4, <2>1
  <2>3. Waiting' = Waiting \ {t}
    BY <2>2, <1>4 DEF Waiting
  <2>4. /\ semaphore' \in (IF active' THEN {0} ELSE {0, 1})
        /\ OneWaiting'
    <3>1. CASE at[t] = "P"
      <4>1. semaphore = 1 /\ ~active
        BY <1>2, <2>1, <3>1, Zenon DEF OneRequestInv
      <4>2. semaphore' = 0
        BY <2>1, <3>1, <4>1
      <4>3. t \in Waiting
        BY <1>4, <3>1, Zenon DEF Waiting
      <4>4. Waiting' = {}
        BY <1>2, <2>3, <4>1, <4>3, Zenon DEF OneWaiting
      <4>5. semaphore' # 1
        BY <4>2
      <4> QED BY <1>1, <4>1, <4>2, <4>4, <4>5, Zenon DEF OneWaiting
    <3>2. CASE at[t] # "P"
      <4>1. semaphore' = semaphore
        BY <2>1, <3>2, Zenon
      <4>2. Waiting' = Waiting
        <5>1. t \notin Waiting
          BY <3>2, Zenon DEF Waiting
        <5> QED BY <2>3, <5>1, Zenon
      <4> QED BY <1>1, <1>2, <4>1, <4>2, Zenon DEF OneWaiting, OneRequestInv
    <3> QED BY <3>1, <3>2, Zenon
  <2>5. ThreadTypes' /\ Runs'
    BY <1>1, <1>3, <1>4, <2>1, <2>2, Zenon DEF ThreadTypes, Runs
  <2>6. OneRequestInv'
    BY <1>1, <1>2, <2>4, <2>5, Zenon DEF OneRequestInv
  <2> QED BY <1>1, <2>1, <2>6, ClockStep, Zenon
<1>6. CASE SleepAgain
  <2>1. /\ queue' = Append(queue, t) /\ doing' = doing /\ semaphore' = semaphore /\ at' = at
        /\ totalTicks' = totalTicks
    BY <1>6, Zenon DEF SleepAgain, t, clock
  <2>2. queue' \in Seq(KernelThreads)
    BY <1>3, <1>4, <2>1
  <2>3. ThreadTypes' /\ Runs'
    BY <1>1, <1>2, <1>4, <2>1, <2>2 DEF ThreadTypes, Runs
  <2>4. Waiting' = Waiting
    BY <2>1, Zenon DEF Waiting
  <2>5. OneRequestInv'
    BY <1>1, <1>2, <2>1, <2>3, <2>4, Zenon DEF OneRequestInv, OneWaiting
  <2> QED BY <1>1, <2>1, <2>5, ClockStep, Zenon
<1> QED BY <1>5, <1>6, Zenon

\* The machine halts: nothing, or only the timer, is pending.
LEMMA IdleHaltStep ==
  ASSUME DevicesInv, IdleHalt
  PROVE  DevicesInv'
<1>1. /\ doing = "switch" /\ doing' = "halted"
      /\ \/ totalTicks' = totalTicks
         \/ pending # <<>> /\ totalTicks' = Head(pending).when
      /\ pending' = pending /\ active' = active /\ UNCHANGED threadVars
      /\ lastSector' = lastSector /\ bufferInit' = bufferInit
  BY Zenon DEF IdleHalt, Idle, Rest, diskVars
<1>2. Earliest = totalTicks /\ totalTicks \in Nat
  BY <1>1, DevicesFacts DEF Earliest
<1>3. totalTicks' \in Nat /\ Queue(pending, totalTicks')
  <2>1. CASE totalTicks' = totalTicks
    BY <1>2, <2>1, DevicesFacts
  <2>2. CASE pending # <<>> /\ totalTicks' = Head(pending).when
    <3>1. Head(pending) \in PendingInterrupt /\ Queue(pending, Head(pending).when)
      BY <2>2, DevicesFacts, HeadFirst, Zenon
    <3>2. Head(pending).when \in Nat
      BY <3>1 DEF PendingInterrupt
    <3> QED BY <2>2, <3>1, <3>2
  <2> QED BY <1>1, <2>1, <2>2, Zenon
<1>4. Earliest' = totalTicks'
  <2>1. doing' = "halted"
    BY <1>1, Zenon
  <2> QED BY <2>1 DEF Earliest
<1>5. OneRequestInv'
  <2>1. OneRequestInv
    BY DevicesFacts, Zenon
  <2>2. /\ semaphore' = semaphore /\ queue' = queue /\ at' = at
        /\ currentThread' = currentThread /\ readyList' = readyList
    BY <1>1, Zenon DEF threadVars
  <2>3. Waiting' = Waiting /\ (OneWaiting' <=> OneWaiting)
    BY <1>1, <2>2, Zenon DEF Waiting, OneWaiting
  <2>4. ThreadTypes' /\ Runs'
    BY <1>1, <2>1, <2>2, Zenon DEF OneRequestInv, ThreadTypes, Runs
  <2> QED BY <1>1, <2>1, <2>2, <2>3, <2>4, Zenon DEF OneRequestInv
<1> QED BY <1>1, <1>3, <1>4, <1>5, DevicesFacts, Zenon DEF DevicesInv

\* Steps that leave the threads where they are: a thread computes or fails the
\* assertion, Idle returns, the machine is off.
LEMMA PlainStep ==
  ASSUME DevicesInv, Compute \/ OthersEnd \/ AssertFails \/ UNCHANGED deviceVars
  PROVE  DevicesInv'
<1>1. /\ pending' = pending /\ active' = active /\ lastSector' = lastSector
      /\ bufferInit' = bufferInit
      /\ semaphore' = semaphore /\ queue' = queue /\ at' = at
      /\ currentThread' = currentThread /\ readyList' = readyList
      /\ \/ doing = "run" /\ doing' = "tick" /\ totalTicks' = totalTicks + SystemTick
         \/ /\ doing \in {"run", "switch", "others"}
            /\ doing' \in {"switch", "aborted"} /\ totalTicks' = totalTicks
         \/ doing' = doing /\ totalTicks' = totalTicks
  BY Zenon DEF Compute, OthersEnd, AssertFails, deviceVars, threadVars, Rest, diskVars, clock
<1>2. OneRequestInv
  BY DevicesFacts, Zenon
<1>3. Waiting' = Waiting /\ (OneWaiting' <=> OneWaiting)
  BY <1>1, Zenon DEF Waiting, OneWaiting
<1>4. ThreadTypes' /\ Runs'
  BY <1>1, <1>2, Zenon DEF OneRequestInv, ThreadTypes, Runs
<1>5. OneRequestInv'
  BY <1>1, <1>2, <1>3, <1>4, Zenon DEF OneRequestInv
<1> QED BY <1>1, <1>5, ClockStep, Zenon

\* The running thread ends.
LEMMA FinishStep ==
  ASSUME DevicesInv, Finish
  PROVE  DevicesInv'
<1>1. /\ pending' = pending /\ active' = active /\ lastSector' = lastSector
      /\ bufferInit' = bufferInit /\ totalTicks' = totalTicks
      /\ semaphore' = semaphore /\ queue' = queue
      /\ currentThread' = currentThread /\ readyList' = readyList
      /\ doing = "run" /\ doing' = "switch" /\ at' = [at EXCEPT ![currentThread] = "done"]
  BY Zenon DEF Finish, Rest, diskVars, clock
<1>2. OneRequestInv /\ ThreadTypes /\ Runs
  BY DevicesFacts, Zenon DEF OneRequestInv
<1>3. /\ at \in [KernelThreads -> {"run", "P", "done"}] /\ currentThread \in KernelThreads
      /\ at[currentThread] = "run"
  BY <1>1, <1>2, Zenon DEF ThreadTypes, Runs
<1>4. at' \in [KernelThreads -> {"run", "P", "done"}] /\ Waiting' = Waiting
  BY <1>1, <1>3 DEF Waiting
<1>5. OneWaiting' <=> OneWaiting
  BY <1>1, <1>4, Zenon DEF OneWaiting
<1>6. ThreadTypes' /\ Runs'
  BY <1>1, <1>2, <1>4, Zenon DEF ThreadTypes, Runs
<1>7. OneRequestInv'
  BY <1>1, <1>2, <1>5, <1>6, Zenon DEF OneRequestInv
<1> QED BY <1>1, <1>7, ClockStep, Zenon

\* The running thread asks the disk for a sector.
LEMMA RequestStep ==
  ASSUME DevicesInv, NEW sector \in Sectors, NEW writing \in BOOLEAN,
         ReadOrWriteSector(sector, writing)
  PROVE  DevicesInv'
<1> DEFINE ticks == ComputeLatency(totalTicks, lastSector, bufferInit, sector, writing)
<1>1. /\ doing = "run" /\ ~active /\ active' = TRUE
      /\ lastSector' = sector
      /\ bufferInit' = BufferInit(totalTicks, lastSector, bufferInit, sector)
      /\ pending' = Schedule(pending, totalTicks, ticks, "DiskInt")
      /\ currentThread' = currentThread /\ readyList' = readyList
  BY Zenon DEF ReadOrWriteSector, DiskRequest
<1>2. /\ ticks \in Nat /\ BufferInit(totalTicks, lastSector, bufferInit, sector) \in Nat
  BY LatencyType, Zenon DEF DevicesInv
<1> HIDE DEF ticks
<1>3. Earliest = totalTicks + 1 /\ totalTicks \in Nat /\ SystemTick \in Nat
  BY <1>1, DevicesFacts DEF Earliest
<1>4. /\ OneRequestInv /\ ThreadTypes /\ Runs /\ active \in BOOLEAN
      /\ semaphore \in {0, 1} /\ OneWaiting
  BY <1>1, DevicesFacts, Zenon DEF OneRequestInv
<1>5. Queue(pending, totalTicks)
  <2>1. totalTicks \in Int /\ totalTicks <= Earliest
    BY <1>3
  <2> QED BY <2>1, DevicesFacts, QueueEarlier, Zenon
<1>6. totalTicks \in Int /\ totalTicks <= totalTicks + ticks
  BY <1>2, <1>3
<1>7. Queue(pending', totalTicks)
  BY <1>1, <1>2, <1>3, <1>5, <1>6, ScheduleQueue
<1>8. OneDisk(pending', active')
  <2>1. OneDisk(Schedule(pending, totalTicks, ticks, "DiskInt"), active \/ "DiskInt" = "DiskInt")
    BY <1>1, <1>2, <1>3, <1>4, <1>5, <1>6, DevicesFacts, ScheduleDisks
  <2>2. (active \/ "DiskInt" = "DiskInt") = TRUE
    OBVIOUS
  <2> QED BY <1>1, <2>1, <2>2, Zenon
<1>9. CASE semaphore > 0
  <2>1. /\ semaphore' = semaphore - 1 /\ totalTicks' = totalTicks + SystemTick
        /\ doing' = "tick" /\ queue' = queue /\ at' = at
    BY <1>9, Zenon DEF ReadOrWriteSector
  <2>2. semaphore = 1 /\ semaphore' = 0
    BY <1>4, <1>9, <2>1
  <2>3. totalTicks' \in Nat /\ Earliest' = totalTicks
    BY <1>3, <2>1 DEF Earliest
  <2>4. Waiting' = Waiting
    BY <2>1, Zenon DEF Waiting
  <2>5. OneWaiting'
    BY <1>1, <1>4, <2>2, <2>4, Zenon DEF OneWaiting
  <2>6. ThreadTypes' /\ Runs'
    BY <1>1, <1>4, <2>1, Zenon DEF ThreadTypes, Runs
  <2>7. OneRequestInv'
    BY <1>1, <2>2, <2>5, <2>6, Zenon DEF OneRequestInv
  <2> QED BY <1>1, <1>2, <1>7, <1>8, <2>3, <2>7, Zenon DEF DevicesInv
<1>10. CASE ~(semaphore > 0)
  <2>1. /\ queue' = Append(queue, currentThread) /\ at' = [at EXCEPT ![currentThread] = "P"]
        /\ doing' = "switch" /\ semaphore' = semaphore /\ totalTicks' = totalTicks
    BY <1>10, Zenon DEF ReadOrWriteSector
  <2>2. semaphore = 0
    BY <1>4, <1>10
  <2>3. Earliest' = totalTicks
    BY <1>3, <2>1 DEF Earliest
  <2>4. /\ at \in [KernelThreads -> {"run", "P", "done"}] /\ currentThread \in KernelThreads
        /\ queue \in Seq(KernelThreads)
    BY <1>4, Zenon DEF ThreadTypes
  <2>5. Waiting = {}
    <3>1. ~(active \/ semaphore = 1)
      BY <1>1, <2>2
    <3> QED BY <1>4, <3>1, Zenon DEF OneWaiting
  <2>6. at' \in [KernelThreads -> {"run", "P", "done"}] /\ queue' \in Seq(KernelThreads)
    BY <2>1, <2>4
  <2>7. Waiting' = {currentThread}
    <3>1. \A u \in KernelThreads : at'[u] = "P" <=> u = currentThread
      BY <2>1, <2>4, <2>5 DEF Waiting
    <3> QED BY <2>4, <3>1 DEF Waiting
  <2>8. OneWaiting'
    BY <1>1, <2>4, <2>7, Zenon DEF OneWaiting
  <2>9. ThreadTypes' /\ Runs'
    BY <1>1, <1>4, <2>1, <2>6, Zenon DEF ThreadTypes, Runs
  <2>10. OneRequestInv'
    BY <1>1, <2>1, <2>2, <2>8, <2>9, Zenon DEF OneRequestInv
  <2> QED BY <1>1, <1>2, <1>3, <1>7, <1>8, <2>1, <2>3, <2>10, Zenon DEF DevicesInv
<1> QED BY <1>9, <1>10, Zenon

\* At the start of the machine at most the timer is pending.
LEMMA DevicesInitInv ==
  ASSUME DevicesInit
  PROVE  DevicesInv
<1>1. /\ totalTicks = 0 /\ doing = "run" /\ active = FALSE /\ lastSector = 0 /\ bufferInit = 0
      /\ semaphore = 0 /\ queue = <<>> /\ currentThread = 1
      /\ readyList = [i \in 1 .. NumThreads - 1 |-> i + 1]
      /\ at = [t \in KernelThreads |-> "run"]
  BY Zenon DEF DevicesInit
<1>2. lastSector \in Sectors
  <2>1. SectorsPerTrack \in Nat \ {0} /\ NumTracks \in Nat \ {0}
    BY DiskAssumption
  <2>2. SectorsPerTrack * NumTracks \in Nat \ {0}
    BY <2>1
  <2> QED BY <1>1, <2>2 DEF Sectors
<1>3. Queue(<<>>, 1) /\ OneDisk(<<>>, FALSE)
  BY DEF Queue, OneDisk, Disks, Sorted
<1>4. Queue(pending, 1) /\ OneDisk(pending, FALSE)
  <2>1. CASE pending = <<>>
    BY <1>3, <2>1, Zenon
  <2>2. ASSUME NEW n \in 1 .. 2 * TimerTicks, pending = Schedule(<<>>, 0, n, "TimerInt")
        PROVE  Queue(pending, 1) /\ OneDisk(pending, FALSE)
    <3>1. n \in Nat /\ 1 <= 0 + n /\ 0 \in Nat /\ 1 \in Int
      BY DevicesAssumption
    <3>2. Queue(pending, 1)
      BY <1>3, <2>2, <3>1, ScheduleQueue
    <3>3. OneDisk(Schedule(<<>>, 0, n, "TimerInt"), FALSE \/ "TimerInt" = "DiskInt")
      BY <1>3, <3>1, ScheduleDisks, Zenon
    <3>4. (FALSE \/ "TimerInt" = "DiskInt") = FALSE
      OBVIOUS
    <3> QED BY <2>2, <3>2, <3>3, <3>4, Zenon
  <2> QED BY <2>1, <2>2, Zenon DEF DevicesInit
<1>5. Earliest = 1
  BY <1>1 DEF Earliest
<1>6. OneRequestInv
  <2>1. currentThread \in KernelThreads /\ readyList \in Seq(KernelThreads)
    BY <1>1, DevicesAssumption DEF KernelThreads
  <2>2. /\ at \in [KernelThreads -> {"run", "P", "done"}] /\ queue \in Seq(KernelThreads)
        /\ at[currentThread] = "run" /\ Waiting = {}
    BY <1>1, <2>1 DEF Waiting
  <2>3. semaphore # 1
    BY <1>1
  <2> QED BY <1>1, <2>1, <2>2, <2>3, Zenon DEF OneRequestInv, ThreadTypes, Runs, OneWaiting
<1> QED BY <1>1, <1>2, <1>4, <1>5, <1>6, Zenon DEF DevicesInv

\* No step of the machine breaks the invariant.
LEMMA DevicesStep ==
  ASSUME DevicesInv, [DevicesNext]_deviceVars
  PROVE  DevicesInv'
<1>1. CASE Compute \/ OthersEnd \/ AssertFails \/ UNCHANGED deviceVars
  BY <1>1, PlainStep, Zenon
<1>2. CASE TickFire
  BY <1>2, TickFireStep, Zenon
<1>3. CASE IdleFire \/ OthersFire
  BY <1>3, IdleFireStep, Zenon
<1>4. CASE TickEnd
  BY <1>4, TickEndStep, Zenon
<1>5. CASE Resume \/ SleepAgain
  BY <1>5, SwitchStep, Zenon
<1>6. ASSUME NEW sector \in Sectors, NEW writing \in BOOLEAN, ReadOrWriteSector(sector, writing)
      PROVE  DevicesInv'
  BY <1>6, RequestStep, Zenon
<1>7. CASE Finish
  BY <1>7, FinishStep, Zenon
<1>8. CASE IdleHalt
  BY <1>8, IdleHaltStep, Zenon
<1> QED BY <1>1, <1>2, <1>3, <1>4, <1>5, <1>6, <1>7, <1>8, Zenon DEF DevicesNext, StayHalted

\* OneRequest, of every machine, any number of threads and every sequence of
\* requests: although nothing but ASSERT(!active) keeps a second thread from the
\* disk, each request has one interrupt and each thread in P() one V.
THEOREM OneRequestHolds == DevicesSpec => []OneRequest
<1>1. DevicesInit => DevicesInv
  BY DevicesInitInv
<1>2. DevicesInv /\ [DevicesNext]_deviceVars => DevicesInv'
  BY DevicesStep
<1>3. DevicesInv => OneRequest
  <2> SUFFICES ASSUME DevicesInv PROVE OneRequest
    OBVIOUS
  <2>1. OneDisk(pending, active)
    BY DevicesFacts, Zenon
  <2>2. semaphore \in (IF active THEN {0} ELSE {0, 1}) /\ OneWaiting
    BY DevicesFacts, Zenon DEF OneRequestInv
  <2> QED BY <2>1, <2>2, Zenon DEF OneRequest, OneWaiting, OneDisk, Disks
<1> QED BY <1>1, <1>2, <1>3, PTL DEF DevicesSpec

\* OnTime, of every machine and any number of threads: no interrupt comes
\* early, and none more than one enabling of interrupts late.
THEOREM OnTimeHolds == DevicesSpec => OnTime
<1> DEFINE Delivered ==
              /\ TickFire => totalTicks' - Head(pending).when \in 0 .. SystemTick
              /\ IdleFire \/ OthersFire => totalTicks' = Head(pending).when
<1>1. DevicesInit => DevicesInv
  BY DevicesInitInv
<1>2. DevicesInv /\ [DevicesNext]_deviceVars => DevicesInv'
  BY DevicesStep
<1>3. DevicesInv => NothingOverdue
  <2> SUFFICES ASSUME DevicesInv PROVE NothingOverdue
    OBVIOUS
  <2>1. \A i, j \in DOMAIN pending : i < j => pending[i].when <= pending[j].when
    <3>1. Sorted(pending)
      BY DevicesFacts, Zenon DEF Queue
    <3> QED BY <3>1, Zenon DEF Sorted
  <2>2. ASSUME doing = "run", NEW i \in DOMAIN pending PROVE pending[i].when > totalTicks
    <3>1. totalTicks \in Nat /\ Earliest = totalTicks + 1
      BY <2>2, DevicesFacts DEF Earliest
    <3>2. pending[i].when \in Nat /\ Earliest <= pending[i].when
      BY <2>2, DevicesFacts, QueueEarlier, Zenon
    <3> QED BY <3>1, <3>2
  <2> QED BY <2>1, <2>2, Zenon DEF NothingOverdue
<1>4. DevicesInv => Delivered
  BY TickFireStep, IdleFireStep, Zenon
<1> QED BY <1>1, <1>2, <1>3, <1>4, PTL DEF DevicesSpec, OnTime
=============================================================================
