------------------------------ MODULE SynchCons ------------------------------
(***************************************************************************)
(* The console: the device of machine/console.cc, which takes and gives    *)
(* one character at a time and interrupts, and the SynchConsole of         *)
(* threads/synchcons.cc, whose Read and Write let many threads share it.   *)
(* ReadInt, ReadChar, ReadString, PrintInt, PrintChar and PrintString of   *)
(* userprog/exception.cc each make one call of Read or Write.              *)
(*                                                                         *)
(* Semaphores obey SemContract; a step runs from one P() or V() to the     *)
(* next.                                                                   *)
(***************************************************************************)
EXTENDS Integers, Sequences

CONSTANTS
    Thread,        \* threads that use the console
    WriteLengths,  \* numBytes given to Write
    ReadLengths,   \* numBytes given to Read
    Typings        \* what the user may type: sequences of Char

\* A letter, newline (octal 012), control-A (001), and 255, which as a char
\* equals EOF.
Char == {"letter", "newline", "ctrlA", "EOF"}

ASSUME SynchConsAssumption ==
    /\ WriteLengths \subseteq Nat
    /\ ReadLengths \subseteq Nat
    /\ Typings \subseteq Seq(Char)

VARIABLES
    putBusy, incoming,                 \* Console
    keyboard,                          \* typed, not yet read by the device
    synchReadAvail, synchWriteAvail, RLineBlock, WLineBlock,   \* values
    pc, numBytes, loop,                \* the thread's call and its locals
    display,                           \* last character put: of which call, where
    typed,                             \* all that the user types
    taken                              \* characters Read got, with their places

device == <<putBusy, incoming, keyboard, typed>>
sems == <<synchReadAvail, synchWriteAvail, RLineBlock, WLineBlock>>
calls == <<pc, numBytes, loop>>
vars == <<device, sems, calls, display, taken>>

Place(t, k, n) == [who |-> t, at |-> k, of |-> n]
Got(t, k, n, c) == [who |-> t, at |-> k, of |-> n, char |-> c]

Init ==
    /\ putBusy = FALSE
    /\ incoming = "EOF"
    /\ typed \in Typings
    /\ keyboard = typed
    /\ synchReadAvail = 0
    /\ synchWriteAvail = 0
    /\ RLineBlock = 1
    /\ WLineBlock = 1
    /\ pc = [t \in Thread |-> "idle"]
    /\ numBytes = [t \in Thread |-> 0]
    /\ loop = [t \in Thread |-> 0]
    /\ display = <<>>
    /\ taken = <<>>

Goto(t, where) == pc' = [pc EXCEPT ![t] = where]

-----------------------------------------------------------------------------
(* Write(from, n) up to its first P(). *)
CallWrite(t, n) ==
    /\ pc[t] = "idle"
    /\ numBytes' = [numBytes EXCEPT ![t] = n]
    /\ loop' = [loop EXCEPT ![t] = 0]
    /\ Goto(t, "Write.P")
    /\ UNCHANGED <<device, sems, display, taken>>

\* Mutant of WriteLock: two threads may be in the loop.
WriteNoLock(t) ==
    /\ pc[t] = "Write.P"
    /\ Goto(t, "Write.loop")
    /\ UNCHANGED <<device, sems, numBytes, loop, display, taken>>

WriteLock(t) ==
    /\ pc[t] = "Write.P"
    /\ WLineBlock > 0
    /\ WLineBlock' = WLineBlock - 1
    /\ Goto(t, "Write.loop")
    /\ UNCHANGED <<device, synchReadAvail, synchWriteAvail, RLineBlock, numBytes,
                   loop, display, taken>>

(* Console::PutChar; its ASSERT(putBusy == FALSE) is PutWhenFree below. *)
PutChar(t) ==
    /\ pc[t] = "Write.loop"
    /\ loop[t] < numBytes[t]
    /\ putBusy' = TRUE
    /\ display' = <<Place(t, loop[t] + 1, numBytes[t])>>
    /\ Goto(t, "Write.wait")
    /\ UNCHANGED <<incoming, keyboard, typed, sems, numBytes, loop, taken>>

\* Mutant of WriteWait: the next character is put without waiting.
WriteNoWait(t) ==
    /\ pc[t] = "Write.wait"
    /\ loop' = [loop EXCEPT ![t] = @ + 1]
    /\ Goto(t, "Write.loop")
    /\ UNCHANGED <<device, sems, numBytes, display, taken>>

WriteWait(t) ==
    /\ pc[t] = "Write.wait"
    /\ synchWriteAvail > 0
    /\ synchWriteAvail' = synchWriteAvail - 1
    /\ loop' = [loop EXCEPT ![t] = @ + 1]
    /\ Goto(t, "Write.loop")
    /\ UNCHANGED <<device, synchReadAvail, RLineBlock, WLineBlock, numBytes,
                   display, taken>>

WriteReturn(t) ==
    /\ pc[t] = "Write.loop"
    /\ loop[t] = numBytes[t]
    /\ WLineBlock' = WLineBlock + 1
    /\ Goto(t, "idle")
    /\ UNCHANGED <<device, synchReadAvail, synchWriteAvail, RLineBlock, numBytes,
                   loop, display, taken>>

(* Console::WriteDone and SynchWriteFunct, at the interrupt. *)
WriteDone ==
    /\ putBusy
    /\ putBusy' = FALSE
    /\ synchWriteAvail' = synchWriteAvail + 1
    /\ UNCHANGED <<incoming, keyboard, typed, synchReadAvail, RLineBlock, WLineBlock,
                   calls, display, taken>>

-----------------------------------------------------------------------------
(* Read(into, n) up to its first P(). *)
CallRead(t, n) ==
    /\ pc[t] = "idle"
    /\ numBytes' = [numBytes EXCEPT ![t] = n]
    /\ loop' = [loop EXCEPT ![t] = 0]
    /\ Goto(t, "Read.P")
    /\ UNCHANGED <<device, sems, display, taken>>

\* The while condition, after the line was locked or k characters stored.
Continue(t, k) == IF k < numBytes[t] THEN "Read.wait" ELSE "Read.V"

\* Mutant of ReadLock: two threads may read characters of one line.
ReadNoLock(t) ==
    /\ pc[t] = "Read.P"
    /\ Goto(t, Continue(t, 0))
    /\ UNCHANGED <<device, sems, numBytes, loop, display, taken>>

ReadLock(t) ==
    /\ pc[t] = "Read.P"
    /\ RLineBlock > 0
    /\ RLineBlock' = RLineBlock - 1
    /\ Goto(t, Continue(t, 0))
    /\ UNCHANGED <<device, synchReadAvail, synchWriteAvail, WLineBlock, numBytes,
                   loop, display, taken>>

ReadWait(t) ==
    /\ pc[t] = "Read.wait"
    /\ synchReadAvail > 0
    /\ synchReadAvail' = synchReadAvail - 1
    /\ Goto(t, "Read.get")
    /\ UNCHANGED <<device, synchWriteAvail, RLineBlock, WLineBlock, numBytes,
                   loop, display, taken>>

(* Console::GetChar and the test of the character: EOF is skipped, newline  *)
(* and control-A end the line, others are stored.                           *)
GetChar(t) ==
    /\ pc[t] = "Read.get"
    /\ incoming' = "EOF"
    /\ \/ /\ incoming = "EOF"
          /\ Goto(t, "Read.wait")
          /\ UNCHANGED <<loop, taken>>
       \/ /\ incoming \in {"newline", "ctrlA"}
          /\ taken' = Append(taken, Got(t, loop[t] + 1, numBytes[t], incoming))
          /\ Goto(t, "Read.V")
          /\ UNCHANGED loop
       \/ /\ incoming \notin {"EOF", "newline", "ctrlA"}
          /\ taken' = Append(taken, Got(t, loop[t] + 1, numBytes[t], incoming))
          /\ loop' = [loop EXCEPT ![t] = @ + 1]
          /\ Goto(t, Continue(t, loop[t] + 1))
    /\ UNCHANGED <<putBusy, keyboard, typed, sems, numBytes, display>>

ReadReturn(t) ==
    /\ pc[t] = "Read.V"
    /\ RLineBlock' = RLineBlock + 1
    /\ Goto(t, "idle")
    /\ UNCHANGED <<device, synchReadAvail, synchWriteAvail, WLineBlock, numBytes,
                   loop, display, taken>>

\* Mutant of CheckCharAvail: the handler is not called for a newline.
PollSilent ==
    /\ incoming = "EOF"
    /\ keyboard # <<>>
    /\ incoming' = Head(keyboard)
    /\ keyboard' = Tail(keyboard)
    /\ synchReadAvail' = IF Head(keyboard) = "newline" THEN synchReadAvail
                                                       ELSE synchReadAvail + 1
    /\ UNCHANGED <<putBusy, typed, synchWriteAvail, RLineBlock, WLineBlock, calls,
                   display, taken>>

(* Console::CheckCharAvail and SynchReadFunct, at the polling interrupt.    *)
CheckCharAvail ==
    /\ incoming = "EOF"
    /\ keyboard # <<>>
    /\ incoming' = Head(keyboard)
    /\ keyboard' = Tail(keyboard)
    /\ synchReadAvail' = synchReadAvail + 1
    /\ UNCHANGED <<putBusy, typed, synchWriteAvail, RLineBlock, WLineBlock, calls,
                   display, taken>>

-----------------------------------------------------------------------------
Kernel(t) ==
    \/ WriteLock(t)
    \/ PutChar(t)
    \/ WriteWait(t)
    \/ WriteReturn(t)
    \/ ReadLock(t)
    \/ ReadWait(t)
    \/ GetChar(t)
    \/ ReadReturn(t)

Next ==
    \/ \E t \in Thread, n \in WriteLengths : CallWrite(t, n)
    \/ \E t \in Thread, n \in ReadLengths : CallRead(t, n)
    \/ \E t \in Thread : Kernel(t)
    \/ WriteDone
    \/ CheckCharAvail

Spec == Init /\ [][Next]_vars

(* The scheduler runs every ready thread; the device completes a character  *)
(* and polls the keyboard every ConsoleTime ticks.                          *)
FairSpec ==
    /\ Spec
    /\ \A t \in Thread : WF_vars(Kernel(t))
    /\ WF_vars(WriteDone)
    /\ WF_vars(CheckCharAvail)

-----------------------------------------------------------------------------
\* Every variable has the type of the field it models, and a call stays within
\* its buffer.
TypeOK ==
    /\ putBusy \in BOOLEAN
    /\ incoming \in Char
    /\ keyboard \in Seq(Char)
    /\ synchReadAvail \in Nat /\ synchWriteAvail \in Nat
    /\ RLineBlock \in Nat /\ WLineBlock \in Nat
    /\ pc \in [Thread -> {"idle", "Write.P", "Write.loop", "Write.wait",
                          "Read.P", "Read.wait", "Read.get", "Read.V"}]
    /\ numBytes \in [Thread -> Nat]
    /\ loop \in [Thread -> Nat]
    /\ \A t \in Thread : loop[t] <= numBytes[t]
    /\ taken \in Seq([who : Thread, at : Nat, of : Nat, char : Char])

\* The assertion of Console::PutChar: whenever Write puts a character, the
\* device has finished the one before, also one of another thread's Write.
PutWhenFree ==
    \A t \in Thread : pc[t] = "Write.loop" => ~putBusy /\ synchWriteAvail = 0

\* b may be displayed after a: the next character of a's call, or the first of
\* another call when a was the last of its own.
Follows(a, b) ==
    IF a.at < a.of THEN b = [a EXCEPT !.at = @ + 1] ELSE b.at = 1

\* The lines that Write displays are not mixed, whoever writes at the same time.
LinesDisplayed ==
    [][display # <<>> /\ display' # display => Follows(display[1], display'[1])]_vars

\* a is the last character its Read takes.
EndsLine(a) == a.char \in {"newline", "ctrlA"} \/ a.at = a.of

\* A Read takes consecutive characters: no other Read gets one in between.
LinesTaken ==
    \A i \in 1 .. Len(taken) - 1 :
        IF EndsLine(taken[i]) THEN taken[i + 1].at = 1
        ELSE /\ taken[i + 1].who = taken[i].who
             /\ taken[i + 1].at = taken[i].at + 1

Real(c) == c # "EOF"

\* What was typed is what was taken, is buffered or is still to come, in order:
\* the device and Read lose, repeat or reorder nothing but the character 255.
\* And no Read gets a character of another Read's line.
InputExact ==
    /\ LinesTaken
    /\ SelectSeq([i \in 1 .. Len(taken) |-> taken[i].char] \o <<incoming>> \o keyboard,
                 Real)
           = SelectSeq(typed, Real)

\* A Write that has its turn completes; a Read that waits while there is input
\* is woken.
ConsoleProgress ==
    \A t \in Thread :
        /\ pc[t] = "Write.loop" ~> pc[t] = "idle"
        /\ (pc[t] = "Read.wait" /\ (incoming # "EOF" \/ keyboard # <<>>))
              ~> pc[t] # "Read.wait"
=============================================================================
