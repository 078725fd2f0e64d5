---------------------------- MODULE WaterPipeline ----------------------------
(***************************************************************************)
(* The multiprogramming demonstration of test/: MayRotNuoc ("main") gives  *)
(* the students of one time point to sinhvien in a file, sinhvien gives    *)
(* one student at a time to voinuoc in another file, voinuoc assigns a     *)
(* tap, and both write output.txt.  Three named semaphores pass the turn.  *)
(* A step is one system call and the computation up to the next one; the   *)
(* open-file calls are those of OpenTable.                                 *)
(*                                                                         *)
(* A symbol of a file stands for one write: a digit, a space, a tap number *)
(* with its space, the spaces between students, the end of a line.         *)
(***************************************************************************)
EXTENDS OpenTable

CONSTANTS
    Inputs      \* input.txt after its first line: sequences of time points,
                \* each a sequence of Digit

Digits == <<"1", "2", "3", "4", "5", "6", "7", "8", "9">>
Digit == Range(Digits)
ValueOf == [d \in Digit |-> CHOOSE n \in 1..9 : Digits[n] = d]

ASSUME WaterPipelineAssumption ==
    \A input \in Inputs : \A i \in DOMAIN input :
        Len(input[i]) > 0 /\ Range(input[i]) \subseteq Digit

VARIABLES
    sems,                                  \* the semaphores of STable, by name
    pc,
    input, timePoints,                     \* main
    id,                                    \* id[p]: the program's file variables
    charRead,
    fileLen, filePointer, getWater,        \* sinhvien
    tap1, tap2, tapTime, problemSolved     \* voinuoc

files == <<openfile, disk>>
sinhvienVars == <<fileLen, filePointer, getWater>>
voinuocVars == <<tap1, tap2, tapTime, problemSolved>>
vars == <<files, sems, pc, input, timePoints, id, charRead, sinhvienVars,
          voinuocVars>>

Program == {"main", "sinhvien", "voinuoc"}

\* A line of input.txt: digits with a space between them, and a newline.
Line(s) ==
    [i \in 1 .. 2 * Len(s) |-> CASE i % 2 = 1 -> s[(i + 1) \div 2]
                                 [] i % 2 = 0 /\ i < 2 * Len(s) -> " "
                                 [] OTHER -> "newline"]

(* main has created the semaphores and output.txt, opened input.txt and     *)
(* read the number of time points.                                          *)
Init ==
    /\ input \in Inputs
    /\ OpenTableInit([f \in File |->
            CASE f = "input.txt" -> FlattenSeq([i \in DOMAIN input |-> Line(input[i])])
              [] f = "output.txt" -> <<>>
              [] OTHER -> NoFile])
    /\ sems = [s \in Program |-> 0]
    /\ pc = [p \in Program |-> IF p = "main" THEN "openInput" ELSE "off"]
    /\ timePoints = Len(input)
    /\ id = [p \in Program |-> [f \in File |-> -1]]
    /\ charRead = [p \in Program |-> "0"]
    /\ fileLen = 0 /\ filePointer = 0 /\ getWater = 0
    /\ tap1 = 0 /\ tap2 = 0 /\ tapTime = 0 /\ problemSolved = 0

Goto(p, where) == pc' = [pc EXCEPT ![p] = where]

\* Step of p from one label to the next with one call that changes no locals.
Do(p, from, r, to) ==
    /\ pc[p] = from
    /\ Perform(r)
    /\ Goto(p, to)
    /\ UNCHANGED <<sems, input, timePoints, id, charRead, sinhvienVars, voinuocVars>>

\* Where p goes on when the call r has returned.
Tested(r, to, onFailure) == IF r.r2 = -1 THEN onFailure ELSE to

\* p creates f.
CreateStep(p, from, f, to, onFailure) ==
    Do(p, from, CreateFile(f), Tested(CreateFile(f), to, onFailure))

\* p opens f.
OpenStep(p, from, f, type, to, onFailure) ==
    /\ pc[p] = from
    /\ LET r == Open(f, type)
       IN  /\ Perform(r)
           /\ id' = [id EXCEPT ![p][f] = r.r2]
           /\ Goto(p, Tested(r, to, onFailure))
    /\ UNCHANGED <<sems, input, timePoints, charRead, sinhvienVars, voinuocVars>>

\* p closes one of its files: where, which, and where it goes on.
CloseStep(p, steps) ==
    \E s \in steps : Do(p, s[1], Close(id[p][s[2]]), s[3])

\* Mutant of Signal: the turn is given twice.
SignalTwice(p, from, s, to) ==
    /\ pc[p] = from
    /\ sems' = [sems EXCEPT ![s] = @ + 2]
    /\ Goto(p, to)
    /\ UNCHANGED <<files, input, timePoints, id, charRead, sinhvienVars, voinuocVars>>

Signal(p, from, s, to) ==
    /\ pc[p] = from
    /\ sems' = [sems EXCEPT ![s] = @ + 1]
    /\ Goto(p, to)
    /\ UNCHANGED <<files, input, timePoints, id, charRead, sinhvienVars, voinuocVars>>

Wait(p, from, to) ==
    /\ pc[p] = from
    /\ sems[p] > 0
    /\ sems' = [sems EXCEPT ![p] = @ - 1]
    /\ Goto(p, to)
    /\ UNCHANGED <<files, input, timePoints, id, charRead, sinhvienVars, voinuocVars>>

-----------------------------------------------------------------------------
(* main: when it returns the machine halts, since it is process 0.  Exec    *)
(* returns -1 when the program's file cannot be opened, for instance.       *)
MainExec(child, from, to) ==
    /\ pc["main"] = from
    /\ \/ pc' = [pc EXCEPT !["main"] = to, ![child] = "wait"]
       \/ Goto("main", "giveUp")
    /\ UNCHANGED <<files, sems, input, timePoints, id, charRead, sinhvienVars,
                   voinuocVars>>

MainLoop ==
    /\ pc["main"] = "loop"
    /\ IF timePoints = 0
       THEN /\ Perform(Close(id["main"]["input.txt"]))
            /\ Goto("main", "solved")
       ELSE /\ Perform(CreateFile("sinhvien.txt"))
            /\ Goto("main", Tested(CreateFile("sinhvien.txt"), "open", "giveUp"))
    /\ timePoints' = timePoints - 1
    /\ UNCHANGED <<sems, input, id, charRead, sinhvienVars, voinuocVars>>

(* Read a character of the line and, unless it ends the line, write it.     *)
MainRead ==
    /\ pc["main"] = "read"
    /\ LET r == Read(id["main"]["input.txt"], 1)
       IN  /\ Perform(r)
           /\ charRead' = [charRead EXCEPT !["main"] =
                                IF r.into = <<>> THEN @ ELSE r.into[1]]
           /\ Goto("main", IF r.r2 < 1 \/ charRead'["main"] = "newline"
                           THEN "close" ELSE "write")
    /\ UNCHANGED <<sems, input, timePoints, id, sinhvienVars, voinuocVars>>

Main ==
    \/ OpenStep("main", "openInput", "input.txt", 1, "exec1", "failed")
    \/ MainExec("sinhvien", "exec1", "exec2")
    \/ MainExec("voinuoc", "exec2", "loop")
    \/ MainLoop
    \/ OpenStep("main", "open", "sinhvien.txt", 0, "read", "giveUp")
    \/ MainRead
    \/ Do("main", "write", Write(id["main"]["sinhvien.txt"], <<charRead["main"]>>),
          "read")
    \/ CloseStep("main", {<<"close", "sinhvien.txt", "signal">>,
                           <<"giveUp", "input.txt", "failed">>})
    \/ Signal("main", "signal", "sinhvien", "wait")
    \/ Wait("main", "wait", "loop")

-----------------------------------------------------------------------------

(* sinhvien: fileLen is what Seek(-1) returns.                              *)
StudentLength ==
    /\ pc["sinhvien"] = "length"
    /\ LET r == Seek(-1, id["sinhvien"]["sinhvien.txt"])
       IN  Perform(r) /\ fileLen' = r.r2
    /\ filePointer' = 0
    /\ Goto("sinhvien", "rewind")
    /\ UNCHANGED <<sems, input, timePoints, id, charRead, getWater, voinuocVars>>

StudentRead ==
    /\ pc["sinhvien"] = "read"
    /\ filePointer < fileLen
    /\ LET r == Read(id["sinhvien"]["sinhvien.txt"], 1)
       IN  /\ Perform(r)
           /\ charRead' = [charRead EXCEPT !["sinhvien"] =
                                IF r.into = <<>> THEN @ ELSE r.into[1]]
    /\ getWater' = IF charRead'["sinhvien"] # " " THEN 0 ELSE 1
    /\ Goto("sinhvien", IF charRead'["sinhvien"] # " " THEN "write" ELSE "mark")
    /\ UNCHANGED <<sems, input, timePoints, id, fileLen, filePointer, voinuocVars>>

\* Mutant of StudentMark: the last student is not marked.
StudentMarkNever ==
    /\ pc["sinhvien"] = "mark"
    /\ UNCHANGED <<files, fileLen>>
    /\ getWater' = IF filePointer = fileLen - 1 THEN 1 ELSE getWater
    /\ filePointer' = IF getWater' = 1 THEN filePointer ELSE filePointer + 1
    /\ Goto("sinhvien", IF getWater' = 1 THEN "closeWater" ELSE "read")
    /\ UNCHANGED <<sems, input, timePoints, id, charRead, voinuocVars>>

(* The last character is marked with '*'; a student is given at a space and *)
(* at the mark.                                                             *)
StudentMark ==
    /\ pc["sinhvien"] = "mark"
    /\ IF filePointer = fileLen - 1
       THEN /\ Perform(Write(id["sinhvien"]["voinuoc.txt"], <<"*">>))
            /\ getWater' = 1
       ELSE UNCHANGED <<files, getWater>>
    /\ filePointer' = IF getWater' = 1 THEN filePointer ELSE filePointer + 1
    /\ Goto("sinhvien", IF getWater' = 1 THEN "closeWater" ELSE "read")
    /\ UNCHANGED <<sems, input, timePoints, id, charRead, fileLen, voinuocVars>>

StudentReopen ==
    /\ pc["sinhvien"] = "reopen"
    /\ LET r == Open("voinuoc.txt", 0)
       IN  /\ Perform(r)
           /\ id' = [id EXCEPT !["sinhvien"]["voinuoc.txt"] = r.r2]
           /\ Goto("sinhvien", Tested(r, "read", "giveUp"))
    /\ filePointer' = filePointer + 1
    /\ UNCHANGED <<sems, input, timePoints, charRead, fileLen, getWater, voinuocVars>>

(* All students of the time point are served, or sinhvien returns.          *)
StudentDone ==
    \E s \in {<<"read", "wait">>, <<"signalFailure", "off">>} :
        /\ s[1] = "read" => filePointer >= fileLen
        /\ Signal("sinhvien", s[1], "main", s[2])

Student ==
    LET ids == id["sinhvien"]
        c == <<charRead["sinhvien"]>>
    IN  \/ Wait("sinhvien", "wait", "open")
        \/ OpenStep("sinhvien", "open", "sinhvien.txt", 1, "length", "signalFailure")
        \/ StudentLength
        \/ Do("sinhvien", "rewind", Seek(0, ids["sinhvien.txt"]), "create")
        \/ CreateStep("sinhvien", "create", "voinuoc.txt", "openWater", "giveUp")
        \/ OpenStep("sinhvien", "openWater", "voinuoc.txt", 0, "read", "giveUp")
        \/ StudentRead
        \/ Do("sinhvien", "write", Write(ids["voinuoc.txt"], c), "openOutput")
        \/ OpenStep("sinhvien", "openOutput", "output.txt", 0, "seekOutput", "giveUp")
        \/ Do("sinhvien", "seekOutput", Seek(-1, ids["output.txt"]), "writeOutput")
        \/ Do("sinhvien", "writeOutput", Write(ids["output.txt"], c), "closeOutput")
        \/ CloseStep("sinhvien", {<<"closeOutput", "output.txt", "mark">>,
                                   <<"closeWater", "voinuoc.txt", "signalWater">>,
                                   <<"giveUp", "sinhvien.txt", "signalFailure">>})
        \/ StudentMark
        \/ Signal("sinhvien", "signalWater", "voinuoc", "waitWater")
        \/ Wait("sinhvien", "waitWater", "recreate")
        \/ CreateStep("sinhvien", "recreate", "voinuoc.txt", "reopen", "giveUp")
        \/ StudentReopen
        \/ StudentDone

-----------------------------------------------------------------------------
(* voinuoc: reads the student's time up to the end of the file or '*'.  A   *)
(* Read that fails (-1) neither ends the loop nor changes charRead.         *)
TapRead ==
    /\ pc["voinuoc"] = "read"
    /\ LET r == Read(id["voinuoc"]["voinuoc.txt"], 1)
           c == IF r.into = <<>> THEN "0" ELSE r.into[1]
       IN  /\ Perform(r)
           /\ problemSolved' = IF c = "*" THEN 1 ELSE 0
           /\ tapTime' = IF c \in Digit THEN tapTime * 10 + ValueOf[c] ELSE tapTime
           /\ Goto("voinuoc", IF r.r2 = -2 \/ c = "*" THEN "close" ELSE "read")
    /\ UNCHANGED <<sems, input, timePoints, id, charRead, sinhvienVars, tap1, tap2>>

TapAssign ==
    /\ pc["voinuoc"] = "assign"
    /\ IF tapTime = 0 THEN UNCHANGED <<files, tap1, tap2>>
       ELSE IF tap1 <= tap2
       THEN /\ tap1' = tap1 + tapTime
            /\ tap2' = tap2
            /\ Perform(Write(id["voinuoc"]["output.txt"], <<" 1">>))
       ELSE /\ tap2' = tap2 + tapTime
            /\ tap1' = tap1
            /\ Perform(Write(id["voinuoc"]["output.txt"], <<" 2">>))
    /\ Goto("voinuoc", "separate")
    /\ UNCHANGED <<sems, input, timePoints, id, charRead, sinhvienVars, tapTime,
                   problemSolved>>

(* tapTime, which is not read before the next round clears it, is cleared   *)
(* here.                                                                    *)
TapSeparate ==
    /\ pc["voinuoc"] = "separate"
    /\ Perform(Write(id["voinuoc"]["output.txt"],
                     IF problemSolved = 1 THEN <<"newline">> ELSE <<"   ">>))
    /\ tap1' = IF problemSolved = 1 THEN 0 ELSE tap1
    /\ tap2' = IF problemSolved = 1 THEN 0 ELSE tap2
    /\ tapTime' = 0
    /\ Goto("voinuoc", "closeOutput")
    /\ UNCHANGED <<sems, input, timePoints, id, charRead, sinhvienVars, problemSolved>>

Tap ==
    LET ids == id["voinuoc"]
    IN  \/ Wait("voinuoc", "wait", "open")
        \/ OpenStep("voinuoc", "open", "voinuoc.txt", 1, "read", "signalFailure")
        \/ TapRead
        \/ CloseStep("voinuoc", {<<"close", "voinuoc.txt", "openOutput">>,
                                  <<"closeOutput", "output.txt", "signal">>,
                                  <<"giveUp", "voinuoc.txt", "signalFailure">>})
        \/ OpenStep("voinuoc", "openOutput", "output.txt", 0, "seekOutput", "giveUp")
        \/ Do("voinuoc", "seekOutput", Seek(-1, ids["output.txt"]), "assign")
        \/ TapAssign
        \/ TapSeparate
        \/ \E s \in {<<"signal", "wait">>, <<"signalFailure", "off">>} :
              Signal("voinuoc", s[1], "sinhvien", s[2])

-----------------------------------------------------------------------------
Halted == pc["main"] \in {"solved", "failed"}

Next == ~Halted /\ (Main \/ Student \/ Tap)

Spec == Init /\ [][Next]_vars

(* Round-robin scheduling: a program that can run does.                     *)
FairSpec ==
    /\ Spec
    /\ WF_vars(~Halted /\ Main)
    /\ WF_vars(~Halted /\ Student)
    /\ WF_vars(~Halted /\ Tap)

-----------------------------------------------------------------------------
\* Reference: the taps of the students s, each the less loaded one so far.
Assign(load, d) ==
    LET tap == IF load.tap1 <= load.tap2 THEN 1 ELSE 2
    IN  [tap1 |-> IF tap = 1 THEN load.tap1 + ValueOf[d] ELSE load.tap1,
         tap2 |-> IF tap = 2 THEN load.tap2 + ValueOf[d] ELSE load.tap2,
         taps |-> Append(load.taps, IF tap = 1 THEN " 1" ELSE " 2")]

Taps(s) == FoldLeft(Assign, [tap1 |-> 0, tap2 |-> 0, taps |-> <<>>], s).taps

OutputLine(s) ==
    FlattenSeq([i \in DOMAIN s |->
        <<s[i], Taps(s)[i], IF i = Len(s) THEN "newline" ELSE "   ">>])

\* The first k lines of the right output.
Expected(k) == FlattenSeq([i \in 1 .. k |-> OutputLine(input[i])])

\* The time points for which the ids of open files suffice: sinhvien leaves two
\* files open at each, and has three open at a time beside input.txt.
Served == Min({Len(input), (MaxId - 3) \div 2})

Working == {p \in Program : pc[p] \notin {"off", "wait", "waitWater"}}

\* The semaphores pass one turn, which is neither given twice nor lost: never do
\* two of the programs use the shared files at a time, so Seek(-1) and the Write
\* after it are not separated by another program's Write to output.txt.
OneWorking == Cardinality(Working) + sems["main"] + sems["sinhvien"] + sems["voinuoc"] = 1

\* When both programs start, main comes to "Successfully solved the problem" with
\* the students in order and the less loaded tap of each, line by line, in
\* output.txt; with more time points than the open-file table has ids for, the
\* lines of those before are there.  What is written is right at every moment.
Solved ==
    /\ []IsPrefix(disk["output.txt"], Expected(Len(input)))
    /\ \/ <>(pc["main"] = "failed" /\ disk["output.txt"] = <<>>)
       \/ /\ <>[](disk["output.txt"] = Expected(Served))
          /\ Served < Len(input) \/ <>(pc["main"] = "solved")
=============================================================================
