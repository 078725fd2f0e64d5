------------------------------- MODULE ObjFile -------------------------------
(***************************************************************************)
(* bin/coff2noff.c and bin/coff2flat.c: the tools that turn what the       *)
(* linker wrote (a COFF file) into the executable that AddrSpace loads (a  *)
(* NOFF file), or into a flat image of memory.  A byte of the COFF file is *)
(* known by its place in that file, counted from 1; 0 is the byte 0.       *)
(***************************************************************************)
EXTENDS Integers, Sequences, FiniteSets, TLC

CONSTANTS
    Sizes,      \* sizes a section may have
    Gaps,       \* bytes the linker leaves before each section, to align it: functions
    HeaderSize, \* bytes of the headers of a COFF file, and of a NOFF header
    StackSize   \* bytes coff2flat adds for the stack

VARIABLES
    tool,       \* the tool that runs
    coff,       \* its input
    pc,         \* "headers", "copy", "finish", "done", "failed" or "killed"
    i,          \* number of sections dealt with
    exists,     \* the output is in the directory
    out,        \* bytes written to the output, by place
    noffH,      \* header coff2noff builds: code, initData and uninitData
    written,    \* noffH is in the output
    inNoffFile, \* place of the next write
    imageTop    \* end of the image, of coff2flat

objVars == <<tool, coff, pc, i, exists, out, noffH, written, inNoffFile, imageTop>>

-----------------------------------------------------------------------------
\* The sections the linker script of test/ asks for, in its order.
Names == <<".text", ".rdata", ".data", ".sbss", ".bss">>
IsBss(name) == name \in {".sbss", ".bss"}
IsData(name) == name \in {".data", ".rdata"}

(* What the linker makes of sections of these sizes, each after a gap; it   *)
(* calls the third one ".sdata" when asked for small data.                  *)
Linked(size, gap, third) ==
    LET start[k \in 1 .. 5] ==
            IF k = 1 THEN 0 ELSE start[k - 1] + size[k - 1] + gap[k]
        raw[k \in 1 .. 5] ==
            IF k = 1 THEN HeaderSize
            ELSE raw[k - 1] + (IF IsBss(Names[k - 1]) THEN 0 ELSE size[k - 1])
    IN  [k \in 1 .. 5 |-> [s_name |-> IF k = 3 THEN third ELSE Names[k],
                           s_paddr |-> start[k],
                           s_size |-> size[k],
                           s_scnptr |-> IF IsBss(Names[k]) THEN 0 ELSE raw[k]]]
RawEnd(sections) ==
    LET end == {sections[k].s_scnptr + sections[k].s_size :
                    k \in {n \in DOMAIN sections : ~IsBss(sections[n].s_name)}}
    IN  CHOOSE e \in end : \A d \in end : d <= e

NoSegment == [virtualAddr |-> 0, inFileAddr |-> 0, size |-> 0]
Segments == {"code", "initData", "uninitData"}

(* The files the linker may hand over: one may lack a magic number, or      *)
(* bytes at its end.                                                        *)
Input(size, gap, third, fault) ==
    LET sections == Linked(size, gap, third)
    IN  [f_magic |-> fault # "f_magic", magic |-> fault # "magic", sections |-> sections,
         length |-> CASE fault = "short" -> RawEnd(sections) - 1
                      [] fault = "headless" -> HeaderSize - 1
                      [] OTHER -> RawEnd(sections)]
Inputs ==
    {Input(size, gap, third, fault) :
        size \in [1 .. 5 -> Sizes], gap \in Gaps, third \in {".data", ".sdata"},
        fault \in {"none", "f_magic", "magic", "short", "headless"}}

(* The input has been found and the output made, empty.  A failure to make  *)
(* the output shows in the first write: the test after open() looks at fdIn *)
(* again.                                                                   *)
ObjInit ==
    /\ tool \in {"coff2noff", "coff2flat"}
    /\ coff \in Inputs
    /\ pc = "headers"
    /\ i = 0
    /\ exists = TRUE
    /\ out = <<>>
    /\ noffH = [s \in Segments |-> NoSegment]
    /\ written = FALSE
    /\ inNoffFile = IF tool = "coff2noff" THEN HeaderSize ELSE 0
    /\ imageTop = 0

-----------------------------------------------------------------------------
Section == coff.sections[i + 1]
Readable(s) == s.s_scnptr + s.s_size <= coff.length

(* The end of every error path, of Read and of Write among them: coff2noff  *)
(* removes its output, coff2flat leaves it.                                 *)
Fail ==
    /\ pc' = "failed"
    /\ exists' = (tool = "coff2flat")
    /\ UNCHANGED <<tool, coff, i, out, noffH, written, inNoffFile, imageTop>>

\* Read and Write, when they succeed: the raw data of s go to the output.
Copied(s) ==
    /\ Readable(s)
    /\ out' = [p \in inNoffFile .. inNoffFile + s.s_size - 1 |->
                  s.s_scnptr + (p - inNoffFile) + 1] @@ out
    /\ inNoffFile' = inNoffFile + s.s_size

Headers ==
    /\ pc = "headers"
    /\ IF coff.length < HeaderSize \/ ~coff.f_magic \/ ~coff.magic
       THEN Fail
       ELSE /\ pc' = "copy"
            /\ UNCHANGED <<tool, coff, i, exists, out, noffH, written, inNoffFile, imageTop>>

\* The segment of the header that s becomes, and its raw data.
Placed(s, seg) ==
    /\ Copied(s)
    /\ noffH' = [noffH EXCEPT ![seg] = [virtualAddr |-> s.s_paddr,
                                        inFileAddr |-> inNoffFile, size |-> s.s_size]]

\* The sections coff2noff refuses: both .data and .rdata, a .bss section that
\* directly follows another, and names it does not know.
SecondData(s) == IsData(s.s_name) /\ noffH["initData"].size # 0
SecondBss(s) ==
    LET bss == noffH["uninitData"]
    IN  IsBss(s.s_name) /\ bss.size # 0 /\ s.s_paddr = bss.virtualAddr + bss.size
Unknown(s) == s.s_name # ".text" /\ ~IsData(s.s_name) /\ ~IsBss(s.s_name)

AddBss(s) ==
    LET bss == noffH["uninitData"]
    IN  /\ noffH' = [noffH EXCEPT !["uninitData"] =
                        IF bss.size = 0
                        THEN [virtualAddr |-> s.s_paddr, inFileAddr |-> 0, size |-> s.s_size]
                        ELSE [bss EXCEPT !.size = @ + s.s_size]]
        /\ UNCHANGED <<out, inNoffFile>>

\* Mutant of Refused: .rdata replaces .data.
RefusedLess(s) == SecondBss(s) \/ Unknown(s)

Refused(s) == SecondData(s) \/ SecondBss(s) \/ Unknown(s)

\* One round of the loop of coff2noff over the sections; an empty one is skipped.
NoffSection ==
    LET s == Section
    IN  /\ tool = "coff2noff" /\ pc = "copy" /\ i < Len(coff.sections)
        /\ \/ /\ \/ s.s_size = 0 /\ UNCHANGED <<out, noffH, inNoffFile>>
                 \/ /\ s.s_size # 0 /\ ~Refused(s)
                    /\ CASE IsBss(s.s_name) -> AddBss(s)
                         [] IsData(s.s_name) -> Placed(s, "initData")
                         [] OTHER -> Placed(s, "code")
              /\ i' = i + 1
              /\ UNCHANGED <<tool, coff, pc, exists, written, imageTop>>
           \/ s.s_size # 0 /\ (Refused(s) \/ ~IsBss(s.s_name)) /\ Fail

(* One round of the loop of coff2flat: the raw data go where the last ones  *)
(* ended.                                                                   *)
FlatSection ==
    LET s == Section
        end == s.s_paddr + s.s_size
    IN  /\ tool = "coff2flat" /\ pc = "copy" /\ i < Len(coff.sections)
        /\ \/ /\ IF IsBss(s.s_name) THEN UNCHANGED <<out, inNoffFile>> ELSE Copied(s)
              /\ imageTop' = IF end > imageTop THEN end ELSE imageTop
              /\ i' = i + 1
              /\ UNCHANGED <<tool, coff, pc, exists, noffH, written>>
           \/ ~IsBss(s.s_name) /\ Fail

\* The header is written last, at the beginning of the NOFF file.
NoffFinish ==
    /\ tool = "coff2noff" /\ pc = "copy" /\ i = Len(coff.sections)
    /\ \/ /\ written' = TRUE
          /\ pc' = "done"
          /\ UNCHANGED <<tool, coff, i, exists, out, noffH, inNoffFile, imageTop>>
       \/ Fail

\* A blank word ends the stack.
FlatFinish ==
    /\ tool = "coff2flat" /\ pc = "copy" /\ i = Len(coff.sections)
    /\ \/ /\ out' = [p \in imageTop + StackSize - 4 .. imageTop + StackSize - 1 |-> 0] @@ out
          /\ pc' = "done"
          /\ UNCHANGED <<tool, coff, i, exists, noffH, written, inNoffFile, imageTop>>
       \/ Fail

\* The tool is stopped from outside.
Kill ==
    /\ pc \in {"headers", "copy"}
    /\ pc' = "killed"
    /\ UNCHANGED <<tool, coff, i, exists, out, noffH, written, inNoffFile, imageTop>>

ObjNext == Headers \/ NoffSection \/ FlatSection \/ NoffFinish \/ FlatFinish \/ Kill

ObjSpec == ObjInit /\ [][ObjNext]_objVars

-----------------------------------------------------------------------------
\* Reference: what memory holds where the sections with raw data are.
Span(a, n) == a .. a + n - 1
Raw == {k \in DOMAIN coff.sections :
            coff.sections[k].s_size # 0 /\ ~IsBss(coff.sections[k].s_name)}
Bss == {k \in DOMAIN coff.sections :
            coff.sections[k].s_size # 0 /\ IsBss(coff.sections[k].s_name)}
Place(k) == Span(coff.sections[k].s_paddr, coff.sections[k].s_size)
Image ==
    [a \in UNION {Place(k) : k \in Raw} |->
        LET s == coff.sections[CHOOSE k \in Raw : a \in Place(k)]
        IN  s.s_scnptr + (a - s.s_paddr) + 1]

\* What a loader finds with the header.
Segment(seg) == Span(noffH[seg].virtualAddr, noffH[seg].size)
NoffImage ==
    [a \in Segment("code") \cup Segment("initData") |->
        LET g == noffH[IF a \in Segment("code") THEN "code" ELSE "initData"]
        IN  out[g.inFileAddr + (a - g.virtualAddr)]]

(* A NOFF file with a header, at whatever moment coff2noff is stopped, puts *)
(* every byte of the program where the linker wants it, and, unless there   *)
(* are two .bss sections, clears exactly what is to be cleared.             *)
NoffExact ==
    written =>
        /\ DOMAIN NoffImage = DOMAIN Image
        /\ NoffImage = Image
        /\ Cardinality(Bss) <= 1 => Segment("uninitData") = UNION {Place(k) : k \in Bss}

(* coff2noff leaves no file behind when it gives up, and a whole one with a *)
(* header when it does not.                                                 *)
NoDebris ==
    tool = "coff2noff" => /\ pc = "failed" => ~exists
                          /\ pc = "done" => exists /\ written

(* A flat file whose sections the linker put one after another is the       *)
(* image of the program, with a stack of zeros that ends in the last word.  *)
FlatExact ==
    /\ tool = "coff2flat" /\ pc = "done"
    /\ \A k \in Raw : coff.sections[k].s_paddr + HeaderSize = coff.sections[k].s_scnptr
    => \A a \in 0 .. imageTop + StackSize - 1 :
          IF a \in DOMAIN Image THEN out[a] = Image[a] ELSE a \in DOMAIN out => out[a] = 0

(* What the two tools leave behind can be loaded.                           *)
ImagesExact == NoffExact /\ NoDebris /\ FlatExact
=============================================================================
