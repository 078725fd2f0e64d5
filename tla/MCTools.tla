------------------------------- MODULE MCTools -------------------------------
(* Parts that do not interact, in one run: "part" says which of them the     *)
(* behaviour is about; the others stay as they begin.                        *)
EXTENDS IntConv, ObjFile, Lists, StackTest, UserState, STable

CONSTANTS u1, u2, u3, k1, p1, p2, n1, n2, n3

Boot == u1

VARIABLE part

vars == <<part, convVars, objVars, listVars, testVars, userVars, stableVars>>

\* Initial values of semaphores.
SomeValues == {-1, 0, 1}

\* Up to four of 0 1 9 - . and a letter.
ShortLines == UNION {[1..n -> {Zero, 49, Nine, Minus, Dot, 97}] : n \in 0..4}

\* At most one section is aligned.
OneGap == {[k \in 1 .. 5 |-> IF k = j THEN 1 ELSE 0] : j \in 1 .. 5}

\* One beginning of each part with several.
OneInput == Input([k \in 1 .. 5 |-> 2], [k \in 1 .. 5 |-> IF k = 1 THEN 1 ELSE 0], ".data", "none")
ObjRest == tool = "coff2noff" /\ coff = OneInput /\ ObjInit
ListRest == use = "queue" /\ ListInit
TestRest ==
    /\ program = "client" /\ object = "ListStack"
    /\ stack = [k \in 0 .. size - 1 |-> Start]
    /\ TestInit
UserRest == running = Boot /\ UserInit

Init ==
    /\ ConvInit /\ STableInit
    /\ \/ part = "conv" /\ ObjRest /\ ListRest /\ TestRest /\ UserRest
       \/ part = "obj" /\ ObjInit /\ ListRest /\ TestRest /\ UserRest
       \/ part = "list" /\ ObjRest /\ ListInit /\ TestRest /\ UserRest
       \/ part = "stack" /\ ObjRest /\ ListRest /\ TestInit /\ UserRest
       \/ part = "user" /\ ObjRest /\ ListRest /\ TestRest /\ UserInit
       \/ part = "sems" /\ ObjRest /\ ListRest /\ TestRest /\ UserRest

others == <<part, convVars, objVars, listVars, testVars, userVars>>

Next ==
    \/ /\ part = "conv" /\ ConvNext
       /\ UNCHANGED <<part, objVars, listVars, testVars, userVars, stableVars>>
    \/ /\ part = "obj" /\ ObjNext
       /\ UNCHANGED <<part, convVars, listVars, testVars, userVars, stableVars>>
    \/ /\ part = "list" /\ ListNext
       /\ UNCHANGED <<part, convVars, objVars, testVars, userVars, stableVars>>
    \/ /\ part = "stack" /\ TestNext
       /\ UNCHANGED <<part, convVars, objVars, listVars, userVars, stableVars>>
    \/ /\ part = "user" /\ UserNext
       /\ UNCHANGED <<part, convVars, objVars, listVars, testVars, stableVars>>
    \/ /\ part = "sems" /\ STableNext
       /\ UNCHANGED others

Spec == Init /\ [][Next]_vars

(* Fairness as in FairSTable, and none for the other parts.                 *)
FairSpec ==
    Spec /\ \A p \in Process : WF_vars(part = "sems" /\ Down(p) /\ UNCHANGED others)
=============================================================================
