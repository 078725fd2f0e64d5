------------------------------ MODULE StackTest ------------------------------
(***************************************************************************)
(* The programs of c++example/: the main functions and SelfTests of        *)
(* inheritstack.cc, stack.cc and templatestack.cc, and a client that calls *)
(* Push and Pop as it likes.  A call through Stack* goes to the class of   *)
(* the object.                                                             *)
(***************************************************************************)
EXTENDS ArrayStack, Integers

CONSTANTS
    StackElements, \* cells for list elements
    Start,     \* first value a SelfTest pushes
    NumToPush  \* argument of SelfTest in inheritstack.cc, the size of the array

VARIABLES
    program,   \* "inheritstack", "stack" (templatestack is the same) or "client"
    object,    \* "ArrayStack" or "ListStack": the object in use
    stage,     \* where the test is: "push", "pop", "tested" or "aborted"
    count,     \* next value to push
    output,    \* values popped by this SelfTest
    lfirst, llast, node

listStackVars == <<lfirst, llast, node>>
testVars == <<program, object, stage, count, output, listStackVars, arrayVars>>

List == INSTANCE ListStack WITH first <- lfirst, last <- llast, Elements <- StackElements

TestInit ==
    /\ ArrayInit
    /\ List!ListInit
    /\ program \in {"inheritstack", "stack", "client"}
    /\ object \in IF program = "client" THEN {"ArrayStack", "ListStack"} ELSE {"ArrayStack"}
    /\ stage = "push"
    /\ count = Start
    /\ output = <<>>

Full == IF object = "ArrayStack" THEN ArrayFull ELSE List!Full
Empty == IF object = "ArrayStack" THEN ArrayEmpty ELSE List!Empty

Push(v) ==
    \/ object = "ArrayStack" /\ ArrayPush(v) /\ UNCHANGED listStackVars
    \/ object = "ListStack" /\ List!Push(v) /\ UNCHANGED <<top, stack>>

Pop ==
    \/ object = "ArrayStack" /\ ArrayPop /\ UNCHANGED listStackVars
    \/ object = "ListStack" /\ List!Pop /\ UNCHANGED <<top, stack>>

\* The conditions of the first loops: for (i < numToPush) in inheritstack.cc,
\* while (!Full()) in the others.
MorePushes == IF program = "inheritstack" THEN count < Start + NumToPush ELSE ~Full

(* One round of the first loop.  A Push onto a full stack would fail its    *)
(* ASSERT and end the program there.                                        *)
PushStep ==
    /\ program # "client" /\ stage = "push"
    /\ IF ~MorePushes
       THEN stage' = "pop" /\ UNCHANGED <<count, popped, top, stack, listStackVars>>
       ELSE IF Full
       THEN stage' = "aborted" /\ UNCHANGED <<count, popped, top, stack, listStackVars>>
       ELSE Push(count) /\ count' = count + 1 /\ UNCHANGED stage
    /\ UNCHANGED <<program, object, output>>

\* One round of the second loop, while (!Empty()).
PopStep ==
    /\ program # "client" /\ stage = "pop"
    /\ IF Empty
       THEN stage' = "tested" /\ UNCHANGED <<output, popped, top, stack, listStackVars>>
       ELSE Pop /\ output' = Append(output, popped'[1]) /\ UNCHANGED stage
    /\ UNCHANGED <<program, object, count>>

\* main of inheritstack.cc tests the second stack as it did the first.
MainNext ==
    /\ program = "inheritstack" /\ stage = "tested" /\ object = "ArrayStack"
    /\ object' = "ListStack"
    /\ stage' = "push"
    /\ count' = Start
    /\ output' = <<>>
    /\ UNCHANGED <<program, popped, top, stack, listStackVars>>

\* A client calls what it likes, but no Push on a full stack.
Client ==
    /\ program = "client"
    /\ (~Full /\ \E v \in Value : Push(v)) \/ Pop
    /\ UNCHANGED <<program, object, stage, count, output>>

TestNext == PushStep \/ PopStep \/ MainNext \/ Client

TestSpec == TestInit /\ [][TestNext]_testVars

-----------------------------------------------------------------------------
Reversed(s) == [k \in DOMAIN s |-> s[Len(s) + 1 - k]]

(* A SelfTest prints what it pushed, last first, and nothing else; no       *)
(* ASSERT fails, although the array has room for just the values pushed.    *)
SelfTestExact ==
    /\ stage # "aborted"
    /\ stage = "tested" => Reversed(output) = [k \in 1 .. NumToPush |-> Start + k - 1]

(* The elements in use are those the list reaches, and last is their last.  *)
NodesExact ==
    /\ {List!Nodes[k] : k \in DOMAIN List!Nodes} = DOMAIN node
    /\ llast = IF List!Empty THEN List!NULL ELSE List!Nodes[Len(List!Nodes)]

Abstraction ==
    INSTANCE Lifo WITH
        pushed <- IF object = "ArrayStack" THEN ArrayContents ELSE List!Contents

(* Either class behaves as a stack: "it shouldn't matter to the test code   *)
(* which version we're using" (c++example/inheritstack.h:34).  And the tests   *)
(* print what they say, and no element leaks.                               *)
ImplementsLifo == []SelfTestExact /\ []NodesExact /\ Abstraction!Spec
=============================================================================
