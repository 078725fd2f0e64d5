----------------------------- MODULE ArrayStack -----------------------------
(***************************************************************************)
(* ArrayStack of c++example/inheritstack.cc, and the same code as Stack in *)
(* stack.cc and as Stack<T> in templatestack.cc: an array and the number   *)
(* of its places in use.  A caller that breaks an ASSERT ends the program. *)
(***************************************************************************)
EXTENDS Naturals, Sequences

CONSTANTS Value, size

ASSUME SizeAssumption == size \in Nat /\ size >= 1

VARIABLES top, stack, popped

arrayVars == <<top, stack, popped>>

\* The array comes as new leaves it.
ArrayInit ==
    /\ top = 0
    /\ stack \in [0 .. size - 1 -> Value]
    /\ popped = <<>>

ArrayFull == top = size
ArrayEmpty == top = 0

ArrayPush(v) ==
    /\ ~ArrayFull
    /\ stack' = [stack EXCEPT ![top] = v]
    /\ top' = top + 1
    /\ popped' = <<>>

\* Mutant of ArrayPop: the place above the last value is read.
ArrayPopLate ==
    /\ ~ArrayEmpty
    /\ top' = top - 1
    /\ popped' = <<stack[IF top < size THEN top ELSE top - 1]>>
    /\ UNCHANGED stack

ArrayPop ==
    /\ ~ArrayEmpty
    /\ top' = top - 1
    /\ popped' = <<stack[top - 1]>>
    /\ UNCHANGED stack

ArrayNext == ArrayPop \/ \E v \in Value : ArrayPush(v)

ArraySpec == ArrayInit /\ [][ArrayNext]_arrayVars

-----------------------------------------------------------------------------
\* top counts places of the array, and never one more than it has.
ArrayTypeOK ==
    /\ top \in 0 .. size
    /\ stack \in [0 .. size - 1 -> Value]
    /\ popped \in Seq(Value)

ArrayContents == [k \in 1 .. top |-> stack[k - 1]]

L == INSTANCE Lifo WITH pushed <- ArrayContents
=============================================================================
