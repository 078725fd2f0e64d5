-------------------------------- MODULE Lifo --------------------------------
(* What the Stack of c++example/inheritstack.h promises: last in, first out. *)
EXTENDS Sequences, Naturals

CONSTANT Value

VARIABLES
    pushed,    \* the values on the stack, oldest first
    popped     \* <<v>> after a Pop that returned v, else <<>>

Init == pushed = <<>> /\ popped = <<>>

Push(v) == pushed' = Append(pushed, v) /\ popped' = <<>>

Pop ==
    /\ pushed # <<>>
    /\ pushed' = SubSeq(pushed, 1, Len(pushed) - 1)
    /\ popped' = <<pushed[Len(pushed)]>>

Next == Pop \/ \E v \in Value : Push(v)

Spec == Init /\ [][Next]_<<pushed, popped>>
=============================================================================
