------------------------------ MODULE ItemList ------------------------------
(***************************************************************************)
(* What threads/list.h promises: a sequence of items with keys, to which   *)
(* items are added at either end or before the first one with a greater    *)
(* key, and from which the first is taken.                                 *)
(***************************************************************************)
EXTENDS Integers, Sequences

CONSTANTS Item, Key

VARIABLES
    contents,   \* sequence of [item, key]
    returned    \* what the last operation returned: a sequence of items

Init == contents = <<>> /\ returned = <<>>

\* Where an item with key k goes: after those that are not greater.
Position(k) ==
    CHOOSE p \in 0 .. Len(contents) :
        /\ \A j \in 1 .. p : contents[j].key <= k
        /\ p < Len(contents) => k < contents[p + 1].key

Append_(x) == contents' = Append(contents, [item |-> x, key |-> 0])
Prepend(x) == contents' = <<[item |-> x, key |-> 0]>> \o contents
SortedInsert(x, k) ==
    LET p == Position(k)
    IN  contents' = SubSeq(contents, 1, p) \o <<[item |-> x, key |-> k]>>
                        \o SubSeq(contents, p + 1, Len(contents))

Take ==
    /\ contents # <<>>
    /\ contents' = Tail(contents)
    /\ returned' = <<Head(contents).item>>

\* Every item is visited, in order.
Mapcar ==
    /\ returned' = [j \in DOMAIN contents |-> contents[j].item]
    /\ UNCHANGED contents

Next ==
    \/ \E x \in Item : /\ Append_(x) \/ Prepend(x) \/ \E k \in Key : SortedInsert(x, k)
                       /\ returned' = <<>>
    \/ Take
    \/ contents = <<>> /\ returned' = <<>> /\ UNCHANGED contents
    \/ Mapcar

Spec == Init /\ [][Next]_<<contents, returned>>
=============================================================================
