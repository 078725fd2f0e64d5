------------------------------ MODULE ListStack ------------------------------
(***************************************************************************)
(* ListStack of c++example/inheritstack.cc over the List of c++example/    *)
(* list.cc: Push puts a value before the first, Pop takes the first.       *)
(***************************************************************************)
EXTENDS Naturals, Sequences, FiniteSets, Chain

CONSTANTS Value, Elements

VARIABLES
    first, last,
    node,      \* the list elements in use: [item, next]
    popped

ListInit == first = NULL /\ last = NULL /\ node = <<>>

Full == FALSE
Empty == first = NULL

Prepend(c, value) ==
    /\ first' = c
    /\ last' = IF Empty THEN c ELSE last
    /\ node' = [d \in DOMAIN node \cup {c} |->
                   IF d = c THEN [item |-> value, next |-> first] ELSE node[d]]

Remove ==
    /\ ~Empty
    /\ first' = IF first = last THEN NULL ELSE node[first].next
    /\ last' = IF first = last THEN NULL ELSE last
    /\ node' = [d \in DOMAIN node \ {first} |-> node[d]]

Push(v) == popped' = <<>> /\ \E c \in Elements \ DOMAIN node : Prepend(c, v)

Pop == Remove /\ popped' = <<node[first].item>>

\* The chain, first element first, and its items in the order of their pushes.
Nodes == Walk(first, [c \in DOMAIN node |-> node[c].next])
Contents ==
    [k \in DOMAIN Nodes |-> node[Nodes[Len(Nodes) + 1 - k]].item]
=============================================================================
