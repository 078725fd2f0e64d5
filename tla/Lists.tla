------------------------------- MODULE Lists -------------------------------
(***************************************************************************)
(* threads/list.cc: singly linked lists with a pointer to the last         *)
(* element, sorted ones among them.  The elements are cells that new and   *)
(* delete hand out and take back.  Items are numbered in the order they    *)
(* are put in.  The kernel never mixes sorted insertion with the other two *)
(* on one list.                                                            *)
(***************************************************************************)
EXTENDS Integers, Sequences, FiniteSets, FiniteSetsExt, Chain

CONSTANTS
    Elements,   \* cells there are
    Keys,       \* sort keys
    MaxItems    \* bound: items put in

VARIABLES
    use,        \* "queue" or "sorted"
    first, last,
    element,    \* the cells in use: [item, key, next]
    items,      \* number of items put in so far
    result,     \* items the last operation returned or visited
    deleting    \* ~List is running

listVars == <<use, first, last, element, items, result, deleting>>

IsEmpty == first = NULL
Cells == Walk(first, [c \in DOMAIN element |-> element[c].next])

ListInit ==
    /\ use \in {"queue", "sorted"}
    /\ first = NULL
    /\ last = NULL
    /\ element = <<>>
    /\ items = 0
    /\ result = <<>>
    /\ deleting = FALSE

\* new ListElement: a free cell, with the next item.
NewElement(c, sortKey, after) ==
    [d \in DOMAIN element \cup {c} |->
        IF d = c THEN [item |-> items + 1, key |-> sortKey, next |-> after] ELSE element[d]]

Insertion ==
    /\ ~deleting
    /\ items < MaxItems
    /\ items' = items + 1
    /\ result' = <<>>
    /\ UNCHANGED <<use, deleting>>

ListAppend(c) ==
    /\ use = "queue"
    /\ Insertion
    /\ last' = c
    /\ first' = IF IsEmpty THEN c ELSE first
    /\ element' = IF IsEmpty THEN NewElement(c, 0, NULL)
                  ELSE [NewElement(c, 0, NULL) EXCEPT ![last].next = c]

ListPrepend(c) ==
    /\ use = "queue"
    /\ Insertion
    /\ first' = c
    /\ last' = IF IsEmpty THEN c ELSE last
    /\ element' = NewElement(c, 0, first)

\* Mutant of GoesBefore: equal keys are passed by.
GoesBeforeEqual(sortKey, c) == sortKey <= element[c].key

\* The test by which the search for the place ends.
GoesBefore(sortKey, c) == sortKey < element[c].key

\* The loop of SortedInsert: the element after which the new one goes.
Ptr(sortKey) ==
    LET cells == Cells
    IN  cells[Min({k \in DOMAIN cells : k = Len(cells) \/ GoesBefore(sortKey, cells[k + 1])})]

SortedInsert(c, sortKey) ==
    /\ use = "sorted"
    /\ Insertion
    /\ IF IsEmpty \/ GoesBefore(sortKey, first)
       THEN /\ first' = c
            /\ last' = IF IsEmpty THEN c ELSE last
            /\ element' = NewElement(c, sortKey, first)
       ELSE LET ptr == Ptr(sortKey)
            IN  /\ element' = [NewElement(c, sortKey, element[ptr].next) EXCEPT ![ptr].next = c]
                /\ last' = IF element[ptr].next = NULL THEN c ELSE last
                /\ UNCHANGED first

\* The first element goes back to the heap.
Unlink ==
    /\ first' = IF first = last THEN NULL ELSE element[first].next
    /\ last' = IF first = last THEN NULL ELSE last
    /\ element' = [d \in DOMAIN element \ {first} |-> element[d]]

\* Remove is SortedRemove without a key; it returns NULL for an empty list.
SortedRemove ==
    /\ IF IsEmpty
       THEN result' = <<>> /\ UNCHANGED <<first, last, element>>
       ELSE Unlink /\ result' = <<element[first].item>>
    /\ UNCHANGED <<use, items, deleting>>

\* The function is called with the item of every element.
ListMapcar ==
    /\ ~deleting
    /\ result' = [k \in DOMAIN Cells |-> element[Cells[k]].item]
    /\ UNCHANGED <<use, first, last, element, items, deleting>>

\* ~List removes until nothing is left.
ListDelete ==
    /\ ~deleting
    /\ deleting' = TRUE
    /\ UNCHANGED <<use, first, last, element, items, result>>

ListNext ==
    \/ \E c \in Elements \ DOMAIN element :
          ListAppend(c) \/ ListPrepend(c) \/ \E key \in Keys : SortedInsert(c, key)
    \/ SortedRemove
    \/ ListMapcar
    \/ ListDelete

ListSpec == ListInit /\ [][ListNext]_listVars

-----------------------------------------------------------------------------
Contents == [k \in DOMAIN Cells |-> [item |-> element[Cells[k]].item,
                                     key |-> element[Cells[k]].key]]

(* The list reaches exactly the cells in use, each once, and last is the    *)
(* last of them: nothing leaks, nothing dangles, and ~List frees all.       *)
CellsExact ==
    /\ {Cells[k] : k \in DOMAIN Cells} = DOMAIN element
    /\ Len(Cells) = Cardinality(DOMAIN element)
    /\ last = IF IsEmpty THEN NULL ELSE Cells[Len(Cells)]
    /\ ~IsEmpty => element[last].next = NULL

Abstract == INSTANCE ItemList WITH contents <- Contents, returned <- result,
                                   Item <- 1 .. MaxItems, Key <- Keys

(* The linked lists implement sequences of items, in which those with equal *)
(* keys stay in the order they came (interrupts due at the same time are    *)
(* served in the order they were scheduled), and lose no cell.              *)
ImplementsItemList == []CellsExact /\ Abstract!Spec
=============================================================================
