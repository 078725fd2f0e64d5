------------------------------- MODULE Chain -------------------------------
(* Linked cells: which cells a list reaches from its first one, in order. *)
EXTENDS Naturals, FiniteSets, Sequences

NULL == 0

(* The cells from first on, following next[cell], up to NULL or to a cell   *)
(* that is not allocated.                                                   *)
Walk(first, next) ==
    LET at[k \in 1 .. Cardinality(DOMAIN next) + 1] ==
            IF k = 1 THEN first
            ELSE IF at[k - 1] \in DOMAIN next THEN next[at[k - 1]] ELSE NULL
        on == {k \in DOMAIN at : \A j \in 1 .. k : at[j] \in DOMAIN next}
    IN  [k \in on |-> at[k]]
=============================================================================
