----------------------------- MODULE MCAddrSpace -----------------------------
(* Instances of AddrSpace for TLC. *)
EXTENDS AddrSpace, TLC

CONSTANTS p0, p1, p2

Symmetry == Permutations(Proc)

CodeOnly == {[code |-> 1, initData |-> 0, rest |-> 0],
             [code |-> 2, initData |-> 0, rest |-> 1]}
WithData == {[code |-> 1, initData |-> 1, rest |-> 0],
             [code |-> 2, initData |-> 1, rest |-> 0],
             [code |-> 1, initData |-> 0, rest |-> 0]}
=============================================================================
