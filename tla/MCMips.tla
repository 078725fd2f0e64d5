------------------------------- MODULE MCMips -------------------------------
(***************************************************************************)
(* Three-instruction programs for the simulated CPU: an instruction that   *)
(* opens a delay slot or changes memory, any instruction word after it,    *)
(* and a fixed third one, which reads what the first two left.             *)
(***************************************************************************)
EXTENDS Mips, TLC

MCGPR == {0, 1, 2, 3, 31}

Fields(op, fn, rs, rt, rd, sh, imm, tgt) ==
    [op |-> op, fn |-> fn, rs |-> rs, rt |-> rt, rd |-> rd, sh |-> sh,
     imm |-> imm, tgt |-> tgt]

IType(op, rs, rt, imm) == Fields(op, 0, rs, rt, 0, 0, imm, 0)
RType(fn, rs, rt, rd) == Fields(0, fn, rs, rt, rd, 3, 0, 0)

\* Delay slots (loads to a register the next instruction may use, taken and
\* untaken branches, jumps), stores, and writers of hi, lo and r0.
Firsts ==
    {IType(\o43, 2, 1, 0), IType(\o40, 2, 3, 1), IType(\o46, 2, 1, 4),
     IType(\o43, 2, 31, 4), IType(\o43, 2, 0, 0),
     IType(\o04, 0, 0, 1), IType(1, 1, 17, 1), IType(\o53, 2, 1, 4),
     RType(\o30, 1, 3, 0), RType(\o41, 1, 3, 0), RType(\o11, 3, 0, 3),
     Fields(2, 0, 0, 0, 0, 0, 0, 2)}

Seconds ==
    {IType(op, 2, 1, imm) : op \in 2..63, imm \in {0, -1}}
    \union {IType(op, 1, 3, 5) : op \in 4..15}
    \union {Fields(op, 0, 0, 0, 0, 0, 0, 1) : op \in {2, 3}}
    \union {IType(1, 1, rt, 1) : rt \in 0..31}
    \union {RType(fn, 1, 3, 3) : fn \in 0..63}
    \union {RType(fn, 3, 1, 31) : fn \in 0..43}

MCCodes == {[a \in {0, 4, 8} |-> CASE a = 0 -> i [] a = 4 -> j [] a = 8 -> RType(\o41, 1, 3, 1)] :
                i \in Firsts, j \in Seconds}

\* r2 addresses the data; r1 and r3 take edge values of a 12-bit word.
MCStarts == {(0 :> 0) @@ (1 :> p[1]) @@ (2 :> 16) @@ (3 :> p[2]) @@ (31 :> 0) :
                p \in {<<5, 8>>, <<-1, -2048>>, <<-2048, 2047>>, <<2047, 5>>, <<0, -1>>}}
MCMemories == {[b \in 16..23 |-> (3 * b + 2) % 8]}
MCResults == {0, -1}
=============================================================================
