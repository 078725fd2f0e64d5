------------------------------- MODULE Execute -------------------------------
(***************************************************************************)
(* bin/execute.c: the stand-alone interpreter of MIPS programs, with its   *)
(* opcode numbers (bin/encode.h) and field macros (bin/instr.h).  It has a *)
(* branch delay slot (pc, npc) but no load delay, and checks neither       *)
(* overflow nor alignment.  An instruction word is given by its fields;    *)
(* imm is the low half, read as signed where the macro immed() is used.    *)
(*                                                                         *)
(* Left out: tracing and statistics, the text of error messages, and       *)
(* system_trap's host calls, whose result in Reg[1] is any word.           *)
(***************************************************************************)
EXTENDS MipsWord

VARIABLES code,      \* text: word address -> instruction
          Reg, HI, LO, pc, npc,
          mem        \* data: byte address -> byte

vars == <<code, Reg, HI, LO, pc, npc, mem>>

NormalOps ==
    [J |-> \o02, JAL |-> \o03, BEQ |-> \o04, BNE |-> \o05, BLEZ |-> \o06,
     BGTZ |-> \o07, ADDI |-> \o10, ADDIU |-> \o11, SLTI |-> \o12,
     SLTIU |-> \o13, ANDI |-> \o14, ORI |-> \o15, XORI |-> \o16, LUI |-> \o17,
     LB |-> \o40, LH |-> \o41, LWL |-> \o42, LW |-> \o43, LBU |-> \o44,
     LHU |-> \o45, LWR |-> \o46, SB |-> \o50, SH |-> \o51, SWL |-> \o52,
     SW |-> \o53, SWR |-> \o56]

SpecialOps ==
    [SLL |-> \o00, SRL |-> \o02, SRA |-> \o03, SLLV |-> \o04, SRLV |-> \o06,
     SRAV |-> \o07, JR |-> \o10, JALR |-> \o11, SYSCALL |-> \o14,
     MFHI |-> \o20, MTHI |-> \o21, MFLO |-> \o22, MTLO |-> \o23,
     MULT |-> \o30, MULTU |-> \o31, DIV |-> \o32, DIVU |-> \o33,
     ADD |-> \o40, ADDU |-> \o41, SUB |-> \o42, SUBU |-> \o43, AND |-> \o44,
     OR |-> \o45, XOR |-> \o46, NOR |-> \o47, SLT |-> \o52, SLTU |-> \o53]

BcondOps == [BLTZ |-> \o00, BGEZ |-> \o01, BLTZAL |-> \o20, BGEZAL |-> \o21]

\* The case of the nested switches an instruction selects; "none" is u(), the
\* coprocessor cases and I_BREAK, none of which a Nachos program executes.
OpOf(instr) ==
    LET Named(table, n) == IF \E x \in DOMAIN table : table[x] = n
                           THEN CHOOSE x \in DOMAIN table : table[x] = n
                           ELSE "none"
    IN  CASE instr.op = 0 -> Named(SpecialOps, instr.fn)
          [] instr.op = 1 -> Named(BcondOps, instr.rt)
          [] OTHER -> Named(NormalOps, instr.op)

-----------------------------------------------------------------------------
\* What one instruction does to the registers and to npc.  R is Reg with r0
\* forced to zero, xpc the address of the instruction, next the address after
\* its delay slot.
After(R, h, l, n, m) == [R |-> R, h |-> h, l |-> l, npc |-> n, mem |-> m]

Set(R, r, v, next) == After([R EXCEPT ![r] = Signed(v)], HI, LO, next, mem)

Truth(b) == IF b THEN 1 ELSE 0

\* The outcomes of a C shift: by an amount outside the word it is undefined,
\* and the host may give any word.
Shifted(Op(_, _), x, n) == IF n \in 0 .. W - 1 THEN {Op(x, n)} ELSE Word

Shifts(i, op, R, next) ==
    LET x == R[i.rt]
        outcomes == CASE op = "SLL"  -> {ShiftLeft(x, i.sh)}
                      [] op = "SRL"  -> {ShiftRightU(x, i.sh)}
                      [] op = "SRA"  -> {ShiftRight(x, i.sh)}
                      [] op = "SLLV" -> Shifted(ShiftLeft, x, R[i.rs])
                      [] op = "SRLV" -> Shifted(ShiftRightU, x, R[i.rs])
                      [] op = "SRAV" -> Shifted(ShiftRight, x, R[i.rs])
    IN  {Set(R, i.rd, v, next) : v \in outcomes}

RegisterJumps(i, op, R, xpc, next) ==
    CASE op = "JR"   -> {After(R, HI, LO, R[i.rs], mem)}
      [] op = "JALR" -> {Set(R, i.rd, xpc + 8, R[i.rs])}

HiLoMoves(i, op, R, next) ==
    CASE op = "MFHI" -> {Set(R, i.rd, HI, next)}
      [] op = "MTHI" -> {After(R, R[i.rs], LO, next, mem)}
      [] op = "MFLO" -> {Set(R, i.rd, LO, next)}
      [] op = "MTLO" -> {After(R, HI, R[i.rs], next, mem)}

\* The high word from the halves of the operands, without the carries of the
\* low partial products.
HighWord(t1, t2) ==
    LET H == W \div 2
        low(x) == Unsigned(x) % 2^H
        high(x) == Unsigned(x) \div 2^H
    IN  Signed(high(t1) * high(t2) + ShiftRight(Signed(high(t1) * low(t2)), H)
                                   + ShiftRight(Signed(high(t2) * low(t1)), H))

Multiplies(i, op, R, next) ==
    LET a == R[i.rs]  b == R[i.rt]
        neg == (a < 0) # (b < 0)
        t1 == Signed(Abs(a))  t2 == Signed(Abs(b))
        lo == Signed(t1 * t2)
        hi == HighWord(t1, t2)
    IN  CASE op = "MULT" /\ neg ->
                {After(R, Signed(NotW(hi) + Truth(lo = 0)), Signed(-lo), next, mem)}
          [] op = "MULT" /\ ~neg -> {After(R, hi, lo, next, mem)}
          [] op = "MULTU" -> {After(R, HighWord(a, b), Signed(a * b), next, mem)}

\* A division the host traps on ends the interpreter: there is no outcome.
Divides(i, op, R, next) ==
    LET a == R[i.rs]  b == R[i.rt]
        ua == Unsigned(a)  ub == Unsigned(b)
    IN  IF b = 0 \/ (op = "DIV" /\ Quotient(a, b) \notin Word) THEN {}
        ELSE IF op = "DIV"
        THEN {After(R, Remainder(a, b), Quotient(a, b), next, mem)}
        ELSE {After(R, Signed(ua % ub), Signed(ua \div ub), next, mem)}

Arithmetic(i, op, R, next) ==
    LET a == R[i.rs]  b == R[i.rt]
    IN  {Set(R, i.rd,
             CASE op \in {"ADD", "ADDU"} -> a + b
               [] op \in {"SUB", "SUBU"} -> a - b
               [] op = "AND" -> AndW(a, b)
               [] op = "OR"  -> OrW(a, b)
               [] op = "XOR" -> XorW(a, b)
               [] op = "NOR" -> NotW(OrW(a, b))
               [] op = "SLT" -> Truth(a < b)
               [] op = "SLTU" -> Truth(Unsigned(a) < Unsigned(b)), next)}

\* A conditional branch: the target is relative to the delay slot xpc + 4.
Branch(R, taken, i, xpc, next) ==
    {After(R, HI, LO, IF taken THEN Signed(xpc + 4 + 4 * i.imm) ELSE next, mem)}

SignBranches(i, op, R, xpc, next) ==
    LET L == IF op \in {"BLTZAL", "BGEZAL"}
             THEN [R EXCEPT ![31] = Signed(xpc + 8)] ELSE R
    IN  Branch(L, (op \in {"BLTZ", "BLTZAL"}) = (L[i.rs] < 0), i, xpc, next)

CompareBranches(i, op, R, xpc, next) ==
    LET a == R[i.rs]
        taken == CASE op = "BEQ" -> a = R[i.rt]
                   [] op = "BNE" -> a # R[i.rt]
                   [] op = "BLEZ" -> a <= 0
                   [] op = "BGTZ" -> a > 0
    IN  Branch(R, taken, i, xpc, next)

\* The target replaces the low W - 4 bits of the address of the instruction.
Jumps(i, op, R, xpc) ==
    LET target == Signed(Unsigned(xpc) - (Unsigned(xpc) % 2^(W-4)) + 4 * i.tgt)
    IN  IF op = "J" THEN {After(R, HI, LO, target, mem)}
        ELSE {Set(R, 31, xpc + 8, target)}

\* immed() is sign-extended for the logical operations too.
Immediates(i, op, R, next) ==
    LET a == R[i.rs]
    IN  {Set(R, i.rt,
             CASE op \in {"ADDI", "ADDIU"} -> a + i.imm
               [] op = "SLTI" -> Truth(a < i.imm)
               [] op = "SLTIU" -> Truth(Unsigned(a) < Unsigned(i.imm))
               [] op = "ANDI" -> AndW(a, i.imm)
               [] op = "ORI"  -> OrW(a, i.imm)
               [] op = "XORI" -> XorW(a, i.imm)
               [] op = "LUI"  -> ShiftLeft(i.imm, W \div 2), next)}

\* fetch, sfetch, cfetch and their unsigned forms: any address inside the
\* memory, aligned or not; outside it the host faults.
Loads(i, op, R, next) ==
    LET a == Signed(R[i.rs] + i.imm)
        B == W \div 4
        aligned == a - (a % 4)
        size == [LB |-> 1, LBU |-> 1, LH |-> 2, LHU |-> 2, LW |-> 4,
                 LWL |-> 4, LWR |-> 4][op]
        first == IF op \in {"LWL", "LWR"} THEN aligned ELSE a
        read == Bytes(mem, first, size)
    IN  IF ~(first .. first + size - 1 \subseteq DOMAIN mem) THEN {}
        ELSE {Set(R, i.rt,
                CASE op \in {"LB", "LH", "LW"} -> Extend(read, B * size)
                  [] op \in {"LBU", "LHU"} -> read
                  [] op = "LWL" -> OrW(AndW(R[i.rt], ShiftRight(-1, B * ((-a) % 4))),
                                       ShiftLeft(read, B * (a % 4)))
                  [] op = "LWR" -> OrW(IF a % 4 = 0 THEN 0
                                       ELSE AndW(R[i.rt], ShiftLeft(-1, B * (a % 4))),
                                       ShiftRight(Signed(read), B * ((-a) % 4))), next)}

Stores(i, op, R, next) ==
    LET a == Signed(R[i.rs] + i.imm)
        size == [SB |-> 1, SH |-> 2, SW |-> 4][op]
    IN  IF ~(a .. a + size - 1 \subseteq DOMAIN mem) THEN {}
        ELSE {After(R, HI, LO, next, PutBytes(mem, a, size, R[i.rt]))}

\* system_trap: exit() or an unknown call ends the interpreter, the others
\* leave a result in Reg[1].
system_trap(R, next) == {Set(R, 1, v, next) : v \in Word}

Outcomes(i, R) ==
    LET op == OpOf(i)
        next == Signed(npc + 4)
    IN  CASE op \in {"SLL", "SRL", "SRA", "SLLV", "SRLV", "SRAV"} -> Shifts(i, op, R, next)
          [] op \in {"JR", "JALR"} -> RegisterJumps(i, op, R, pc, next)
          [] op = "SYSCALL" -> system_trap(R, next)
          [] op \in {"MFHI", "MTHI", "MFLO", "MTLO"} -> HiLoMoves(i, op, R, next)
          [] op \in {"MULT", "MULTU"} -> Multiplies(i, op, R, next)
          [] op \in {"DIV", "DIVU"} -> Divides(i, op, R, next)
          [] op \in {"ADD", "ADDU", "SUB", "SUBU", "AND", "OR", "XOR", "NOR", "SLT", "SLTU"}
                -> Arithmetic(i, op, R, next)
          [] op \in DOMAIN BcondOps -> SignBranches(i, op, R, pc, next)
          [] op \in {"BEQ", "BNE", "BLEZ", "BGTZ"} -> CompareBranches(i, op, R, pc, next)
          [] op \in {"J", "JAL"} -> Jumps(i, op, R, pc)
          [] op \in {"ADDI", "ADDIU", "SLTI", "SLTIU", "ANDI", "ORI", "XORI", "LUI"}
                -> Immediates(i, op, R, next)
          [] op \in {"LB", "LH", "LWL", "LW", "LBU", "LHU", "LWR"} -> Loads(i, op, R, next)
          [] op \in {"SB", "SH", "SW"} -> Stores(i, op, R, next)
          [] OTHER -> {}        \* SWL, SWR, u() and coprocessors: exit(2)

-----------------------------------------------------------------------------
Init ==
    /\ pc = 0 /\ npc = 4

\* One turn of the loop.  Reg[0] is forced to zero at the head of every turn;
\* nothing reads it between two turns, so the model clears it at the end.
Step ==
    /\ pc \in DOMAIN code
    /\ \E o \in Outcomes(code[pc], [Reg EXCEPT ![0] = 0]) :
        /\ Reg' = [o.R EXCEPT ![0] = 0]
        /\ HI' = o.h /\ LO' = o.l
        /\ pc' = npc /\ npc' = o.npc
        /\ mem' = o.mem
    /\ UNCHANGED code

Next == Step
=============================================================================
