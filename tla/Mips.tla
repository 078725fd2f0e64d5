-------------------------------- MODULE Mips --------------------------------
(***************************************************************************)
(* machine/mipssim.cc: the simulated CPU user programs run on, with its    *)
(* branch and load delay slots, its exceptions (Machine::RaiseException)   *)
(* and the interrupts that arrive between two instructions.                *)
(*                                                                         *)
(* An instruction word is a record of its fields: op (bits 31:26), fn      *)
(* (5:0), the register numbers rs, rt, rd, sh (10:6), imm (the low half,   *)
(* sign-extended) and tgt (25:0).  The text is kept apart from the data, so *)
(* a program that reads or writes its own text is left out; so are PrevPC  *)
(* and BadVAddr, which nothing reads.  Address translation is in AddrSpace; *)
(* here an access is legal when it is aligned and inside the data.         *)
(***************************************************************************)
EXTENDS MipsWord, Sequences

CONSTANTS GPR,       \* the register numbers in use, with 0, 2 and 31
          Codes,     \* the texts a program may have: functions on word addresses
          Starts,    \* the register contents a program may be at
          Memories,  \* the contents its data may have
          Results,   \* what a system call may return in r2
          MaxTicks   \* bound on the instructions executed: programs may loop

VARIABLES code, registers, hi, lo, PC, NextPC,
          load,      \* LoadReg and LoadValueReg
          mem,
          status,    \* "running", or how the machine stopped
          ticks      \* instructions executed

vars == <<code, registers, hi, lo, PC, NextPC, load, mem, status, ticks>>

NoLoad == [reg |-> 0, value |-> 0]

-----------------------------------------------------------------------------
(* Decoding: opTable, specialTable and Instruction::Decode.                *)

opTable ==
    <<"SPECIAL", "BCOND", "J", "JAL", "BEQ", "BNE", "BLEZ", "BGTZ",
      "ADDI", "ADDIU", "SLTI", "SLTIU", "ANDI", "ORI", "XORI", "LUI",
      "UNIMP", "UNIMP", "UNIMP", "UNIMP", "RES", "RES", "RES", "RES",
      "RES", "RES", "RES", "RES", "RES", "RES", "RES", "RES",
      "LB", "LH", "LWL", "LW", "LBU", "LHU", "LWR", "RES",
      "SB", "SH", "SWL", "SW", "RES", "RES", "SWR", "RES",
      "UNIMP", "UNIMP", "UNIMP", "UNIMP", "RES", "RES", "RES", "RES",
      "UNIMP", "UNIMP", "UNIMP", "UNIMP", "RES", "RES", "RES", "RES">>

specialTable ==
    <<"SLL", "RES", "SRL", "SRA", "SLLV", "RES", "SRLV", "SRAV",
      "JR", "JALR", "RES", "RES", "SYSCALL", "UNIMP", "RES", "RES",
      "MFHI", "MTHI", "MFLO", "MTLO", "RES", "RES", "RES", "RES",
      "MULT", "MULTU", "DIV", "DIVU", "RES", "RES", "RES", "RES",
      "ADD", "ADDU", "SUB", "SUBU", "AND", "OR", "XOR", "NOR",
      "RES", "RES", "SLT", "SLTU", "RES", "RES", "RES", "RES",
      "RES", "RES", "RES", "RES", "RES", "RES", "RES", "RES",
      "RES", "RES", "RES", "RES", "RES", "RES", "RES", "RES">>

\* The format column of opTable, as the field it makes "extra".
Extra(raw) == CASE opTable[raw.op + 1] \in {"J", "JAL"} -> raw.tgt
                [] opTable[raw.op + 1] = "SPECIAL" -> raw.sh
                [] OTHER -> raw.imm

Decode(raw) ==
    LET first == opTable[raw.op + 1]
    IN  [opCode |-> CASE first = "SPECIAL" -> specialTable[raw.fn + 1]
                      [] first = "BCOND" /\ raw.rt = 0 -> "BLTZ"
                      [] first = "BCOND" /\ raw.rt = 1 -> "BGEZ"
                      [] first = "BCOND" /\ raw.rt = 16 -> "BLTZAL"
                      [] first = "BCOND" /\ raw.rt = 17 -> "BGEZAL"
                      [] first = "BCOND" -> "UNIMP"
                      [] OTHER -> first,
         rs |-> raw.rs, rt |-> raw.rt, rd |-> raw.rd, extra |-> Extra(raw)]

-----------------------------------------------------------------------------
(* The cases of OneInstruction.  Each gives the state the instruction      *)
(* leaves behind: its writes, the load it delays (nextLoadReg and          *)
(* nextLoadValue), pcAfter, and what stopped it.                           *)

Continue == [regs |-> registers, hi |-> hi, lo |-> lo, load |-> NoLoad,
             pcAfter |-> Signed(NextPC + 4), mem |-> mem, stop |-> "no"]

Put(r, v) == [Continue EXCEPT !.regs[r] = Signed(v)]
HiLo(h, l) == [Continue EXCEPT !.hi = h, !.lo = l]
Stop(why) == [Continue EXCEPT !.stop = why]
Delay(r, v) == [Continue EXCEPT !.load = [reg |-> r, value |-> v]]

Truth(b) == IF b THEN 1 ELSE 0

SameSign(x, y) == (x < 0) = (y < 0)

\* Machine::Translate without the page table.
Legal(a, size) == a % size = 0 /\ a .. a + size - 1 \subseteq DOMAIN mem

Adds(i) ==
    LET a == registers[i.rs]
        b == IF i.opCode \in {"ADDI", "ADDIU", "ANDI"} THEN i.extra ELSE registers[i.rt]
        sum == Signed(a + b)
    IN  CASE i.opCode \in {"ADD", "ADDI"} /\ SameSign(a, b) /\ ~SameSign(b, sum)
                -> Stop("Overflow")
          [] i.opCode \in {"ADD", "ADDU"} -> Put(i.rd, sum)
          [] i.opCode \in {"ADDI", "ADDIU"} -> Put(i.rt, sum)
          [] i.opCode = "AND" -> Put(i.rd, AndW(a, b))
          [] i.opCode = "ANDI" -> Put(i.rt, AndW(a, b % 2^(W \div 2)))

\* The linking branches set r31 before they test rs, and fall through.
Branches(i) ==
    LET L == IF i.opCode \in {"BGEZAL", "BLTZAL"}
             THEN [registers EXCEPT ![31] = Signed(NextPC + 4)] ELSE registers
        taken == CASE i.opCode = "BEQ" -> L[i.rs] = L[i.rt]
                   [] i.opCode \in {"BGEZ", "BGEZAL"} -> L[i.rs] >= 0
                   [] i.opCode = "BGTZ" -> L[i.rs] > 0
                   [] i.opCode = "BLEZ" -> L[i.rs] <= 0
                   [] i.opCode \in {"BLTZ", "BLTZAL"} -> L[i.rs] < 0
                   [] i.opCode = "BNE" -> L[i.rs] # L[i.rt]
    IN  [Continue EXCEPT !.regs = L,
                         !.pcAfter = IF taken THEN Signed(NextPC + 4 * i.extra) ELSE @]

\* The most negative word divided by -1 traps on the host, and with it Nachos.
Divides(i) ==
    LET a == registers[i.rs]  b == registers[i.rt]
        ua == Unsigned(a)  ub == Unsigned(b)
    IN  CASE b = 0 -> HiLo(0, 0)
          [] b # 0 /\ i.opCode = "DIV" /\ Quotient(a, b) \notin Word -> Stop("killed")
          [] b # 0 /\ i.opCode = "DIV" /\ Quotient(a, b) \in Word
                -> HiLo(Remainder(a, b), Quotient(a, b))
          [] b # 0 /\ i.opCode = "DIVU" -> HiLo(Signed(ua % ub), Signed(ua \div ub))

\* JALR writes its link before it reads rs.
Jumps(i) ==
    LET link == CASE i.opCode = "JAL" -> Put(31, NextPC + 4)
                  [] i.opCode = "JALR" -> Put(i.rd, NextPC + 4)
                  [] OTHER -> Continue
        after == Unsigned(link.pcAfter)
    IN  [link EXCEPT !.pcAfter =
            IF i.opCode \in {"J", "JAL"}
            THEN Signed(after - (after % 2^(W-4)) + 4 * i.extra)
            ELSE link.regs[i.rs]]

Loads(i) ==
    LET a == Signed(registers[i.rs] + i.extra)
        size == [LB |-> 1, LBU |-> 1, LH |-> 2, LHU |-> 2][i.opCode]
        value == Bytes(mem, a, size)
    IN  IF ~Legal(a, size) THEN Stop("AddressError")
        ELSE Delay(i.rt, IF i.opCode \in {"LB", "LH"}
                         THEN Extend(value, (W \div 4) * size) ELSE value)

LoadUpper(i) == Put(i.rt, ShiftLeft(i.extra, W \div 2))

LoadWord(i) ==
    LET a == Signed(registers[i.rs] + i.extra)
    IN  IF ~Legal(a, 4) THEN Stop("AddressError")
        ELSE Delay(i.rt, Signed(Bytes(mem, a, 4)))

\* Only the aligned case passes the ASSERT.  LWR merges with the pending load
\* of the same register.
LoadParts(i) ==
    LET a == Signed(registers[i.rs] + i.extra)
        value == Signed(Bytes(mem, a, 4))
        old == IF load.reg = i.rt THEN load.value ELSE registers[i.rt]
        B == W \div 4
    IN  CASE a % 4 # 0 -> Stop("assert")
          [] a % 4 = 0 /\ ~Legal(a, 4) -> Stop("AddressError")
          [] Legal(a, 4) /\ i.opCode = "LWL" -> Delay(i.rt, value)
          [] Legal(a, 4) /\ i.opCode = "LWR"
                -> Delay(i.rt, Signed(Unsigned(old) - (Unsigned(old) % 2^B)
                                      + Unsigned(value) \div 2^(3 * B)))

\* Mult's loop: bits of a from the lowest, b shifted left in the pair bHi, bLo.
RECURSIVE MultLoop(_, _, _, _, _, _)
MultLoop(n, a, bHi, bLo, h, l) ==
    IF n = W THEN <<h, l>>
    ELSE LET odd == a % 2 = 1
             l2 == IF odd THEN Unsigned(l + bLo) ELSE l
             h2 == IF odd THEN Unsigned(h + Truth(l2 < bLo) + bHi) ELSE h
         IN  IF odd /\ Unsigned(a) < 2 THEN <<h2, l2>>
             ELSE MultLoop(n + 1, ShiftRight(a, 1),
                           Unsigned(2 * bHi + bLo \div 2^(W-1)), Unsigned(2 * bLo), h2, l2)

\* Mutant: the sign of b is forgotten.
MultSignOfA(a, b, signedArith) ==
    LET m(x) == IF signedArith THEN Signed(Abs(x)) ELSE x
        p == MultLoop(0, m(a), 0, Unsigned(m(b)), 0, 0)
        l == Unsigned(-p[2])
        h == Unsigned(NotW(p[1]) + Truth(l = 0))
    IN  IF a = 0 \/ b = 0 THEN <<0, 0>>
        ELSE IF signedArith /\ a < 0 THEN <<Signed(h), Signed(l)>>
        ELSE <<Signed(p[1]), Signed(p[2])>>

Mult(a, b, signedArith) ==
    LET negative == signedArith /\ ~SameSign(a, b)
        m(x) == IF signedArith THEN Signed(Abs(x)) ELSE x
        p == MultLoop(0, m(a), 0, Unsigned(m(b)), 0, 0)
        l == Unsigned(-p[2])
        h == Unsigned(NotW(p[1]) + Truth(l = 0))
    IN  IF a = 0 \/ b = 0 THEN <<0, 0>>
        ELSE IF negative THEN <<Signed(h), Signed(l)>>
        ELSE <<Signed(p[1]), Signed(p[2])>>

HiLoMoves(i) ==
    LET p == Mult(registers[i.rs], registers[i.rt], i.opCode = "MULT")
    IN  CASE i.opCode = "MFHI" -> Put(i.rd, hi)
          [] i.opCode = "MFLO" -> Put(i.rd, lo)
          [] i.opCode = "MTHI" -> HiLo(registers[i.rs], lo)
          [] i.opCode = "MTLO" -> HiLo(hi, registers[i.rs])
          [] i.opCode \in {"MULT", "MULTU"} -> HiLo(p[1], p[2])

\* OR combines rs with itself.
Ors(i) ==
    LET a == registers[i.rs]
    IN  CASE i.opCode = "NOR" -> Put(i.rd, NotW(OrW(a, registers[i.rt])))
          [] i.opCode = "OR"  -> Put(i.rd, OrW(a, a))
          [] i.opCode = "ORI" -> Put(i.rt, OrW(a, i.extra % 2^(W \div 2)))

Store(i, size) ==
    LET a == Signed(registers[i.rs] + i.extra)
    IN  IF ~Legal(a, size) THEN Stop("AddressError")
        ELSE [Continue EXCEPT !.mem = PutBytes(mem, a, size, registers[i.rt])]

StoreByteOrHalf(i) == Store(i, IF i.opCode = "SB" THEN 1 ELSE 2)
StoreWord(i) == Store(i, 4)

\* Only the aligned case passes the ASSERT: SWL stores the whole word, SWR its
\* low byte into the highest one.
StoreParts(i) ==
    LET a == Signed(registers[i.rs] + i.extra)
        B == W \div 4
        value == IF i.opCode = "SWL" THEN registers[i.rt]
                 ELSE Signed((Bytes(mem, a, 4) % 2^(3 * B))
                             + Unsigned(registers[i.rt] * 2^(3 * B)))
    IN  CASE a % 4 # 0 -> Stop("assert")
          [] a % 4 = 0 /\ ~Legal(a, 4) -> Stop("AddressError")
          [] Legal(a, 4) -> [Continue EXCEPT !.mem = PutBytes(mem, a, 4, value)]

\* The right shifts all shift the signed tmp.
ShiftsAndSets(i) ==
    LET a == registers[i.rs]  b == registers[i.rt]
        amount == IF i.opCode \in {"SLL", "SRA", "SRL"} THEN i.extra
                  ELSE Unsigned(a) % W
    IN  CASE i.opCode \in {"SLL", "SLLV"} -> Put(i.rd, ShiftLeft(b, amount))
          [] i.opCode \in {"SRA", "SRAV", "SRL", "SRLV"} -> Put(i.rd, ShiftRight(b, amount))
          [] i.opCode = "SLT" -> Put(i.rd, Truth(a < b))
          [] i.opCode = "SLTI" -> Put(i.rt, Truth(a < i.extra))
          [] i.opCode = "SLTIU" -> Put(i.rt, Truth(Unsigned(a) < Unsigned(i.extra)))
          [] i.opCode = "SLTU" -> Put(i.rd, Truth(Unsigned(a) < Unsigned(b)))
          [] i.opCode = "SUB" /\ ~SameSign(a, b) /\ ~SameSign(a, Signed(a - b))
                -> Stop("Overflow")
          [] i.opCode \in {"SUB", "SUBU"} -> Put(i.rd, a - b)

Others(i) ==
    LET a == registers[i.rs]
    IN  CASE i.opCode = "SYSCALL" -> Stop("Syscall")
          [] i.opCode = "XOR" -> Put(i.rd, XorW(a, registers[i.rt]))
          [] i.opCode = "XORI" -> Put(i.rt, XorW(a, i.extra % 2^(W \div 2)))
          [] i.opCode \in {"RES", "UNIMP"} -> Stop("IllegalInstr")

Execution(i) ==
    LET op == i.opCode
    IN  CASE op \in {"ADD", "ADDI", "ADDIU", "ADDU", "AND", "ANDI"} -> Adds(i)
          [] op \in {"BEQ", "BGEZAL", "BGEZ", "BGTZ", "BLEZ", "BLTZAL", "BLTZ", "BNE"}
                -> Branches(i)
          [] op \in {"DIV", "DIVU"} -> Divides(i)
          [] op \in {"JAL", "J", "JALR", "JR"} -> Jumps(i)
          [] op \in {"LB", "LBU", "LH", "LHU"} -> Loads(i)
          [] op = "LUI" -> LoadUpper(i)
          [] op = "LW" -> LoadWord(i)
          [] op \in {"LWL", "LWR"} -> LoadParts(i)
          [] op \in {"MFHI", "MFLO", "MTHI", "MTLO", "MULT", "MULTU"} -> HiLoMoves(i)
          [] op \in {"NOR", "OR", "ORI"} -> Ors(i)
          [] op \in {"SB", "SH"} -> StoreByteOrHalf(i)
          [] op \in {"SLL", "SLLV", "SLT", "SLTI", "SLTIU", "SLTU", "SRA", "SRAV",
                     "SRL", "SRLV", "SUB", "SUBU"} -> ShiftsAndSets(i)
          [] op = "SW" -> StoreWord(i)
          [] op \in {"SWL", "SWR"} -> StoreParts(i)
          [] OTHER -> Others(i)

-----------------------------------------------------------------------------

\* Machine::DelayedLoad on the registers R: the pending load is applied over
\* what the instruction wrote, and r0 is cleared.
DelayedLoad(R, next) ==
    /\ registers' = [R EXCEPT ![load.reg] = load.value, ![0] = 0]
    /\ load' = next

Init ==
    /\ code \in Codes
    /\ registers \in Starts
    /\ hi = 0 /\ lo = 0
    /\ PC = 0 /\ NextPC = 4
    /\ load = NoLoad
    /\ mem \in Memories
    /\ status = "running"
    /\ ticks = 0

\* Machine::Run: one more instruction is fetched and decoded.
Fetched ==
    /\ status = "running" /\ PC \in DOMAIN code
    /\ ticks < MaxTicks /\ ticks' = ticks + 1

\* The instruction at PC completes: Machine::OneInstruction to its end.
Complete ==
    LET e == Execution(Decode(code[PC]))
    IN  /\ Fetched
        /\ e.stop = "no"
        /\ DelayedLoad(e.regs, e.load)
        /\ PC' = NextPC /\ NextPC' = e.pcAfter
        /\ hi' = e.hi /\ lo' = e.lo /\ mem' = e.mem
        /\ UNCHANGED <<code, status>>

\* RaiseException(SyscallException): the pending load is applied, the handler
\* may write the program's data (System2User) and leave a result in r2, and
\* IncreasePC steps over the instruction.
Syscall ==
    /\ Fetched
    /\ Execution(Decode(code[PC])).stop = "Syscall"
    /\ LET R == [registers EXCEPT ![load.reg] = load.value, ![0] = 0]
       IN  \E v \in Results \union {R[2]} : registers' = [R EXCEPT ![2] = v]
    /\ load' = NoLoad
    /\ mem' \in Memories \union {mem}
    /\ PC' = NextPC /\ NextPC' = Signed(NextPC + 4)
    /\ UNCHANGED <<code, hi, lo, status>>

\* Any other exception, the fetch of an unmapped address included, and the
\* system call Halt: OneInstruction returns with what it has done so far, and
\* the handler of exception.cc halts Nachos.
Exception ==
    LET e == IF PC \in DOMAIN code THEN Execution(Decode(code[PC])) ELSE Stop("AddressError")
    IN  /\ status = "running"
        /\ e.stop \in {"Overflow", "AddressError", "IllegalInstr", "Syscall"}
        /\ DelayedLoad(e.regs, NoLoad)
        /\ hi' = e.hi /\ lo' = e.lo /\ mem' = e.mem
        /\ status' = "halted"
        /\ UNCHANGED <<code, PC, NextPC, ticks>>

\* A failed ASSERT, or a host trap, in the simulator itself.
Abort ==
    /\ Fetched
    /\ Execution(Decode(code[PC])).stop \in {"assert", "killed"}
    /\ status' = Execution(Decode(code[PC])).stop
    /\ UNCHANGED <<code, registers, hi, lo, PC, NextPC, load, mem>>

\* Mutant: the pending load is dropped.
InterruptDropsLoad ==
    /\ status = "running"
    /\ load' = NoLoad
    /\ UNCHANGED <<code, registers, hi, lo, PC, NextPC, mem, status, ticks>>

\* Interrupt::CheckIfDue between two instructions of Machine::Run.
Interrupt ==
    /\ status = "running"
    /\ DelayedLoad(registers, NoLoad)
    /\ UNCHANGED <<code, hi, lo, PC, NextPC, mem, status, ticks>>

Next == Complete \/ Syscall \/ Exception \/ Abort \/ Interrupt

Spec == Init /\ [][Next]_vars

-----------------------------------------------------------------------------
(* The two MIPS interpreters of the repository compared: this one, seen     *)
(* without its load delay, against that of bin/ (Execute), which has none.  *)

\* The registers a program that keeps the load delay slot free can tell apart:
\* the pending load counts as done.
Flushed == [registers EXCEPT ![load.reg] = load.value, ![0] = 0]

Reference == INSTANCE Execute WITH
    Reg <- Flushed, HI <- hi, LO <- lo, pc <- PC, npc <- NextPC

Current == Decode(code[PC])

Transfers == {"BEQ", "BNE", "BLEZ", "BGTZ", "BLTZ", "BGEZ", "BLTZAL", "BGEZAL",
              "J", "JAL", "JR", "JALR"}

\* The next instruction uses neither the register of a pending load nor, as a
\* branch, the delay slot of another branch: the rules of MIPS assembly.
FollowsRules ==
    /\ load.reg = 0 \/ load.reg \notin {Current.rs, Current.rt, Current.rd, 31}
    /\ Current.opCode \in Transfers => NextPC = Signed(PC + 4)

\* Where the two differ, operation by operation.  The first three are wrong
\* in mipssim.cc (OR ignores rt; SRL and SRLV shift the sign in), the next
\* four in execute.c (immediates sign-extended, carries of a product lost,
\* LWL and LWR of an aligned word); the rest are cases the architecture leaves
\* open, or system calls, which belong to two different systems.
Differ ==
    LET i == Current
        a == registers[i.rs]  b == registers[i.rt]
        wide(x) == Abs(x) >= 2^(W \div 2)
    IN  \/ i.opCode = "OR" /\ OrW(a, b) # a
        \/ i.opCode \in {"SRL", "SRLV"} /\ b < 0
        \/ i.opCode \in {"ANDI", "ORI", "XORI"} /\ i.extra < 0
        \/ i.opCode = "MULT" /\ (wide(a) \/ wide(b))
        \/ i.opCode = "MULTU" /\ (wide(a) \/ wide(b) \/ a < 0 \/ b < 0)
        \/ i.opCode \in {"LWL", "LWR"}
        \/ i.opCode \in {"DIV", "DIVU"} /\ b = 0
        \/ i.opCode \in {"SWL", "SWR", "SYSCALL"}
        \/ i.opCode = "JALR" /\ i.rd = i.rs
        \/ i.opCode \in {"J", "JAL"}
           /\ Unsigned(PC) \div 2^(W-4) # Unsigned(NextPC + 4) \div 2^(W-4)

\* The tables of mipssim.h and the opcode numbers of encode.h agree on every
\* instruction word: both name the same operation, or both refuse it.
DecodersAgree ==
    \A a \in DOMAIN code :
        LET mine == Decode(code[a]).opCode
            theirs == Reference!OpOf(code[a])
        IN  IF mine \in {"RES", "UNIMP"} THEN theirs = "none" ELSE theirs = mine

\* Outside the listed differences every step of the simulated CPU, seen with
\* its pending load applied, is a step of the stand-alone interpreter, and an
\* exception or an interrupt between two instructions is none at all: neither
\* the load delay, nor the kernel flushing it at any point, is visible to a
\* program that follows the assembly rules.
Simulates ==
    /\ []DecodersAgree
    /\ Reference!Init
    /\ [][(PC \in DOMAIN code => FollowsRules /\ ~Differ)
            => [Reference!Next]_(Reference!vars)]_vars

\* MULT and MULTU leave the double-word product of their operands in hi and
\* lo, signed and unsigned: Mult's shift-and-add loop loses no carry and gets
\* the sign right, for the most negative operand too.
ProductExact ==
    [][(PC' # PC /\ PC \in DOMAIN code) =>
        LET i == Current
            a == registers[i.rs]  b == registers[i.rt]
            Pair(x) == <<Signed(x \div 2^W), Signed(x)>>
        IN  /\ i.opCode = "MULT" => <<hi', lo'>> = Pair(a * b)
            /\ i.opCode = "MULTU" => <<hi', lo'>> = Pair(Unsigned(a) * Unsigned(b))]_vars
=============================================================================
