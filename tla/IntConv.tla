------------------------------- MODULE IntConv -------------------------------
(***************************************************************************)
(* ReadIntFunction and PrintIntFunction of userprog/exception.cc: the      *)
(* conversions between the integer in a register and the characters of the *)
(* console.  Characters are their codes.  An int has Width bits (32 in the *)
(* program) and wraps.                                                     *)
(***************************************************************************)
EXTENDS Integers, Sequences

CONSTANTS
    Width,     \* bits of an int
    Lines      \* lines a user may type: sequences of codes

ASSUME IntConvAssumption == Width \in Nat /\ Width >= 5

Zero == 48
Nine == 57
Minus == 45
Dot == 46
IntMax == 2 ^ (Width - 1) - 1
IntMin == -(2 ^ (Width - 1))
Int32 == IntMin .. IntMax
Wrap(n) == ((n - IntMin) % 2 ^ Width) + IntMin

\* Division and remainder of C truncate toward 0.
CDiv(a, b) == IF a >= 0 THEN a \div b ELSE -((-a) \div b)
CMod(a, b) == a - b * CDiv(a, b)

\* A byte of buffer that nothing was written to: any character, none of them
\* known; it is no character code.
Uninitialised == -1

-----------------------------------------------------------------------------
\* The while loop of PrintInt that counts the digits.
LengthOf(num) ==
    LET length[count \in Int32] == IF count = 0 THEN 0 ELSE 1 + length[CDiv(count, 10)]
    IN  length[num]

\* tempNum after k rounds of the loop that stores the digits.
TempNum(num, k) ==
    LET temp[i \in 0 .. k] == IF i = 0 THEN num ELSE CDiv(temp[i - 1], 10)
    IN  temp[k]

(* What PrintInt(num) gives to Write.  num is negated when it is negative,  *)
(* tempNum is not; the later test of num < 0 holds for the least int only.  *)
Printed(num) ==
    LET length == LengthOf(num)
        startPos == IF num < 0 THEN 1 ELSE 0
        positive == IF num < 0 THEN Wrap(-num) ELSE num
        buffer == [i \in 0 .. startPos + length - 1 |->
                      IF i < startPos
                      THEN IF positive < 0 THEN Minus ELSE Uninitialised
                      ELSE CMod(TempNum(num, startPos + length - 1 - i), 10) + Zero]
        written == IF positive < 0 THEN length + 1 ELSE length
    IN  IF num = 0 THEN <<Zero>> ELSE [i \in 1 .. written |-> buffer[i - 1]]

-----------------------------------------------------------------------------
\* Byte i of the buffer that Read cleared and filled with the line.
Buffer(line, i) == IF i < Len(line) THEN line[i + 1] ELSE 0

IsNegative(line) == Buffer(line, 0) = Minus
StartPos(line) == IF IsNegative(line) THEN 1 ELSE 0
IsDigit(c) == c \in Zero .. Nine

\* Mutant of ReadResult: the sign is dropped.
ReadResultUnsigned(line) ==
    LET n == Len(line)
        start == StartPos(line)
        end == IF n > start THEN n - 1 ELSE start
        res[i \in start - 1 .. end] ==
            IF i < start THEN 0 ELSE Wrap(res[i - 1] * 10 + (Buffer(line, i) - Zero))
    IN  IF \E i \in start .. n - 1 : ~IsDigit(Buffer(line, i)) THEN 0 ELSE res[end]

(* The value ReadInt returns for a line.  The test for '.' comes after one  *)
(* that '.' already fails.  Without a digit, endPos stays at startPos and   *)
(* the byte there, 0, is converted.                                         *)
ReadResult(line) ==
    LET n == Len(line)
        start == StartPos(line)
        end == IF n > start THEN n - 1 ELSE start
        res[i \in start - 1 .. end] ==
            IF i < start THEN 0 ELSE Wrap(res[i - 1] * 10 + (Buffer(line, i) - Zero))
    IN  IF \E i \in start .. n - 1 : ~IsDigit(Buffer(line, i)) THEN 0
        ELSE IF IsNegative(line) THEN Wrap(-res[end]) ELSE res[end]

-----------------------------------------------------------------------------
VARIABLES
    phase,     \* "start", "shown" after PrintInt, "end" after ReadInt
    screen,    \* characters of PrintInt
    r4, r2,    \* its argument; the result of ReadInt
    keys       \* the line typed for it

convVars == <<phase, screen, r4, r2, keys>>

ConvInit ==
    /\ phase = "start"
    /\ screen = <<>>
    /\ r4 = 0
    /\ r2 = 0
    /\ keys = <<Zero>>

PrintInt(num) ==
    /\ phase = "start"
    /\ phase' = "shown"
    /\ r4' = num
    /\ screen' = Printed(num)
    /\ UNCHANGED <<r2, keys>>

ReadInt(line) ==
    /\ phase' = "end"
    /\ keys' = line
    /\ r2' = ReadResult(line)
    /\ UNCHANGED <<screen, r4>>

(* A program prints a number, or a user types a line or what was printed.   *)
ConvNext ==
    \/ \E num \in Int32 : PrintInt(num)
    \/ phase = "start" /\ \E line \in Lines : ReadInt(line)
    \/ phase = "shown" /\ (\A i \in DOMAIN screen : screen[i] # Uninitialised)
                    /\ ReadInt(screen)

ConvSpec == ConvInit /\ [][ConvNext]_convVars

-----------------------------------------------------------------------------
\* Reference: the numbers that a line of digits with an optional sign denotes.
Denotes(line, n) ==
    LET body == IF IsNegative(line) THEN Tail(line) ELSE line
        val[k \in 0 .. Len(body)] ==
            IF k = 0 THEN 0 ELSE 10 * val[k - 1] + (body[k] - Zero)
    IN  /\ body # <<>>
        /\ \A i \in DOMAIN body : IsDigit(body[i])
        /\ n = IF IsNegative(line) THEN -val[Len(body)] ELSE val[Len(body)]

\* PrintInt shows a number that is not negative as its decimal numeral, without
\* a leading zero; ReadInt returns the number that a numeral denotes, when it is
\* an int.
ConversionsExact ==
    /\ screen # <<>> /\ r4 >= 0
          => Denotes(screen, r4) /\ (screen[1] = Zero => r4 = 0)
    /\ \A n \in Int32 : Denotes(keys, n) => r2 = n
=============================================================================
