------------------------------ MODULE MipsWord ------------------------------
(***************************************************************************)
(* W-bit two's complement arithmetic and little-endian memory, as the C of *)
(* machine/mipssim.cc and bin/execute.c uses them.  The machine has W = 32 *)
(* (a word is four bytes, a halfword two); TLC checks a smaller W, which   *)
(* keeps the layout: a byte is W/4 bits, a halfword W/2.                   *)
(***************************************************************************)
EXTENDS Integers, Bitwise

CONSTANT W      \* bits in a word, a multiple of 4

ASSUME WordAssumption == W \in Nat /\ W > 0 /\ W % 4 = 0

Word == -(2^(W-1)) .. 2^(W-1) - 1

Unsigned(x) == x % 2^W
Signed(x) == ((x + 2^(W-1)) % 2^W) - 2^(W-1)

\* Sign extension of the low n bits of x.
Extend(x, n) == ((x + 2^(n-1)) % 2^n) - 2^(n-1)

AndW(x, y) == Signed(Unsigned(x) & Unsigned(y))
OrW(x, y) == Signed(Unsigned(x) | Unsigned(y))
XorW(x, y) == Signed(Unsigned(x) ^^ Unsigned(y))
NotW(x) == -x - 1

\* x << n, the arithmetic x >> n and the logical (unsigned) x >> n.
ShiftLeft(x, n) == Signed(Unsigned(x) * 2^n)
ShiftRight(x, n) == x \div 2^n
ShiftRightU(x, n) == Signed(Unsigned(x) \div 2^n)

\* C's x / y and x % y, which truncate towards zero (y # 0).
Abs(x) == IF x < 0 THEN -x ELSE x
Quotient(x, y) == LET q == Abs(x) \div Abs(y)
                  IN  IF (x < 0) = (y < 0) THEN q ELSE -q
Remainder(x, y) == x - y * Quotient(x, y)

\* The n bytes at address a of memory m as an unsigned number, and m with
\* the low n bytes of v stored at a.
Bytes(m, a, n) ==
    LET part[k \in 0..n] == IF k = 0 THEN 0
                            ELSE part[k-1] + m[a + k - 1] * 2^((W \div 4) * (k-1))
    IN  part[n]
PutBytes(m, a, n, v) ==
    [b \in DOMAIN m |->
        IF b \in a .. a + n - 1
        THEN (Unsigned(v) \div 2^((W \div 4) * (b - a))) % 2^(W \div 4)
        ELSE m[b]]
=============================================================================
