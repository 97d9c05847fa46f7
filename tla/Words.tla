-------------------------------- MODULE Words --------------------------------
(***************************************************************************)
(* Fixed-width words as naturals.  The instruction modules keep every       *)
(* operand and access size of the code and scale the width of a byte down   *)
(* to ByteBits bits, so that X registers and addresses have XLEN bits and W *)
(* registers WLEN; nothing in the code depends on a byte having eight.      *)
(***************************************************************************)
EXTENDS Integers, FiniteSets, FiniteSetsExt

CONSTANT ByteBits   \* width of a byte

XLEN == 8 * ByteBits
WLEN == 4 * ByteBits

Word(n) == 0 .. 2^n - 1

Low(x, n) == x % 2^n                                \* truncation to n bits
Signed(x, n) == IF x < 2^(n - 1) THEN x ELSE x - 2^n
sext(x, n) == Low(Signed(Low(x, n), n), XLEN)       \* n bits to a register
BitOf(x, k) == (x \div 2^k) % 2

Lsl(x, k, n) == Low(x * 2^k, n)
Lsr(x, k) == x \div 2^k
Asr(x, k, n) == Low(Signed(x, n) \div 2^k, n)
RotateRight(x, k, n) ==
  LET j == k % n IN Lsr(x, j) + Low(x, j) * 2^(n - j)

(* Of math/bits, for words of n bits.                                       *)
ReverseBits(x, n) == SumSet({BitOf(x, k) * 2^(n - 1 - k) : k \in 0 .. n - 1})
LeadingZeros(x, n) == IF x = 0 THEN n ELSE CHOOSE k \in 0 .. n - 1 : BitOf(x, n - 1 - k) = 1 /\ Lsr(x, n - k) = 0

(* Register numbers as the decoder stores them: 31 reads as zero, is the stack *)
(* pointer, or is written to a slot nothing reads.                            *)
rZR == 31
rSP == 32
rSink == 33
rLR == 30
xr(k) == k
xsp(k) == IF k = 31 THEN rSP ELSE k
xw(k) == IF k = 31 THEN rSink ELSE k

(* The register operand of an extended-register instruction.                  *)
extend(x, option) ==
  LET n == ByteBits * 2^(option % 4)
  IN IF option % 4 = 3 THEN x ELSE IF option < 4 THEN Low(x, n) ELSE sext(x, n)

(* Whether condition cc holds of the flags N Z C V, which are bits 3 .. 0.     *)
condTab(cc, f) ==
  LET nf == BitOf(f, 3) = 1   zf == BitOf(f, 2) = 1
      cf == BitOf(f, 1) = 1   vf == BitOf(f, 0) = 1
      base == <<zf, cf, nf, vf, cf /\ ~zf, nf = vf, ~zf /\ nf = vf, TRUE>>[cc \div 2 + 1]
  IN IF cc % 2 = 1 /\ cc # 15 THEN ~base ELSE base

(* Lanes of 2^size bytes an operation works on.                               *)
lanesOf(e, size) == IF e.scalar THEN 1 ELSE (IF e.q = 1 THEN 16 ELSE 8) \div 2^size
=============================================================================
