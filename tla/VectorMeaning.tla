---------------------------- MODULE VectorMeaning -----------------------------
(***************************************************************************)
(* What the integer vector instructions of Vectors mean in the architecture, *)
(* lane by lane on integers, and bit by bit where an operation is bitwise.   *)
(***************************************************************************)
EXTENDS Vectors

(* Lane l of n bytes, unsigned and signed.                                    *)
NatLane(v, n, l) == LET f[k \in 0 .. n] == IF k = n THEN 0 ELSE v[n * l + k] + 2^ByteBits * f[k + 1] IN f[0]
IntLane(v, n, l) == Signed(NatLane(v, n, l), Width(n))
Num(e, v, n, l) == IF e.u = 1 THEN NatLane(v, n, l) ELSE IntLane(v, n, l)

Truth(p, n) == IF p THEN 2^Width(n) - 1 ELSE 0
Clamp(x, lo, hi) == IF x < lo THEN lo ELSE IF x > hi THEN hi ELSE x
SignedClamp(x, n) == Clamp(x, 0 - 2^(Width(n) - 1), 2^(Width(n) - 1) - 1)
UnsignedClamp(x, n) == Clamp(x, 0, 2^Width(n) - 1)
Distance(x, y) == IF x < y THEN y - x ELSE x - y
Scaled(x, k) == IF k < 0 THEN x \div 2^(0 - k) ELSE x * 2^k
Larger(x, y) == IF x < y THEN y ELSE x
Smaller(x, y) == IF x < y THEN x ELSE y

Size(e) == 2^e.size
Long(e) == 8 * (1 + e.q)                         \* bytes of the operands
Count(e) == IF e.scalar THEN 1 ELSE Long(e) \div Size(e)

(* Register t holds lane(l) in its first c lanes of n bytes and zero above.    *)
Holds(t, n, c, lane(_)) ==
  \A l \in 0 .. (16 \div n) - 1 : NatLane(t, n, l) = IF l < c THEN Low(lane(l), Width(n)) ELSE 0

(* ... in one half of it, the lower half being cleared or the upper added.     *)
HalfHolds(t, d, n, upper, lane(_)) ==
  LET c == 8 \div n
  IN \A l \in 0 .. 2 * c - 1 :
       NatLane(t, n, l) = IF upper = 1 THEN IF l < c THEN NatLane(d, n, l) ELSE Low(lane(l - c), Width(n))
                       ELSE IF l < c THEN Low(lane(l), Width(n)) ELSE 0

-----------------------------------------------------------------------------
(* The encodings the interpreter is to run: those of the architecture less    *)
(* the saturating shifts and doublings, the pairwise long additions, PMULL    *)
(* and the floating-point and extension encodings of each group.              *)
Runs(e) ==
  CASE e.class = "same" ->
         LET both == {6, 7, 8} \cup {16, 17}
         IN /\ e.opcode \notin {9, 10, 11, 22} /\ ~(e.opcode = 23 /\ e.u = 1)
            /\ e.scalar => (e.opcode \in both /\ e.size = 3) \/ e.opcode \in {1, 5}
            /\ ~e.scalar /\ e.opcode # 3 /\ e.size = 3 => e.q = 1 /\ e.opcode \in both \cup {1, 5, 23}
            /\ ~(e.opcode = 19 /\ e.u = 1 /\ e.size # 0)
    [] e.class = "diff" -> e.size < 3 /\ e.opcode \notin {9, 11, 13, 14, 15}
    [] e.class = "misc" ->
         CASE e.opcode = 0 -> ~e.scalar /\ e.size < 3 - e.u
           [] e.opcode = 1 -> ~e.scalar /\ e.u = 0 /\ e.size = 0
           [] e.opcode = 4 -> ~e.scalar /\ e.size < 3
           [] e.opcode = 5 -> ~e.scalar /\ e.size <= e.u
           [] e.opcode \in {8, 9, 11} \/ (e.opcode = 10 /\ e.u = 0) ->
                IF e.scalar THEN e.size = 3 ELSE e.size = 3 => e.q = 1
           [] e.opcode = 18 -> e.size < 3 /\ (e.scalar => e.u = 1)
           [] e.opcode = 19 -> e.size < 3 /\ ~e.scalar /\ e.u = 1
           [] e.opcode = 20 -> e.size < 3
           [] OTHER -> FALSE
    [] e.class = "across" ->
         /\ e.opcode \in {3, 10, 26} \/ (e.opcode = 27 /\ e.u = 0)
         /\ e.size < 3 /\ (e.size = 2 => e.q = 1)
    [] e.class = "copy" ->
         /\ e.imm5 % 16 # 0
         /\ LET wide == e.imm5 % 8 = 0
                single == e.imm5 % 8 = 4
            IN CASE e.scalar -> e.u = 0 /\ e.imm4 = 0
                 [] ~e.scalar /\ e.u = 1 -> e.q = 1
                 [] OTHER -> CASE e.imm4 \in {0, 1} -> wide => e.q = 1
                               [] e.imm4 = 3 -> e.q = 1
                               [] e.imm4 = 5 -> ~wide /\ (single => e.q = 1)
                               [] e.imm4 = 7 -> wide = (e.q = 1)
                               [] OTHER -> FALSE
    [] e.class = "fmov" -> e.u = 0 /\ e.m = 0 /\ e.size < 2 /\ e.imm5 = 0
    [] e.class = "modimm" -> e.o2 = 0 /\ ~(e.cmode = 15 /\ e.u = 1 /\ e.q = 0)
    [] e.class = "shift" ->
         /\ e.pos >= ByteBits
         /\ LET wide == e.pos >= 8 * ByteBits
            IN CASE e.opcode \in {0, 2} \/ (e.opcode = 8 /\ e.u = 1) \/ e.opcode = 10 ->
                      IF e.scalar THEN wide ELSE wide => e.q = 1
                 [] e.opcode = 20 \/ (e.opcode \in {16, 17} /\ e.u = 0) -> ~e.scalar /\ ~wide
                 [] OTHER -> FALSE
    [] e.class = "ext" -> e.size = 0 /\ e.imm4 < Long(e)
    [] e.class = "permute" -> e.opcode % 4 # 0 /\ (e.size = 3 => e.q = 1)
    [] e.class = "table" -> e.size = 0
    [] e.class = "indexed" ->
         ~e.scalar /\ e.size \in {1, 2} /\ (IF e.u = 0 THEN e.opcode = 8 ELSE e.opcode \in {0, 4})
    [] OTHER -> e.u = 0 /\ e.opcode = 27 /\ e.size = 3

-----------------------------------------------------------------------------
(* Three registers of the same shape: the lane made of lanes a, b and d.       *)
Same3(e, a, b, d, x, y) ==
  LET n == Size(e)
      u == e.u = 1
      clamp(z) == IF u THEN UnsignedClamp(z, n) ELSE SignedClamp(z, n)
      shift == Signed(Low(b, ByteBits), ByteBits)
      bits == {j \in 0 .. 2 * Width(n) - 2 :
                 Cardinality({i \in 0 .. Width(n) - 1 : BitOf(a, i) = 1 /\ j - i \in 0 .. Width(n) - 1
                                                       /\ BitOf(b, j - i) = 1}) % 2 = 1}
  IN CASE e.opcode = 0 -> (x + y) \div 2 [] e.opcode = 1 -> clamp(x + y)
       [] e.opcode = 2 -> (x + y + 1) \div 2 [] e.opcode = 4 -> (x - y) \div 2
       [] e.opcode = 5 -> clamp(x - y) [] e.opcode = 6 -> Truth(x > y, n)
       [] e.opcode = 7 -> Truth(x >= y, n)
       \* Whatever is shifted out to the right, the sign remains.
       [] e.opcode = 8 -> IF shift >= Width(n) THEN 0 ELSE Scaled(x, Larger(shift, 0 - Width(n)))
       [] e.opcode = 12 -> Larger(x, y) [] e.opcode = 13 -> Smaller(x, y)
       [] e.opcode = 14 -> Distance(x, y) [] e.opcode = 15 -> d + Distance(x, y)
       [] e.opcode = 16 -> IF u THEN a - b ELSE a + b
       [] e.opcode = 17 -> Truth(IF u THEN a = b ELSE \E k \in 0 .. Width(n) - 1 : BitOf(a, k) + BitOf(b, k) = 2, n)
       [] e.opcode = 18 -> IF u THEN d - a * b ELSE d + a * b
       [] OTHER -> IF u THEN SumSet({2^j : j \in bits \cap 0 .. Width(n) - 1}) ELSE a * b

(* The operations bit by bit: a and b are operands, d the destination before.  *)
Bitwise3(e, a, b, d) ==
  CASE e.u = 0 -> (CASE e.size = 0 -> a /\ b [] e.size = 1 -> a /\ ~b [] e.size = 2 -> a \/ b [] OTHER -> a \/ ~b)
    [] OTHER -> CASE e.size = 0 -> a # b [] e.size = 1 -> IF d THEN a ELSE b
                  [] e.size = 2 -> IF b THEN a ELSE d [] OTHER -> IF b THEN d ELSE a

(* Long, wide and narrow operations.                                          *)
Diff3(e, a, b, d) ==
  CASE e.opcode < 2 -> a + b [] e.opcode < 4 -> a - b
    [] e.opcode = 5 -> d + Distance(a, b) [] e.opcode = 7 -> Distance(a, b)
    [] e.opcode = 8 -> d + a * b [] e.opcode = 10 -> d - a * b [] OTHER -> a * b
HighHalf(e, a, b, n) ==
  ((IF e.opcode = 4 THEN a + b ELSE a - b) + (IF e.u = 1 THEN 2^(Width(n) - 1) ELSE 0)) \div 2^Width(n)

SameTop(a, n) ==
  Cardinality({k \in 0 .. n - 2 : \A j \in n - 2 - k .. n - 1 : BitOf(a, j) = BitOf(a, n - 1)})
Misc2(e, a, x, n) ==
  LET w == Width(n)
      set(p(_)) == SumSet({2^k : k \in {j \in 0 .. w - 1 : p(j)}})
      clear(j) == BitOf(a, j) = 0
      mirrored(j) == BitOf(a, w - 1 - j) = 1
  IN CASE e.opcode = 4 -> IF e.u = 1 THEN Cardinality({k \in 0 .. w - 1 : a < 2^k}) ELSE SameTop(a, w)
       [] e.opcode = 5 -> IF e.u = 0 THEN Cardinality({k \in 0 .. w - 1 : BitOf(a, k) = 1})
                          ELSE IF e.size = 0 THEN set(clear) ELSE set(mirrored)
       [] e.opcode = 8 -> Truth(IF e.u = 1 THEN x >= 0 ELSE x > 0, n)
       [] e.opcode = 9 -> Truth(IF e.u = 1 THEN x <= 0 ELSE x = 0, n)
       [] e.opcode = 10 -> Truth(x < 0, n)
       [] OTHER -> IF e.u = 1 THEN 0 - x ELSE Distance(x, 0)

(* A lane of twice the size brought into one: XTN SQXTUN SQXTN UQXTN.          *)
Narrowed(e, v, n, l) ==
  CASE e.opcode = 18 /\ e.u = 0 -> NatLane(v, 2 * n, l)
    [] e.opcode = 18 /\ e.u = 1 -> UnsignedClamp(IntLane(v, 2 * n, l), n)
    [] e.opcode = 20 /\ e.u = 0 -> SignedClamp(IntLane(v, 2 * n, l), n)
    [] OTHER -> UnsignedClamp(NatLane(v, 2 * n, l), n)

(* Bit p of a modified immediate, and of a floating-point one of w bits with   *)
(* an exponent of x bits.                                                      *)
FloatBit(imm, p, w, x) ==
  CASE p = w - 1 -> BitOf(imm, 7) = 1 [] p = w - 2 -> BitOf(imm, 6) = 0
    [] p \in w - x + 1 .. w - 3 -> BitOf(imm, 6) = 1
    [] p \in w - x - 5 .. w - x -> BitOf(imm, p - (w - x - 5)) = 1
    [] OTHER -> FALSE
ImmediateBit(e, p) ==
  LET byte(m) == (p \div ByteBits) % m
      here == BitOf(e.imm8, p % ByteBits) = 1
  IN CASE e.cmode < 8 -> byte(4) = e.cmode \div 2 /\ here
       [] e.cmode \in 8 .. 11 -> byte(2) = (e.cmode \div 2) - 4 /\ here
       [] e.cmode \in 12 .. 13 -> byte(4) < e.cmode - 11 \/ (byte(4) = e.cmode - 11 /\ here)
       [] e.cmode = 14 -> IF e.u = 0 THEN here ELSE BitOf(e.imm8, p \div ByteBits) = 1
       [] OTHER -> IF e.u = 0 THEN FloatBit(e.imm8, p % 32, 32, 8) ELSE FloatBit(e.imm8, p, 64, 11)
FmovBit(e, p) == IF e.size = 0 THEN p < 32 /\ FloatBit(e.imm8, p, 32, 8) ELSE p < 64 /\ FloatBit(e.imm8, p, 64, 11)
ImmediateResult(e, d, p) ==
  CASE e.cmode < 12 /\ e.cmode % 2 = 1 -> IF e.u = 0 THEN d \/ ImmediateBit(e, p) ELSE d /\ ~ImmediateBit(e, p)
    [] e.cmode < 14 /\ (e.cmode % 2 = 0 \/ e.cmode = 13) -> ImmediateBit(e, p) # (e.u = 1)
    [] OTHER -> ImmediateBit(e, p)

(* Shifts by an immediate of lanes of n bytes, k places.                       *)
ShiftBytes(e) == CHOOSE n \in {1, 2, 4, 8} : Width(n) <= e.pos /\ e.pos < 2 * Width(n)
Shifted(e, a, x, d, n) ==
  LET w == Width(n)
      right == 2 * w - e.pos
      left == e.pos - w
  IN CASE e.opcode = 0 -> Scaled(x, 0 - right) [] e.opcode = 2 -> d + Scaled(x, 0 - right)
       [] e.opcode = 8 -> (d - (d % 2^(w - right))) + (a \div 2^right)
       [] OTHER -> IF e.u = 0 THEN a * 2^left ELSE Low(a * 2^left, w) + (d % 2^left)

-----------------------------------------------------------------------------
(* In each group: t, the destination afterwards, is what e makes of the       *)
(* registers of s and of d, the destination before.                           *)
N(e, s) == s.v[e.rn]
M(e, s) == s.v[e.rm]
Half(e, n) == IF e.q = 1 THEN 8 \div n ELSE 0         \* first lane of the half read

BitsAre(e, t, p(_, _)) ==
  \A k \in Bytes, j \in 0 .. ByteBits - 1 : (BitOf(t[k], j) = 1) = (k < Long(e) /\ p(k, j))

SameRight(e, s, t, d) ==
  LET n == N(e, s)   m == M(e, s)   z == Size(e)   c == Count(e)
      lane(l) == Same3(e, NatLane(n, z, l), NatLane(m, z, l), NatLane(d, z, l), Num(e, n, z, l), Num(e, m, z, l))
      pair(l) == LET v == IF 2 * l < c THEN n ELSE m
                     x == Num(e, v, z, (2 * l) % c)   y == Num(e, v, z, ((2 * l) % c) + 1)
                 IN CASE e.opcode = 20 -> Larger(x, y) [] e.opcode = 21 -> Smaller(x, y) [] OTHER -> x + y
      bit(v, k, j) == BitOf(v[k], j) = 1
      logic(k, j) == Bitwise3(e, bit(n, k, j), bit(m, k, j), bit(d, k, j))
  IN CASE e.opcode = 3 -> BitsAre(e, t, logic)
       [] e.opcode \in {20, 21, 23} -> Holds(t, z, c, pair)
       [] OTHER -> Holds(t, z, c, lane)

DiffRight(e, s, t, d) ==
  LET n == N(e, s)   m == M(e, s)   z == Size(e)
      first(l) == IF e.opcode \in {1, 3} THEN NatLane(n, 2 * z, l) ELSE Num(e, n, z, Half(e, z) + l)
      long(l) == Diff3(e, first(l), Num(e, m, z, Half(e, z) + l), NatLane(d, 2 * z, l))
      high(l) == HighHalf(e, NatLane(n, 2 * z, l), NatLane(m, 2 * z, l), z)
  IN IF e.opcode \in {4, 6} THEN HalfHolds(t, d, z, e.q, high) ELSE Holds(t, 2 * z, 8 \div z, long)

(* REV: lanes at mirrored places of a container of per lanes trade places.     *)
Mirrored(e, t, n, per) ==
  \A j, k \in 0 .. (16 \div Size(e)) - 1 :
    j \div per = k \div per /\ (j % per) + (k % per) = per - 1
      => NatLane(t, Size(e), j) = IF j < Count(e) THEN NatLane(n, Size(e), k) ELSE 0

MiscRight(e, s, t, d) ==
  LET n == N(e, s)
      z == IF e.opcode = 5 THEN 1 ELSE Size(e)
      lane(l) == Misc2(e, NatLane(n, z, l), IntLane(n, z, l), z)
      narrowed(l) == Narrowed(e, n, z, l)
      doubled(l) == NatLane(n, z, Half(e, z) + l) * 2^Width(z)
  IN CASE e.opcode \in {0, 1} -> Mirrored(e, t, n, (IF e.opcode = 1 THEN 2 ELSE IF e.u = 1 THEN 4 ELSE 8) \div z)
       [] e.opcode \in {18, 20} -> IF e.scalar THEN Holds(t, z, 1, narrowed) ELSE HalfHolds(t, d, z, e.q, narrowed)
       [] e.opcode = 19 -> Holds(t, 2 * z, 8 \div z, doubled)
       [] OTHER -> Holds(t, z, IF e.opcode = 5 THEN Long(e) ELSE Count(e), lane)

AcrossRight(e, s, t, d) ==
  LET z == Size(e)   c == Count(e)
      x(l) == Num(e, N(e, s), z, l)
      all == {x(l) : l \in 0 .. c - 1}
      total == LET from[l \in 0 .. c] == IF l = c THEN 0 ELSE x(l) + from[l + 1] IN from[0]
      reduced(l) == CASE e.opcode \in {3, 27} -> total [] e.opcode = 10 -> Max(all) [] OTHER -> Min(all)
  IN Holds(t, IF e.opcode = 3 THEN 2 * z ELSE z, 1, reduced)

ShiftRight(e, s, t, d) ==
  LET n == N(e, s)   z == ShiftBytes(e)
      right == 2 * Width(z) - e.pos
      lane(l) == Shifted(e, NatLane(n, z, l), Num(e, n, z, l), NatLane(d, z, l), z)
      lengthened(l) == Num(e, n, z, Half(e, z) + l) * 2^(e.pos - Width(z))
      shortened(l) == (NatLane(n, 2 * z, l) + (IF e.opcode = 17 THEN 2^(right - 1) ELSE 0)) \div 2^right
  IN CASE e.opcode = 20 -> Holds(t, 2 * z, 8 \div z, lengthened)
       [] e.opcode \in {16, 17} -> HalfHolds(t, d, z, e.q, shortened)
       [] OTHER -> Holds(t, z, IF e.scalar THEN 1 ELSE Long(e) \div z, lane)

(* UZP takes every second lane of both operands, ZIP and TRN pair up lanes.    *)
PermuteRight(e, s, t, d) ==
  LET n == N(e, s)   m == M(e, s)   z == Size(e)   c == Count(e)   part == e.opcode \div 4
      unzipped(l) == LET k == 2 * l + part IN IF k < c THEN NatLane(n, z, k) ELSE NatLane(m, z, k - c)
      from(l) == IF e.opcode % 4 = 2 THEN 2 * l + part ELSE part * (c \div 2) + l
  IN IF e.opcode % 4 = 1 THEN Holds(t, z, c, unzipped)
     ELSE /\ \A k \in Long(e) .. 15 : t[k] = 0
          /\ \A l \in 0 .. (c \div 2) - 1 : /\ NatLane(t, z, 2 * l) = NatLane(n, z, from(l))
                                            /\ NatLane(t, z, 2 * l + 1) = NatLane(m, z, from(l))

BytesRight(e, s, t, d) ==
  LET n == N(e, s)   m == M(e, s)
      joined(k) == IF k < Long(e) THEN n[k] ELSE m[k - Long(e)]
      extracted(k) == joined(e.imm4 + k)
      looked(k) == IF m[k] < 16 * (e.len + 1) THEN s.v[(e.rn + (m[k] \div 16)) % 32][m[k] % 16]
                   ELSE IF e.u = 1 THEN d[k] ELSE 0
  IN IF e.class = "ext" THEN Holds(t, 1, Long(e), extracted) ELSE Holds(t, 1, Long(e), looked)

IndexedRight(e, s, t, d) ==
  LET z == Size(e)
      factor == IF e.size = 1 THEN NatLane(s.v[e.rmlo], z, 4 * e.h + 2 * e.l + e.m)
                              ELSE NatLane(s.v[e.rmlo + 16 * e.m], z, 2 * e.h + e.l)
      product(l) == NatLane(N(e, s), z, l) * factor
      lane(l) == CASE e.opcode = 8 -> product(l) [] e.opcode = 0 -> NatLane(d, z, l) + product(l)
                   [] OTHER -> NatLane(d, z, l) - product(l)
  IN Holds(t, z, Count(e), lane)

VectorRight(e, s, t, d) ==
  LET immediate(k, j) == ImmediateResult(e, BitOf(d[k], j) = 1, ByteBits * (k % 8) + j)
      moved(k, j) == FmovBit(e, ByteBits * k + j)
      pairSum(l) == NatLane(N(e, s), 8, 0) + NatLane(N(e, s), 8, 1)
  IN CASE e.class = "same" -> SameRight(e, s, t, d) [] e.class = "diff" -> DiffRight(e, s, t, d)
       [] e.class = "misc" -> MiscRight(e, s, t, d) [] e.class = "across" -> AcrossRight(e, s, t, d)
       [] e.class = "modimm" -> BitsAre(e, t, immediate) [] e.class = "shift" -> ShiftRight(e, s, t, d)
       [] e.class = "fmov" -> BitsAre(e, t, moved)
       [] e.class = "permute" -> PermuteRight(e, s, t, d) [] e.class \in {"ext", "table"} -> BytesRight(e, s, t, d)
       [] e.class = "indexed" -> IndexedRight(e, s, t, d) [] OTHER -> Holds(t, 8, 1, pairSum)

(* DUP, INS, SMOV and UMOV move one lane, in either direction.                 *)
LaneSize(e) == CHOOSE n \in {1, 2, 4, 8} : (e.imm5 % (2 * n)) = n
ToGeneral(e) == e.class = "copy" /\ ~e.scalar /\ e.u = 0 /\ e.imm4 \in {5, 7}
CopyRight(e, s, t, d) ==
  LET n == LaneSize(e)
      index == e.imm5 \div (2 * n)
      x == CASE e.u = 1 -> NatLane(s.v[e.rn], n, e.imm4 \div n)
             [] e.u = 0 /\ e.imm4 = 0 -> NatLane(s.v[e.rn], n, index)
             [] OTHER -> IF e.rn = 31 THEN 0 ELSE Low(s.r[e.rn], Width(n))
      same(l) == x
      inserted(l) == IF l = index THEN x ELSE NatLane(d, n, l)
  IN IF e.u = 1 \/ e.imm4 = 3 THEN Holds(t, n, 16 \div n, inserted)
     ELSE Holds(t, n, IF e.scalar THEN 1 ELSE Long(e) \div n, same)
MovedLane(e, s) ==
  LET n == LaneSize(e)
      k == e.imm5 \div (2 * n)
  IN IF e.imm4 = 7 THEN NatLane(s.v[e.rn], n, k) ELSE Low(IntLane(s.v[e.rn], n, k), Width(4 * (1 + e.q)))

(* Everything but the destination stays, and the slot that discards results   *)
(* is nobody's.                                                               *)
Right(e, s, t) ==
  /\ t.pc = s.pc + 4
  /\ IF ToGeneral(e)
     THEN /\ t.v = s.v
          /\ \A k \in DOMAIN s.r \ {rSink} : t.r[k] = IF k = e.rd /\ k # 31 THEN MovedLane(e, s) ELSE s.r[k]
     ELSE /\ t.r = s.r /\ \A k \in DOMAIN s.v \ {e.rd} : t.v[k] = s.v[k]
          /\ IF e.class = "copy" THEN CopyRight(e, s, t.v[e.rd], s.v[e.rd])
                                 ELSE VectorRight(e, s, t.v[e.rd], s.v[e.rd])

(* The interpreter decodes e exactly if it is to run it, and then does what e  *)
(* means to each of the given register files.                                 *)
Faithful(e, states) ==
  LET i == decode(e)
  IN IF ~Runs(e) THEN i.fn = "opUndef"
     ELSE i.fn # "opUndef" /\ \A s \in states : Right(e, s, Exec(s, i))
=============================================================================
