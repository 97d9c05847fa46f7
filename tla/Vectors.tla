------------------------------- MODULE Vectors -------------------------------
(***************************************************************************)
(* Integer vector instructions of the interpreter (internal/arm64/vec.go    *)
(* and the integer forms of fp.go's indexed and pairwise groups) and FMOV of *)
(* an immediate: what the decoder makes of an encoding and what the handler  *)
(* does to the registers.                                                   *)
(*                                                                         *)
(* A vector register is its sixteen bytes, low end first, of ByteBits bits  *)
(* each, and a lane a natural number.  Intermediate values are integers     *)
(* where the code's uint64 or int64 cannot wrap, since storing a lane       *)
(* truncates them; where it can, in 64-bit lanes, they wrap here too.       *)
(***************************************************************************)
EXTENDS Words, Sequences, TLC, Bitwise

Bytes == 0 .. 15
Zeroes == [k \in Bytes |-> 0]
Width(esize) == esize * ByteBits
mask(esize) == 2^Width(esize) - 1
Invert(x, esize) == mask(esize) - x

(* Lanes of one, two, four and eight bytes from byte k on.                    *)
Two(v, k) == v[k] + v[k + 1] * 2^ByteBits
Four(v, k) == Two(v, k) + Two(v, k + 2) * 2^(2 * ByteBits)
getLane(v, esize, idx) ==
  LET k == idx * esize
  IN CASE esize = 1 -> v[k] [] esize = 2 -> Two(v, k) [] esize = 4 -> Four(v, k)
       [] OTHER -> Four(v, k) + Four(v, k + 4) * 2^(4 * ByteBits)

ByteAt(x, k) == Low(x \div 2^(ByteBits * k), ByteBits)

(* out with x[l] in its lane first + l, for every l (setLane in a loop).       *)
SetLanes(out, esize, first, x) ==
  [k \in Bytes |-> LET l == (k \div esize) - first
                   IN IF l \in DOMAIN x THEN ByteAt(x[l], k % esize) ELSE out[k]]

sxLane(x, esize) == Signed(x, Width(esize))

-----------------------------------------------------------------------------
(* Lane arithmetic.                                                          *)

boolLane(p, esize) == IF p THEN mask(esize) ELSE 0
maxS(a, b, esize) == IF sxLane(a, esize) >= sxLane(b, esize) THEN a ELSE b
minS(a, b, esize) == IF sxLane(a, esize) <= sxLane(b, esize) THEN a ELSE b

shiftLane(x, amt, esize, signed) ==
  LET n == Width(esize)
      right == 0 - amt
  IN CASE amt >= n -> 0
       [] amt >= 0 /\ amt < n -> x * 2^amt
       [] amt < 0 /\ signed -> sxLane(x, esize) \div 2^(IF right >= n THEN n - 1 ELSE right)
       [] OTHER -> IF right >= n THEN 0 ELSE Lsr(x, right)

satS(x, esize) ==
  LET hi == 2^(Width(esize) - 1) - 1
  IN IF x > hi THEN hi ELSE IF x < 0 - hi - 1 THEN 0 - hi - 1 ELSE x

(* Doubleword lanes: the sum wraps, and overflow shows in the signs.          *)
satAddS64(a, b) ==
  LET r == sxLane(Low(a + b, Width(8)), 8)
  IN IF a > 0 /\ b > 0 /\ r < 0 THEN 2^(Width(8) - 1) - 1
     ELSE IF a < 0 /\ b < 0 /\ r >= 0 THEN 2^(Width(8) - 1) ELSE r
satSubS64(a, b) ==
  LET r == sxLane(Low(a - b, Width(8)), 8)
  IN IF a >= 0 /\ b < 0 /\ r < 0 THEN 2^(Width(8) - 1) - 1
     ELSE IF a < 0 /\ b > 0 /\ r >= 0 THEN 2^(Width(8) - 1) ELSE r

satU(a, b, esize) ==
  LET r == IF esize = 8 THEN Low(a + b, Width(8)) ELSE a + b
  IN IF r > mask(esize) \/ r < a THEN mask(esize) ELSE r

(* Carry-less product: the partial products of k bits and up are xored.       *)
pmul(a, b) ==
  LET from[k \in 0 .. ByteBits] ==
        IF k = ByteBits THEN 0 ELSE (IF BitOf(b, k) = 1 THEN a * 2^k ELSE 0) ^^ from[k + 1]
  IN from[0]

simdALU(op, a, b, dst, esize) ==
  LET x == sxLane(a, esize)
      y == sxLane(b, esize)
      apart(p, q) == IF p < q THEN q - p ELSE p - q
      amt == Signed(Low(b, ByteBits), ByteBits)
  IN CASE op = "ADD" -> a + b [] op = "SUB" -> a - b
       [] op = "MUL" -> a * b [] op = "MLA" -> dst + a * b [] op = "MLS" -> dst - a * b
       [] op = "CMEQ" -> boolLane(a = b, esize) [] op = "CMTST" -> boolLane((a & b) # 0, esize)
       [] op = "CMGT" -> boolLane(x > y, esize) [] op = "CMGE" -> boolLane(x >= y, esize)
       [] op = "CMHI" -> boolLane(a > b, esize) [] op = "CMHS" -> boolLane(a >= b, esize)
       [] op = "SMAX" -> maxS(a, b, esize) [] op = "SMIN" -> minS(a, b, esize)
       [] op = "UMAX" -> IF a > b THEN a ELSE b [] op = "UMIN" -> IF a < b THEN a ELSE b
       [] op = "SSHL" -> shiftLane(a, amt, esize, TRUE) [] op = "USHL" -> shiftLane(a, amt, esize, FALSE)
       [] op = "SABD" -> apart(x, y) [] op = "SABA" -> dst + apart(x, y)
       [] op = "UABD" -> apart(a, b) [] op = "UABA" -> dst + apart(a, b)
       [] op = "SQADD" -> IF esize = 8 THEN satAddS64(x, y) ELSE satS(x + y, esize)
       [] op = "SQSUB" -> IF esize = 8 THEN satSubS64(x, y) ELSE satS(x - y, esize)
       [] op = "UQADD" -> satU(a, b, esize) [] op = "UQSUB" -> IF a < b THEN 0 ELSE a - b
       [] op = "SHADD" -> (x + y) \div 2 [] op = "SHSUB" -> (x - y) \div 2
       [] op = "UHADD" -> (a + b) \div 2 [] op = "UHSUB" -> (a - b) \div 2
       [] op = "SRHADD" -> (x + y + 1) \div 2 [] op = "URHADD" -> (a + b + 1) \div 2
       [] op = "PMUL" -> pmul(a, b)

bitwiseOp(op, d, a, b) ==
  LET not(x) == Invert(x, 1)
  IN CASE op = "AND" -> a & b [] op = "BIC" -> a & not(b) [] op = "ORR" -> a | b
       [] op = "ORN" -> a | not(b) [] op = "EOR" -> a ^^ b
       [] op = "BSL" -> (a & d) | (b & not(d))
       [] op = "BIT" -> (d & not(b)) | (a & b)
       [] OTHER -> (d & b) | (a & not(b))

-----------------------------------------------------------------------------
(* Decoding.  Operations are numbered U:opcode in each group.                *)

Inst == [fn |-> "opUndef", op |-> "", rd |-> 0, rn |-> 0, rm |-> 0, ra |-> 0, sz |-> 0, amt |-> 0,
         sh |-> 0, imm |-> 0, imm2 |-> 0]

sel(e) == 32 * e.u + e.opcode
NameIn(table, k) == IF k \in DOMAIN table THEN table[k] ELSE "none"

Same ==
  (16 :> "ADD" @@ 48 :> "SUB" @@ 6 :> "CMGT" @@ 7 :> "CMGE" @@ 38 :> "CMHI" @@ 39 :> "CMHS"
   @@ 17 :> "CMTST" @@ 49 :> "CMEQ" @@ 8 :> "SSHL" @@ 40 :> "USHL" @@ 12 :> "SMAX" @@ 13 :> "SMIN"
   @@ 44 :> "UMAX" @@ 45 :> "UMIN" @@ 19 :> "MUL" @@ 18 :> "MLA" @@ 50 :> "MLS" @@ 23 :> "ADDP"
   @@ 14 :> "SABD" @@ 46 :> "UABD" @@ 15 :> "SABA" @@ 47 :> "UABA" @@ 1 :> "SQADD" @@ 33 :> "UQADD"
   @@ 5 :> "SQSUB" @@ 37 :> "UQSUB" @@ 0 :> "SHADD" @@ 32 :> "UHADD" @@ 4 :> "SHSUB" @@ 36 :> "UHSUB"
   @@ 2 :> "SRHADD" @@ 34 :> "URHADD" @@ 20 :> "SMAXP" @@ 21 :> "SMINP" @@ 52 :> "UMAXP"
   @@ 53 :> "UMINP" @@ 51 :> "PMUL")
Pairwise == {"ADDP", "SMAXP", "SMINP", "UMAXP", "UMINP"}
OnlyDoubleScalar == {"ADD", "SUB", "CMGT", "CMGE", "CMHI", "CMHS", "CMTST", "CMEQ", "SSHL", "USHL"}
Saturating == {"SQADD", "UQADD", "SQSUB", "UQSUB"}

simdGeom(e, size) ==
  [Inst EXCEPT !.rd = e.rd, !.rn = e.rn, !.rm = e.rm, !.sz = size, !.amt = lanesOf(e, size)]
OneLane(e) == e.size = 3 /\ ~e.scalar /\ e.q = 0

decodeBitwise(e, i) ==
  IF e.scalar THEN Inst
  ELSE [i EXCEPT !.op = <<"AND", "BIC", "ORR", "ORN", "EOR", "BSL", "BIT", "BIF">>[4 * e.u + e.size + 1],
                 !.fn = IF e.q = 1 THEN "opSimdBitwiseQ" ELSE "opSimdBitwiseD"]

decodeSIMD3Same(e) ==
  LET op == NameIn(Same, sel(e))
      i == [simdGeom(e, e.size) EXCEPT !.op = op]
  IN IF e.opcode = 3 THEN decodeBitwise(e, i)
     ELSE IF \/ op = "none"
             \/ e.scalar /\ op \notin OnlyDoubleScalar \cup Saturating
             \/ e.scalar /\ op \in OnlyDoubleScalar /\ e.size # 3
             \/ OneLane(e)
             \/ op = "PMUL" /\ e.size # 0
             \/ op \notin OnlyDoubleScalar \cup Saturating \cup {"ADDP"} /\ e.size = 3
          THEN Inst
     ELSE [i EXCEPT !.fn = IF op \in Pairwise THEN "opSimdPairwise" ELSE "opSimd3Same"]

decodeSIMD3Diff(e) ==
  IF e.size = 3 \/ e.opcode \notin {0, 1, 2, 3, 4, 5, 6, 7, 8, 10, 12} THEN Inst
  ELSE [Inst EXCEPT !.rd = e.rd, !.rn = e.rn, !.rm = e.rm, !.sz = e.size, !.sh = e.q,
                    !.imm = e.opcode, !.imm2 = e.u, !.fn = "opSimd3Diff"]

Misc == (4 :> "CLS" @@ 36 :> "CLZ" @@ 5 :> "CNT" @@ 8 :> "CMGT" @@ 9 :> "CMEQ" @@ 10 :> "CMLT"
         @@ 40 :> "CMGE" @@ 41 :> "CMLE" @@ 11 :> "ABS" @@ 43 :> "NEG" @@ 18 :> "XTN" @@ 50 :> "SQXTUN"
         @@ 20 :> "SQXTN" @@ 52 :> "UQXTN" @@ 51 :> "SHLL")
Reverses == (0 :> 8 @@ 1 :> 2 @@ 32 :> 4)       \* REV64 REV16 REV32 and their containers
Narrowing == {"XTN", "SQXTUN", "SQXTN", "UQXTN"}

decodeSIMD2Misc(e) ==
  LET op == IF sel(e) = 37 THEN <<"NOT", "RBIT", "none", "none">>[e.size + 1] ELSE NameIn(Misc, sel(e))
  IN IF sel(e) \in DOMAIN Reverses
     THEN IF e.scalar \/ 2^e.size >= Reverses[sel(e)] THEN Inst
          ELSE [simdGeom(e, e.size) EXCEPT !.imm2 = Reverses[sel(e)], !.fn = "opSimdRev"]
     ELSE IF \/ op = "none" \/ (op = "CNT" /\ e.size # 0)
             \/ op \in Narrowing \cup {"SHLL"} /\ e.size = 3
             \/ OneLane(e)
             \/ ~e.scalar /\ op \in {"CLS", "CLZ"} /\ e.size = 3
             \/ e.scalar /\ op \in {"CLS", "CLZ", "CNT", "NOT", "RBIT", "XTN", "SHLL"}
             \/ e.scalar /\ op \in {"CMGT", "CMEQ", "CMLT", "CMGE", "CMLE", "ABS", "NEG"} /\ e.size # 3
          THEN Inst
     ELSE [simdGeom(e, IF op = "RBIT" THEN 0 ELSE e.size) EXCEPT !.op = op, !.sh = e.q, !.fn = "opSimd2Misc"]

Across == (3 :> "SADDLV" @@ 35 :> "UADDLV" @@ 10 :> "SMAXV" @@ 42 :> "UMAXV"
           @@ 26 :> "SMINV" @@ 58 :> "UMINV" @@ 27 :> "ADDV")

decodeSIMDAcross(e) ==
  LET op == NameIn(Across, sel(e))
  IN IF op = "none" \/ e.size = 3 \/ (e.size = 2 /\ e.q = 0) THEN Inst
     ELSE [simdGeom(e, e.size) EXCEPT !.op = op, !.fn = "opSimdAcross"]

(* DUP, INS, SMOV, UMOV: the lowest bit set in imm5 gives the lane size.      *)
decodeSIMDCopy(e) ==
  LET sizes == {k \in 0 .. 3 : BitOf(e.imm5, k) = 1}
      size == CHOOSE k \in sizes : \A j \in sizes : k <= j
      i == [Inst EXCEPT !.rd = e.rd, !.rn = e.rn, !.sz = size, !.amt = Lsr(e.imm5, size + 1),
                        !.imm = (IF e.q = 1 THEN 16 ELSE 8) \div 2^size]
  IN CASE sizes = {} -> Inst
       [] sizes # {} /\ e.scalar ->
            IF e.u # 0 \/ e.imm4 # 0 THEN Inst ELSE [i EXCEPT !.fn = "opSimdDupElemScalar"]
       [] sizes # {} /\ ~e.scalar /\ e.u = 1 ->
            IF e.q = 0 THEN Inst ELSE [i EXCEPT !.sh = Lsr(e.imm4, size), !.fn = "opSimdInsElem"]
       [] OTHER ->
            CASE e.imm4 \in {0, 1} /\ ~(size = 3 /\ e.q = 0) ->
                   IF e.imm4 = 0 THEN [i EXCEPT !.fn = "opSimdDupElem"]
                                 ELSE [i EXCEPT !.rn = xr(e.rn), !.fn = "opSimdDupGen"]
              [] e.imm4 = 3 /\ e.q = 1 -> [i EXCEPT !.rn = xr(e.rn), !.fn = "opSimdInsGen"]
              [] e.imm4 = 5 /\ ~(size = 3 \/ (size = 2 /\ e.q = 0)) ->
                   [i EXCEPT !.rd = xw(e.rd), !.fn = IF e.q = 1 THEN "opSimdSmov64" ELSE "opSimdSmov32"]
              [] e.imm4 = 7 /\ (size = 3) = (e.q = 1) -> [i EXCEPT !.rd = xw(e.rd), !.fn = "opSimdUmov"]
              [] OTHER -> Inst

(* The eight bytes of a modified immediate.                                   *)
advSIMDExpandImm(op, cmode, imm8) ==
  LET rep(t) == [k \in 0 .. 7 |-> t[(k % Len(t)) + 1]]
      only(x, k, n) == [j \in 1 .. n |-> IF j = k + 1 THEN x ELSE 0]
      pair == cmode \div 2
      b6 == BitOf(imm8, 6)
      top == 128 * BitOf(imm8, 7) + 64 * (1 - b6)
  IN CASE pair \in 0 .. 3 -> rep(only(imm8, pair, 4))
       [] pair \in 4 .. 5 -> rep(only(imm8, pair - 4, 2))
       [] cmode = 12 -> rep(<<mask(1), imm8, 0, 0>>)
       [] cmode = 13 -> rep(<<mask(1), mask(1), imm8, 0>>)
       [] cmode = 14 /\ op = 0 -> rep(<<imm8>>)
       [] cmode = 14 /\ op = 1 -> [k \in 0 .. 7 |-> boolLane(BitOf(imm8, k) = 1, 1)]
       [] cmode = 15 /\ op = 0 -> rep(<<0, 0, 8 * (imm8 % 32), top + 62 * b6 + BitOf(imm8, 5)>>)
       [] OTHER -> rep(<<0, 0, 0, 0, 0, 0, 192 * b6 + (imm8 % 64), top + 63 * b6>>)

(* The immediate of FMOV, in the low four or eight bytes.                     *)
vfpExpandImm(imm8, ft) ==
  LET exphi == BitOf(imm8, 6)
      top == 128 * BitOf(imm8, 7) + 64 * (1 - exphi)
      bytes == IF ft = 0 THEN <<0, 0, 8 * (imm8 % 32), top + 62 * exphi + BitOf(imm8, 5)>>
               ELSE <<0, 0, 0, 0, 0, 0, 192 * exphi + (imm8 % 64), top + 63 * exphi>>
  IN [k \in 0 .. 7 |-> IF k < Len(bytes) THEN bytes[k + 1] ELSE 0]

(* The FP immediate group of decodeFP: e.m, e.u and e.imm5 are its zero fields. *)
decodeFPImm(e) ==
  IF e.u # 0 \/ e.m # 0 \/ e.size \in {2, 3} \/ e.imm5 # 0 THEN Inst
  ELSE [Inst EXCEPT !.rd = e.rd, !.imm = vfpExpandImm(e.imm8, e.size), !.fn = "opFmovImm"]

decodeSIMDModImm(e) ==
  LET imm == advSIMDExpandImm(e.u, e.cmode, e.imm8)
      i == [Inst EXCEPT !.rd = e.rd, !.sh = e.q, !.imm = imm]
  IN IF e.o2 # 0 \/ (e.cmode = 15 /\ e.u = 1 /\ e.q = 0) THEN Inst
     ELSE IF (e.cmode & 9) = 1 \/ (e.cmode & 13) = 9
     THEN [i EXCEPT !.fn = IF e.u = 0 THEN "opSimdOrrImm" ELSE "opSimdBicImm"]
     ELSE [i EXCEPT !.imm = IF e.u = 1 /\ e.cmode \div 2 # 7 THEN [k \in 0 .. 7 |-> Invert(imm[k], 1)] ELSE imm,
                    !.fn = "opSimdMovImm"]

Shifts == (0 :> "SSHR" @@ 32 :> "USHR" @@ 2 :> "SSRA" @@ 34 :> "USRA" @@ 40 :> "SRI" @@ 10 :> "SHL"
           @@ 42 :> "SLI" @@ 16 :> "SHRN" @@ 17 :> "RSHRN" @@ 20 :> "SSHLL" @@ 52 :> "USHLL")

(* pos is immh:immb, whose highest bit is the lane size.                      *)
decodeSIMDShiftImm(e) ==
  LET size == CHOOSE k \in 0 .. 3 : Width(2^k) <= e.pos /\ e.pos < 2 * Width(2^k)
      n == Width(2^size)
      op == NameIn(Shifts, sel(e))
      i == [simdGeom(e, size) EXCEPT !.op = op, !.sh = e.q,
              !.imm2 = IF op \in {"SHL", "SLI", "SSHLL", "USHLL"} THEN e.pos - n ELSE 2 * n - e.pos]
  IN CASE e.pos < ByteBits -> Inst
       [] e.pos >= ByteBits /\ (op = "none" \/ (~e.scalar /\ size = 3 /\ e.q = 0)) -> Inst
       [] OTHER ->
            IF op \in {"SSHLL", "USHLL", "SHRN", "RSHRN"}
            THEN IF e.scalar \/ size = 3 THEN Inst
                 ELSE [i EXCEPT !.fn = IF op \in {"SHRN", "RSHRN"} THEN "opSimdShrnImm" ELSE "opSimdShllImm"]
            ELSE IF e.scalar /\ size # 3 THEN Inst ELSE [i EXCEPT !.fn = "opSimdShiftImm"]

decodeSIMDExt(e) ==
  IF e.size # 0 \/ (e.q = 0 /\ e.imm4 >= 8) THEN Inst
  ELSE [Inst EXCEPT !.rd = e.rd, !.rn = e.rn, !.rm = e.rm, !.imm = e.imm4, !.sh = e.q, !.fn = "opSimdExt"]

decodeSIMDPermute(e) ==
  IF (e.size = 3 /\ e.q = 0) \/ e.opcode \notin {1, 2, 3, 5, 6, 7} THEN Inst
  ELSE [simdGeom(e, e.size) EXCEPT !.imm = e.opcode, !.fn = "opSimdPermute"]

decodeSIMDTable(e) ==
  IF e.size # 0 THEN Inst
  ELSE [Inst EXCEPT !.rd = e.rd, !.rn = e.rn, !.rm = e.rm, !.sh = e.q, !.imm = e.len, !.imm2 = e.u,
                    !.fn = "opSimdTable"]

(* Integer MUL, MLA, MLS by element; U:opcode has four bits of opcode.        *)
decodeSIMDIndexed(e) ==
  LET op == NameIn(8 :> "MUL" @@ 16 :> "MLA" @@ 20 :> "MLS", 16 * e.u + e.opcode)
  IN IF op = "none" \/ e.scalar \/ e.size \in {0, 3} THEN Inst
     ELSE [simdGeom(e, e.size) EXCEPT
             !.rm = IF e.size = 1 THEN e.rmlo ELSE 16 * e.m + e.rmlo,
             !.ra = IF e.size = 1 THEN 4 * e.h + 2 * e.l + e.m ELSE 2 * e.h + e.l,
             !.op = op, !.fn = "opSimdIntIndexed"]

decodeSIMDPairScalar(e) ==
  IF e.u = 0 /\ e.opcode = 27 /\ e.size = 3 THEN [Inst EXCEPT !.rd = e.rd, !.rn = e.rn, !.fn = "opSimdAddpScalar"]
  ELSE Inst

decode(e) ==
  CASE e.class = "same" -> decodeSIMD3Same(e) [] e.class = "diff" -> decodeSIMD3Diff(e)
    [] e.class = "misc" -> decodeSIMD2Misc(e) [] e.class = "across" -> decodeSIMDAcross(e)
    [] e.class = "copy" -> decodeSIMDCopy(e) [] e.class = "modimm" -> decodeSIMDModImm(e)
    [] e.class = "fmov" -> decodeFPImm(e)
    [] e.class = "shift" -> decodeSIMDShiftImm(e) [] e.class = "ext" -> decodeSIMDExt(e)
    [] e.class = "permute" -> decodeSIMDPermute(e) [] e.class = "table" -> decodeSIMDTable(e)
    [] e.class = "indexed" -> decodeSIMDIndexed(e) [] OTHER -> decodeSIMDPairScalar(e)

-----------------------------------------------------------------------------
(* Handlers.                                                                 *)

Next4(s) == [s EXCEPT !.pc = s.pc + 4]
PutV(s, i, x) == [Next4(s) EXCEPT !.v[i.rd] = x]
PutR(s, i, x) == [Next4(s) EXCEPT !.r[i.rd] = x]

opSimdBitwise(s, i) ==
  LET x == [k \in Bytes |-> bitwiseOp(i.op, s.v[i.rd][k], s.v[i.rn][k], s.v[i.rm][k])]
  IN PutV(s, i, IF i.fn = "opSimdBitwiseD" THEN [k \in Bytes |-> IF k < 8 THEN x[k] ELSE 0] ELSE x)

opSimd3Same(s, i) ==
  LET esize == 2^i.sz
      lane(l) == simdALU(i.op, getLane(s.v[i.rn], esize, l), getLane(s.v[i.rm], esize, l),
                         getLane(s.v[i.rd], esize, l), esize)
  IN PutV(s, i, SetLanes(Zeroes, esize, 0, [l \in 0 .. i.amt - 1 |-> lane(l)]))

opSimdPairwise(s, i) ==
  LET esize == 2^i.sz
      source(l) == IF 2 * l < i.amt THEN s.v[i.rn] ELSE s.v[i.rm]
      a(l) == getLane(source(l), esize, (2 * l) % i.amt)
      b(l) == getLane(source(l), esize, ((2 * l) % i.amt) + 1)
      lane(l) == CASE i.op = "ADDP" -> a(l) + b(l)
                   [] i.op = "SMAXP" -> maxS(a(l), b(l), esize) [] i.op = "SMINP" -> minS(a(l), b(l), esize)
                   [] i.op = "UMAXP" -> IF b(l) > a(l) THEN b(l) ELSE a(l)
                   [] OTHER -> IF b(l) < a(l) THEN b(l) ELSE a(l)
  IN PutV(s, i, SetLanes(Zeroes, esize, 0, [l \in 0 .. i.amt - 1 |-> lane(l)]))

opSimd3Diff(s, i) ==
  LET esize == 2^i.sz
      lanes == 8 \div esize
      base == lanes * i.sh
      n == s.v[i.rn]   m == s.v[i.rm]   u == i.imm2 = 1
      sum(x, y) == (IF i.imm = 4 THEN x + y ELSE x - y) + (IF u THEN 2^(Width(esize) - 1) ELSE 0)
      high(l) == sum(getLane(n, 2 * esize, l), getLane(m, 2 * esize, l)) \div 2^Width(esize)
      wide(x) == IF u THEN x ELSE sxLane(x, esize)
      aw(l) == IF i.imm \in {1, 3} THEN getLane(n, 2 * esize, l) ELSE wide(getLane(n, esize, base + l))
      bw(l) == wide(getLane(m, esize, base + l))
      absDiff(l) == IF aw(l) < bw(l) THEN bw(l) - aw(l) ELSE aw(l) - bw(l)
      d(l) == getLane(s.v[i.rd], 2 * esize, l)
      lane(l) == CASE i.imm \in {0, 1} -> aw(l) + bw(l) [] i.imm \in {2, 3} -> aw(l) - bw(l)
                   [] i.imm = 5 -> d(l) + absDiff(l) [] i.imm = 7 -> absDiff(l)
                   [] i.imm = 8 -> d(l) + aw(l) * bw(l) [] i.imm = 10 -> d(l) - aw(l) * bw(l)
                   [] OTHER -> aw(l) * bw(l)
  IN PutV(s, i, IF i.imm \in {4, 6}
                THEN SetLanes(IF i.sh = 1 THEN s.v[i.rd] ELSE Zeroes, esize, base,
                              [l \in 0 .. lanes - 1 |-> high(l)])
                ELSE SetLanes(Zeroes, 2 * esize, 0, [l \in 0 .. lanes - 1 |-> lane(l)]))

(* XTN and its saturating forms; the second form keeps the low half.          *)
narrow(s, i) ==
  LET esize == 2^i.sz
      one == i.amt = 1
      dlanes == IF one THEN 1 ELSE 8 \div esize
      upper == i.sh = 1 /\ ~one
      lane(l) == LET x == getLane(s.v[i.rn], 2 * esize, l)
                     y == sxLane(x, 2 * esize)
                 IN CASE i.op = "UQXTN" -> IF x > mask(esize) THEN mask(esize) ELSE x
                      [] i.op = "SQXTN" -> satS(y, esize)
                      [] i.op = "SQXTUN" -> IF y < 0 THEN 0 ELSE IF y > mask(esize) THEN mask(esize) ELSE y
                      [] OTHER -> x
  IN SetLanes(IF upper THEN s.v[i.rd] ELSE Zeroes, esize, IF upper THEN dlanes ELSE 0,
              [l \in 0 .. dlanes - 1 |-> lane(l)])

misc(op, a, esize) ==
  LET n == Width(esize)
      x == sxLane(a, esize)
  IN CASE op = "CLS" -> LeadingZeros((a ^^ Lsr(a, 1)) & (2^(n - 1) - 1), n) - 1
       [] op = "CLZ" -> LeadingZeros(a, n)
       [] op = "CNT" -> Cardinality({k \in 0 .. n - 1 : BitOf(a, k) = 1})
       [] op = "NOT" -> Invert(a, esize) [] op = "RBIT" -> ReverseBits(a, n)
       [] op = "ABS" -> IF x < 0 THEN 0 - x ELSE x [] op = "NEG" -> 0 - a
       [] op = "CMGT" -> boolLane(x > 0, esize) [] op = "CMGE" -> boolLane(x >= 0, esize)
       [] op = "CMEQ" -> boolLane(a = 0, esize) [] op = "CMLE" -> boolLane(x <= 0, esize)
       [] OTHER -> boolLane(x < 0, esize)

opSimd2Misc(s, i) ==
  LET esize == 2^i.sz
      half == 8 \div esize
      shll(l) == getLane(s.v[i.rn], esize, half * i.sh + l) * 2^Width(esize)
      lane(l) == misc(i.op, getLane(s.v[i.rn], esize, l), esize)
  IN PutV(s, i, CASE i.op \in Narrowing -> narrow(s, i)
                  [] i.op = "SHLL" -> SetLanes(Zeroes, 2 * esize, 0, [l \in 0 .. half - 1 |-> shll(l)])
                  [] OTHER -> SetLanes(Zeroes, esize, 0, [l \in 0 .. i.amt - 1 |-> lane(l)]))

opSimdRev(s, i) ==
  LET esize == 2^i.sz
      per == i.imm2 \div esize
      lane(l) == getLane(s.v[i.rn], esize, (l - (l % per)) + per - 1 - (l % per))
  IN PutV(s, i, SetLanes(Zeroes, esize, 0, [l \in 0 .. i.amt - 1 |-> lane(l)]))

(* acc is the result over the first l lanes.                                  *)
opSimdAcross(s, i) ==
  LET esize == 2^i.sz
      v(l) == getLane(s.v[i.rn], esize, l)
      acc[l \in 0 .. i.amt] ==
        IF l = 0 THEN 0
        ELSE LET x == v(l - 1)
                 better(p) == IF l = 1 \/ p THEN x ELSE acc[l - 1]
             IN CASE i.op = "SADDLV" -> acc[l - 1] + sxLane(x, esize)
                  [] i.op \in {"UADDLV", "ADDV"} -> acc[l - 1] + x
                  [] i.op = "SMAXV" -> better(sxLane(x, esize) > sxLane(acc[l - 1], esize))
                  [] i.op = "UMAXV" -> IF x > acc[l - 1] THEN x ELSE acc[l - 1]
                  [] i.op = "SMINV" -> better(sxLane(x, esize) < sxLane(acc[l - 1], esize))
                  [] OTHER -> better(x < acc[l - 1])
      result == acc[i.amt]
  IN PutV(s, i, SetLanes(Zeroes, IF i.op \in {"SADDLV", "UADDLV"} THEN 2 * esize ELSE esize, 0, [l \in {0} |-> result]))

(* DUP (element, general, scalar) and INS (element, general).                 *)
opSimdCopy(s, i) ==
  LET esize == 2^i.sz
      fromLane(l) == getLane(s.v[i.rn], esize, IF i.fn = "opSimdInsElem" THEN i.sh ELSE i.amt)
      general(l) == s.r[i.rn]
  IN PutV(s, i, CASE i.fn = "opSimdDupElem" -> SetLanes(Zeroes, esize, 0, [l \in 0 .. i.imm - 1 |-> fromLane(l)])
                  [] i.fn = "opSimdDupElemScalar" -> SetLanes(Zeroes, esize, 0, [l \in {0} |-> fromLane(l)])
                  [] i.fn = "opSimdDupGen" -> SetLanes(Zeroes, esize, 0, [l \in 0 .. i.imm - 1 |-> general(l)])
                  [] i.fn = "opSimdInsElem" -> SetLanes(s.v[i.rd], esize, i.amt, [l \in {0} |-> fromLane(l)])
                  [] OTHER -> SetLanes(s.v[i.rd], esize, i.amt, [l \in {0} |-> general(l)]))

opSimdMov(s, i) ==
  LET x == getLane(s.v[i.rn], 2^i.sz, i.amt)
  IN PutR(s, i, CASE i.fn = "opSimdUmov" -> x
                  [] i.fn = "opSimdSmov64" -> Low(sxLane(x, 2^i.sz), Width(8))
                  [] OTHER -> Low(sxLane(x, 2^i.sz), Width(4)))

opSimdImm(s, i) ==
  LET with(d, b) == CASE i.fn = "opSimdMovImm" -> b [] i.fn = "opSimdOrrImm" -> d | b
                      [] OTHER -> d & Invert(b, 1)
  IN PutV(s, i, [k \in Bytes |-> IF k < 8 \/ i.sh = 1 THEN with(s.v[i.rd][k], i.imm[k % 8]) ELSE 0])

opFmovImm(s, i) == PutV(s, i, [k \in Bytes |-> IF k < 8 THEN i.imm[k] ELSE 0])

opSimdShiftImm(s, i) ==
  LET esize == 2^i.sz
      k == i.imm2
      put(d, m, x) == (d & Invert(m, esize)) | (Low(x, Width(esize)) & m)
      shifted(a, d) == CASE i.op = "SSHR" -> sxLane(a, esize) \div 2^k [] i.op = "USHR" -> Lsr(a, k)
                         [] i.op = "SSRA" -> d + (sxLane(a, esize) \div 2^k) [] i.op = "USRA" -> d + Lsr(a, k)
                         [] i.op = "SHL" -> a * 2^k
                         [] i.op = "SRI" -> put(d, Lsr(mask(esize), k), Lsr(a, k))
                         [] OTHER -> put(d, Low(mask(esize) * 2^k, Width(esize)), a * 2^k)
      lane(l) == shifted(getLane(s.v[i.rn], esize, l), getLane(s.v[i.rd], esize, l))
  IN PutV(s, i, SetLanes(Zeroes, esize, 0, [l \in 0 .. i.amt - 1 |-> lane(l)]))

opSimdShllImm(s, i) ==
  LET esize == 2^i.sz
      half == 8 \div esize
      a(l) == getLane(s.v[i.rn], esize, half * i.sh + l)
      lane(l) == (IF i.op = "SSHLL" THEN sxLane(a(l), esize) ELSE a(l)) * 2^i.imm2
  IN PutV(s, i, SetLanes(Zeroes, 2 * esize, 0, [l \in 0 .. half - 1 |-> lane(l)]))

opSimdShrnImm(s, i) ==
  LET esize == 2^i.sz
      half == 8 \div esize
      a(l) == getLane(s.v[i.rn], 2 * esize, l) + (IF i.op = "RSHRN" THEN 2^(i.imm2 - 1) ELSE 0)
      lane(l) == Lsr(a(l), i.imm2)
  IN PutV(s, i, SetLanes(IF i.sh = 1 THEN s.v[i.rd] ELSE Zeroes, esize, half * i.sh,
                         [l \in 0 .. half - 1 |-> lane(l)]))

(* The bytes from imm on of Rn followed by Rm, each of the operand's length.  *)
opSimdExt(s, i) ==
  LET size == 8 * (1 + i.sh)
      buf(k) == IF k < size THEN s.v[i.rn][k] ELSE s.v[i.rm][k - size]
  IN PutV(s, i, [k \in Bytes |-> IF k < size THEN buf(i.imm + k) ELSE 0])

opSimdPermute(s, i) ==
  LET esize == 2^i.sz
      lanes == i.amt
      part == i.imm \div 4
      n(l) == getLane(s.v[i.rn], esize, l)
      m(l) == getLane(s.v[i.rm], esize, l)
      uzp(l) == LET idx == 2 * l + part IN IF idx >= lanes THEN m(idx - lanes) ELSE n(idx)
      trn(l) == LET idx == 2 * (l \div 2) + part IN IF l % 2 = 0 THEN n(idx) ELSE m(idx)
      zip(l) == LET idx == ((part * lanes) \div 2) + (l \div 2) IN IF l % 2 = 0 THEN n(idx) ELSE m(idx)
      lane(l) == CASE i.imm % 4 = 1 -> uzp(l) [] i.imm % 4 = 2 -> trn(l) [] OTHER -> zip(l)
  IN PutV(s, i, SetLanes(Zeroes, esize, 0, [l \in 0 .. lanes - 1 |-> lane(l)]))

opSimdTable(s, i) ==
  LET tbl(k) == s.v[(i.rn + (k \div 16)) % 32][k % 16]
      byte(k) == IF s.v[i.rm][k] < 16 * (i.imm + 1) THEN tbl(s.v[i.rm][k])
                 ELSE IF i.imm2 = 0 THEN 0 ELSE s.v[i.rd][k]
  IN PutV(s, i, [k \in Bytes |-> IF k < 8 * (1 + i.sh) THEN byte(k) ELSE 0])

opSimdIntIndexed(s, i) ==
  LET esize == 2^i.sz
      b == getLane(s.v[i.rm], esize, i.ra)
      lane(l) == simdALU(i.op, getLane(s.v[i.rn], esize, l), b, getLane(s.v[i.rd], esize, l), esize)
  IN PutV(s, i, SetLanes(Zeroes, esize, 0, [l \in 0 .. i.amt - 1 |-> lane(l)]))

opSimdAddpScalar(s, i) ==
  LET sum(l) == getLane(s.v[i.rn], 8, 0) + getLane(s.v[i.rn], 8, 1)
  IN PutV(s, i, SetLanes(Zeroes, 8, 0, [l \in {0} |-> sum(l)]))

Exec(s, i) ==
  CASE i.fn \in {"opSimdBitwiseD", "opSimdBitwiseQ"} -> opSimdBitwise(s, i)
    [] i.fn = "opSimd3Same" -> opSimd3Same(s, i) [] i.fn = "opSimdPairwise" -> opSimdPairwise(s, i)
    [] i.fn = "opSimd3Diff" -> opSimd3Diff(s, i) [] i.fn = "opSimd2Misc" -> opSimd2Misc(s, i)
    [] i.fn = "opSimdRev" -> opSimdRev(s, i) [] i.fn = "opSimdAcross" -> opSimdAcross(s, i)
    [] i.fn \in {"opSimdUmov", "opSimdSmov64", "opSimdSmov32"} -> opSimdMov(s, i)
    [] i.fn \in {"opSimdMovImm", "opSimdOrrImm", "opSimdBicImm"} -> opSimdImm(s, i)
    [] i.fn = "opFmovImm" -> opFmovImm(s, i)
    [] i.fn = "opSimdShiftImm" -> opSimdShiftImm(s, i) [] i.fn = "opSimdShllImm" -> opSimdShllImm(s, i)
    [] i.fn = "opSimdShrnImm" -> opSimdShrnImm(s, i) [] i.fn = "opSimdExt" -> opSimdExt(s, i)
    [] i.fn = "opSimdPermute" -> opSimdPermute(s, i) [] i.fn = "opSimdTable" -> opSimdTable(s, i)
    [] i.fn = "opSimdIntIndexed" -> opSimdIntIndexed(s, i) [] i.fn = "opSimdAddpScalar" -> opSimdAddpScalar(s, i)
    [] OTHER -> opSimdCopy(s, i)
=============================================================================
