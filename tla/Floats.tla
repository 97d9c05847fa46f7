------------------------------- MODULE Floats --------------------------------
(***************************************************************************)
(* Floating-point instructions of the interpreter (internal/arm64/fp.go):    *)
(* what the decoder makes of an encoding and what the handler computes.      *)
(*                                                                         *)
(* Numbers are magnitudes in units of 1/One with a sign.  The three formats  *)
(* keep the relations the code relies on between half, single and double     *)
(* precision and W and X registers: a single is narrower than a W register,  *)
(* a double wider than that and narrower than an X register, and a double    *)
(* has twice the bits of a single and two more.  A vector register is its    *)
(* lanes in the format of the instruction; a lane or a general register may  *)
(* also hold an integer.                                                     *)
(***************************************************************************)
EXTENDS Words, Sequences, TLC

One == 256

ftSingle == 0
ftDouble == 1
ftHalf == 3

(* p bits of significand, q the spacing of the subnormals, and max the largest  *)
(* number; the fraction of a NaN is a multiple of nan below 16.                 *)
fpTypes == ftSingle :> [sz |-> 4, p |-> 3, q |-> 16, max |-> 7 * 2^16, nan |-> 2]
           @@ ftDouble :> [sz |-> 8, p |-> 8, q |-> 1, max |-> 255 * 2^12, nan |-> 1]
           @@ ftHalf :> [sz |-> 2, p |-> 2, q |-> 64, max |-> 3 * 2^9, nan |-> 4]

WBits == 5
XBits == 10
BitsOf(sz) == IF sz = 4 THEN WBits ELSE XBits

num(neg, mag) == [kind |-> "num", neg |-> neg, mag |-> mag]
inf(neg) == [kind |-> "inf", neg |-> neg, mag |-> 0]
nan(neg, frac) == [kind |-> "nan", neg |-> neg, mag |-> frac]
int(x) == [kind |-> "int", neg |-> FALSE, mag |-> x]
Zero == num(FALSE, 0)
Whole(x) == num(x < 0, (IF x < 0 THEN 0 - x ELSE x) * One)

IsNaN(v) == v.kind = "nan"
IsInf(v) == v.kind = "inf"
IsZero(v) == v.kind = "num" /\ v.mag = 0
Neg(v) == [v EXCEPT !.neg = ~v.neg]
Abs(v) == [v EXCEPT !.neg = FALSE]

quietBit == 8
isSignalingNaN(v) == IsNaN(v) /\ v.mag < quietBit
Quiet(v) == [v EXCEPT !.mag = IF v.mag < quietBit THEN v.mag + quietBit ELSE v.mag]
quietNaN(v) == IF IsNaN(v) THEN Quiet(v) ELSE v
defaultNaN == nan(FALSE, quietBit)

-----------------------------------------------------------------------------
(* IEEE arithmetic of the host: an exact result n / d units, rounded once.      *)
(* Products are cut off where every format has overflowed.                      *)

Exact(kind, neg, n, d) == [kind |-> kind, neg |-> neg, n |-> n, d |-> d]
Product(a, b) == IF a # 0 /\ b > 2^29 \div a THEN 2^29 ELSE a * b

ExactMulAdd(a, b, c) ==
  LET neg == a.neg # b.neg
      infinite == IsInf(a) \/ IsInf(b)
      side(s, x) == IF s THEN 0 - x ELSE x
      n == side(neg, Product(a.mag, b.mag)) + side(c.neg, c.mag * One)
  IN CASE IsNaN(a) \/ IsNaN(b) \/ IsNaN(c) \/ (infinite /\ (IsZero(a) \/ IsZero(b)))
            \/ (infinite /\ IsInf(c) /\ c.neg # neg) -> Exact("nan", FALSE, 0, 1)
       [] infinite \/ IsInf(c) -> Exact("inf", IF infinite THEN neg ELSE c.neg, 0, 1)
       [] OTHER -> Exact("num", IF n = 0 THEN neg /\ c.neg ELSE n < 0, side(n < 0, n), One)
ExactProduct(a, b) == ExactMulAdd(a, b, num(a.neg # b.neg, 0))
ExactSum(a, b) == ExactMulAdd(a, num(FALSE, One), b)

ExactQuotient(a, b) ==
  LET neg == a.neg # b.neg
  IN CASE IsNaN(a) \/ IsNaN(b) \/ (IsInf(a) /\ IsInf(b)) \/ (IsZero(a) /\ IsZero(b)) -> Exact("nan", FALSE, 0, 1)
       [] IsInf(a) \/ IsZero(b) -> Exact("inf", neg, 0, 1)
       [] IsInf(b) -> Exact("num", neg, 0, 1)
       [] OTHER -> Exact("num", neg, a.mag * One, b.mag)

Root[n \in Nat] ==
  IF n = 0 THEN 0 ELSE LET r == 2 * Root[n \div 4] IN IF (r + 1) * (r + 1) <= n THEN r + 1 ELSE r

(* Quarters of a unit, the last of which says that the root goes on.            *)
ExactRoot(a) ==
  LET r == Root[4 * One * a.mag]
  IN CASE IsNaN(a) \/ (a.neg /\ ~IsZero(a)) -> Exact("nan", FALSE, 0, 1)
       [] IsInf(a) -> Exact("inf", FALSE, 0, 1)
       [] OTHER -> Exact("num", a.neg, 2 * r + (IF r * r < 4 * One * a.mag THEN 1 ELSE 0), 4)

(* To nearest, ties to even.                                                    *)
Rounded(f, x) ==
  LET whole == x.n \div x.d
      u == f.q * 2^(CHOOSE k \in 0 .. 23 : /\ whole < f.q * 2^(f.p + k)
                                           /\ k = 0 \/ whole >= f.q * 2^(f.p + k - 1))
      m == whole \div u
      rest == x.n - m * u * x.d
      up == 2 * rest > u * x.d \/ (2 * rest = u * x.d /\ m % 2 = 1)
      mag == (IF up THEN m + 1 ELSE m) * u
  IN CASE x.kind = "nan" -> defaultNaN
       [] x.kind = "inf" -> inf(x.neg)
       [] OTHER -> IF mag > f.max THEN inf(x.neg) ELSE num(x.neg, mag)
Fit(ft, v) == IF v.kind = "num" THEN Rounded(fpTypes[ft], Exact("num", v.neg, v.mag, 1)) ELSE v
float64(x) == Fit(ftDouble, Whole(x))

-----------------------------------------------------------------------------
(* Conversion between formats; reading a lane (f16, f32, f64) is exact.         *)

b32(v) ==
  LET frac == v.mag - (v.mag % fpTypes[ftSingle].nan)
  IN IF IsNaN(v) THEN nan(v.neg, IF frac = 0 THEN quietBit ELSE frac) ELSE Fit(ftSingle, v)

minExp == 0 - 1     \* exponents of the half format, in the code -14, 15 and -36
maxExp == 2
tinyExp == 0 - 5
b16(v) ==
  LET f == fpTypes[ftHalf]
      exp == CHOOSE k \in -8 .. 14 : 2^(k + 8) <= v.mag /\ v.mag < 2^(k + 9)
      u == IF exp < minExp THEN f.q ELSE 2^(exp + 9 - f.p)
      m == v.mag \div u
      rem == v.mag % u
      mag == (IF 2 * rem > u \/ (2 * rem = u /\ m % 2 = 1) THEN m + 1 ELSE m) * u
  IN CASE IsNaN(v) -> Quiet(nan(v.neg, v.mag - (v.mag % f.nan)))
       [] IsInf(v) -> v
       [] IsZero(v) -> v
       [] OTHER -> CASE exp > maxExp \/ mag >= 2^(maxExp + 9) -> inf(v.neg)
                     [] exp < tinyExp -> num(v.neg, 0)
                     [] OTHER -> num(v.neg, mag)

put(ft, v) == CASE ft = ftSingle -> b32(v) [] ft = ftHalf -> b16(v) [] OTHER -> v
(* The host's conversion to single and back quietens a NaN.                     *)
round(ft, v) == CASE ft = ftSingle -> quietNaN(Fit(ftSingle, v)) [] ft = ftHalf -> b16(v) [] OTHER -> v

-----------------------------------------------------------------------------
(* Arithmetic with the architecture's NaNs.                                     *)

nanFix(res, ins) ==
  LET signaling == {k \in DOMAIN ins : isSignalingNaN(ins[k])}
      nans == {k \in DOMAIN ins : IsNaN(ins[k])}
      first(ks) == ins[CHOOSE k \in ks : \A j \in ks : k <= j]
  IN CASE ~IsNaN(res) -> res
       [] IsNaN(res) /\ signaling # {} -> Quiet(first(signaling))
       [] OTHER -> IF nans # {} THEN first(nans) ELSE defaultNaN

fpAdd(a, b, ft) == nanFix(Rounded(fpTypes[ft], ExactSum(a, b)), <<a, b>>)
fpSub(a, b, ft) == nanFix(Rounded(fpTypes[ft], ExactSum(a, Neg(b))), <<a, b>>)
fpMul(a, b, ft) == nanFix(Rounded(fpTypes[ft], ExactProduct(a, b)), <<a, b>>)
fpDiv(a, b, ft) == nanFix(Rounded(fpTypes[ft], ExactQuotient(a, b)), <<a, b>>)
sqrt(a) == nanFix(Rounded(fpTypes[ftDouble], ExactRoot(a)), <<a>>)

(* A single is computed in double precision and rounded again.                  *)
fma(a, b, acc, ft) ==
  LET wide == Rounded(fpTypes[ftDouble], ExactMulAdd(a, b, acc))
  IN nanFix(IF ft = ftSingle THEN Fit(ftSingle, wide) ELSE wide, <<acc, a, b>>)

(* The order of numbers and infinities; zeroes are equal.                       *)
Rank(v) == LET m == IF IsInf(v) THEN 2^30 ELSE v.mag IN IF v.neg THEN 0 - m ELSE m
Ordered(a, b) == ~IsNaN(a) /\ ~IsNaN(b)

fpMax(a, b) ==
  CASE ~Ordered(a, b) -> nanFix(defaultNaN, <<a, b>>)
    [] IsZero(a) /\ IsZero(b) -> IF a.neg THEN b ELSE a
    [] OTHER -> IF Rank(a) > Rank(b) THEN a ELSE b
fpMin(a, b) ==
  CASE ~Ordered(a, b) -> nanFix(defaultNaN, <<a, b>>)
    [] IsZero(a) /\ IsZero(b) -> IF a.neg THEN a ELSE b
    [] OTHER -> IF Rank(a) < Rank(b) THEN a ELSE b
fpMaxNum(a, b) ==
  CASE isSignalingNaN(a) \/ isSignalingNaN(b) -> nanFix(defaultNaN, <<a, b>>)
    [] OTHER -> IF IsNaN(a) THEN b ELSE IF IsNaN(b) THEN a ELSE fpMax(a, b)
fpMinNum(a, b) ==
  CASE isSignalingNaN(a) \/ isSignalingNaN(b) -> nanFix(defaultNaN, <<a, b>>)
    [] OTHER -> IF IsNaN(a) THEN b ELSE IF IsNaN(b) THEN a ELSE fpMin(a, b)

fpCompare(a, b) ==
  CASE ~Ordered(a, b) -> 3 [] OTHER -> IF Rank(a) = Rank(b) THEN 6 ELSE IF Rank(a) < Rank(b) THEN 8 ELSE 2

(* Rounding to an integer.  Whether a signaling NaN comes out quiet is up to    *)
(* the host's instruction; the last mode has none and leaves it.                *)
roundFP(v, mode, quietens) ==
  LET m == v.mag \div One
      rem == v.mag % One
      up == CASE mode = "rmNearest" -> 2 * rem > One \/ (2 * rem = One /\ m % 2 = 1)
              [] mode = "rmPlus" -> rem > 0 /\ ~v.neg [] mode = "rmMinus" -> rem > 0 /\ v.neg
              [] mode = "rmZero" -> FALSE [] OTHER -> 2 * rem >= One
  IN CASE v.kind = "num" -> num(v.neg, (IF up THEN m + 1 ELSE m) * One)
       [] IsNaN(v) /\ quietens /\ mode # "rmAway" -> Quiet(v)
       [] OTHER -> v
fpcrRMode(s) == <<"rmNearest", "rmPlus", "rmMinus", "rmZero">>[s.fpcr + 1]

fpToInt(v, signed, n, mode) ==
  LET r == Rank(roundFP(v, mode, TRUE))
      hi == Rank(float64(2^(n - 1) - 1))
      lo == Rank(float64(0 - (hi \div One) - 1))
  IN CASE IsNaN(v) -> 0
       [] ~IsNaN(v) /\ signed -> IF r >= hi THEN 2^(n - 1) - 1 ELSE IF r <= lo THEN 2^(n - 1)
                                 ELSE Low(r \div One, n)
       [] OTHER -> IF r <= 0 THEN 0 ELSE IF r >= One * 2^n THEN 2^n - 1 ELSE r \div One

-----------------------------------------------------------------------------
(* Decoding.                                                                    *)

Inst == [fn |-> "opUndef", op |-> "", rd |-> 0, rn |-> 0, rm |-> 0, ra |-> 0, sz |-> 0, amt |-> 0,
         sh |-> 0, cond |-> 0, imm |-> 0, signed |-> FALSE]
NameIn(table, k) == IF k \in DOMAIN table THEN table[k] ELSE "none"
Operands(e, sz) == [Inst EXCEPT !.rd = e.rd, !.rn = e.rn, !.rm = e.rm, !.ra = e.ra, !.sz = sz]

(* m is bit 31, the size of the general register.                               *)
decodeFPInt(e, i) ==
  LET sel == 8 * e.rmode + e.opcode
      plainFmov == (e.m = 0 /\ e.ft = ftSingle) \/ (e.m = 1 /\ e.ft = ftDouble)
      high == e.m = 1 /\ e.ft = 2
      toReg(fn) == [i EXCEPT !.rd = xw(e.rd), !.fn = fn]
      fromReg(fn) == [i EXCEPT !.rn = xr(e.rn), !.fn = fn]
      mode == <<"rmNearest", "rmPlus", "rmMinus", "rmZero">>[e.rmode + 1]
  IN CASE sel = 6 -> IF plainFmov THEN toReg("opFmovToGen") ELSE Inst
       [] sel = 7 -> IF plainFmov THEN fromReg("opFmovFromGen") ELSE Inst
       [] sel = 14 -> IF high THEN toReg("opFmovToGenHi") ELSE Inst
       [] sel = 15 -> IF high THEN fromReg("opFmovFromGenHi") ELSE Inst
       [] OTHER ->
            CASE e.ft = 2 -> Inst
              [] e.ft # 2 /\ e.opcode \in {0, 1} ->
                   [toReg("opFcvtToInt") EXCEPT !.op = mode, !.signed = e.opcode = 0]
              [] e.ft # 2 /\ e.opcode \in {2, 3} /\ e.rmode = 0 ->
                   [fromReg("opCvtfFromInt") EXCEPT !.signed = e.opcode = 2]
              [] e.ft # 2 /\ e.opcode \in {4, 5} /\ e.rmode = 0 ->
                   [toReg("opFcvtToInt") EXCEPT !.op = "rmAway", !.signed = e.opcode = 4]
              [] OTHER -> Inst

decodeFP(e) ==
  LET i == [Operands(e, e.ft) EXCEPT !.sh = e.m]
      half == e.ft = ftHalf
      wide == e.ft = 2
      plain == e.m = 0 /\ ~half /\ ~wide
  IN CASE e.s # 0 -> Inst
       [] e.s = 0 /\ e.class = "fccmp" /\ plain -> [i EXCEPT !.cond = e.cond, !.amt = e.nzcv, !.fn = "opFccmp"]
       [] e.s = 0 /\ e.class = "fp2" /\ plain /\ e.opcode <= 8 -> [i EXCEPT !.imm = e.opcode, !.fn = "opFP2"]
       [] e.s = 0 /\ e.class = "fcsel" /\ plain -> [i EXCEPT !.cond = e.cond, !.fn = "opFcsel"]
       [] e.s = 0 /\ e.class = "fcmp" /\ plain /\ e.op = 0 /\ e.opcode2 % 8 = 0 ->
            [i EXCEPT !.sh = BitOf(e.opcode2, 3), !.fn = "opFcmp"]
       [] e.s = 0 /\ e.class = "fp1" /\ e.m = 0 /\ e.opcode \div 4 = 1 ->
            IF e.opcode % 4 = 2 \/ e.opcode % 4 = e.ft \/ wide THEN Inst
            ELSE [i EXCEPT !.sh = e.opcode % 4, !.fn = "opFcvtFP"]
       [] e.s = 0 /\ e.class = "fp1" /\ plain /\ e.opcode \in {0, 1, 2, 3, 8, 9, 10, 11, 12, 14, 15} ->
            [i EXCEPT !.imm = e.opcode, !.fn = "opFP1"]
       [] e.s = 0 /\ e.class = "fpint" /\ ~half -> decodeFPInt(e, i)
       [] OTHER -> Inst

decodeFP3(e) ==
  IF e.m # 0 \/ e.s # 0 \/ e.ft \in {2, ftHalf} THEN Inst
  ELSE [Operands(e, e.ft) EXCEPT !.imm = 2 * e.o1 + e.o0, !.fn = "opFP3"]

(* imm fractional bits; a scale that leaves a W register none is undefined.     *)
decodeFPFixed(e) ==
  LET i == [Operands(e, e.ft) EXCEPT !.sh = e.m, !.imm = XBits - e.scale]
      sel == 8 * e.rmode + e.opcode
  IN CASE \/ e.ft \in {2, ftHalf} \/ e.s # 0
          \/ (e.m = 0 /\ e.scale < XBits - WBits) \/ sel \notin {2, 3, 24, 25} -> Inst
       [] OTHER -> IF sel \in {2, 3} THEN [i EXCEPT !.rn = xr(e.rn), !.signed = sel = 2, !.fn = "opCvtfFixed"]
                   ELSE [i EXCEPT !.rd = xw(e.rd), !.signed = sel = 24, !.fn = "opFcvtzFixed"]

(* Vector groups: bit 1 of size is part of the opcode, bit 0 the precision.     *)
typeOf(e) == IF e.size % 2 = 1 THEN ftDouble ELSE ftSingle
Lanes(e) == [Operands(e, typeOf(e)) EXCEPT !.amt = lanesOf(e, 2 + (e.size % 2))]
OneDouble(e) == ~e.scalar /\ typeOf(e) = ftDouble /\ e.q = 0

Same ==
  (0 :> "MAXNM" @@ 8 :> "MINNM" @@ 1 :> "MLA" @@ 9 :> "MLS" @@ 2 :> "ADD" @@ 10 :> "SUB"
   @@ 3 :> "MULX" @@ 4 :> "CMEQ" @@ 6 :> "MAX" @@ 14 :> "MIN" @@ 7 :> "RECPS" @@ 15 :> "RSQRTS"
   @@ 16 :> "MAXNMP" @@ 24 :> "MINNMP" @@ 18 :> "ADDP" @@ 26 :> "ABD" @@ 19 :> "MUL" @@ 20 :> "CMGE"
   @@ 28 :> "CMGT" @@ 21 :> "ACGE" @@ 29 :> "ACGT" @@ 22 :> "MAXP" @@ 30 :> "MINP" @@ 23 :> "DIV")
Pairwise == {"ADDP", "MAXP", "MINP", "MAXNMP", "MINNMP"}
scalarFP3Same == {"MULX", "CMEQ", "RECPS", "RSQRTS", "CMGE", "ACGE", "ABD", "CMGT", "ACGT"}

decodeSIMD3SameFP(e) ==
  LET op == NameIn(Same, 16 * e.u + 8 * (e.size \div 2) + (e.opcode % 8))
  IN IF op = "none" \/ (e.scalar /\ op \notin scalarFP3Same) \/ OneDouble(e) THEN Inst
     ELSE [Lanes(e) EXCEPT !.op = op, !.fn = IF op \in Pairwise THEN "opSimdFPPairwise" ELSE "opSimdFP3"]

decodeSIMDPairScalar(e) ==
  LET op == NameIn(5 :> "ADDP" @@ 7 :> "MAXP" @@ 15 :> "MINP" @@ 4 :> "MAXNMP" @@ 12 :> "MINNMP",
                   8 * (e.size \div 2) + (e.opcode % 8))
  IN IF e.u # 1 \/ e.opcode \notin 12 .. 15 \/ op = "none" THEN Inst
     ELSE [Operands(e, typeOf(e)) EXCEPT !.op = op, !.fn = "opSimdFPPairScalar"]

Misc ==
  (44 :> "CMGT0" @@ 45 :> "CMEQ0" @@ 46 :> "CMLT0" @@ 47 :> "ABS" @@ 24 :> "RINTN" @@ 25 :> "RINTM"
   @@ 26 :> "CVTNS" @@ 27 :> "CVTMS" @@ 28 :> "CVTAS" @@ 29 :> "SCVTF" @@ 56 :> "RINTP" @@ 57 :> "RINTZ"
   @@ 58 :> "CVTPS" @@ 59 :> "CVTZS" @@ 108 :> "CMGE0" @@ 109 :> "CMLE0" @@ 111 :> "NEG" @@ 88 :> "RINTA"
   @@ 89 :> "RINTI" @@ 90 :> "CVTNU" @@ 91 :> "CVTMU" @@ 92 :> "CVTAU" @@ 93 :> "UCVTF" @@ 122 :> "CVTPU"
   @@ 123 :> "CVTZU" @@ 127 :> "SQRT" @@ 23 :> "CVTL" @@ 22 :> "CVTN")
VectorOnly == {"ABS", "NEG", "SQRT", "RINTN", "RINTP", "RINTM", "RINTZ", "RINTA", "RINTI"}

decodeSIMD2MiscFP(e) ==
  LET op == NameIn(Misc, 64 * e.u + 32 * (e.size \div 2) + e.opcode)
      i == [Lanes(e) EXCEPT !.op = op, !.sh = e.q]
  IN CASE op = "none" -> Inst
       [] op \in {"CVTL", "CVTN"} ->
            IF e.scalar THEN Inst ELSE [i EXCEPT !.fn = IF op = "CVTL" THEN "opSimdFcvtWiden" ELSE "opSimdFcvtNarrow"]
       [] OTHER -> IF (e.scalar /\ op \in VectorOnly) \/ OneDouble(e) THEN Inst ELSE [i EXCEPT !.fn = "opSimd2MiscFP"]

decodeSIMDAcrossFP(e) ==
  LET op == (IF e.size \div 2 = 0 THEN "MAX" ELSE "MIN") \o (IF e.opcode = 12 THEN "NM" ELSE "")
  IN IF e.u # 1 \/ e.opcode \notin {12, 15} \/ e.size % 2 # 0 \/ e.q = 0 THEN Inst
     ELSE [Lanes(e) EXCEPT !.op = op, !.fn = "opSimdFPAcross"]

decodeSIMDIndexed(e) ==
  LET op == NameIn(1 :> "MLA" @@ 5 :> "MLS" @@ 9 :> "MUL" @@ 25 :> "MULX", 16 * e.u + e.opcode)
  IN IF op = "none" \/ e.size < 2 \/ (e.size = 3 /\ e.l # 0) \/ OneDouble(e) THEN Inst
     ELSE [Lanes(e) EXCEPT !.rm = 16 * e.hi + e.rmlo, !.ra = IF e.size = 3 THEN e.h ELSE 2 * e.h + e.l,
                           !.op = op, !.fn = "opSimdFPIndexed"]

decode(e) ==
  CASE e.class \in {"fp1", "fp2", "fcmp", "fccmp", "fcsel", "fpint"} -> decodeFP(e)
    [] e.class = "fp3" -> decodeFP3(e) [] e.class = "fpfixed" -> decodeFPFixed(e)
    [] e.class = "fpsame" -> decodeSIMD3SameFP(e) [] e.class = "fppair" -> decodeSIMDPairScalar(e)
    [] e.class = "fpmisc" -> decodeSIMD2MiscFP(e) [] e.class = "fpacross" -> decodeSIMDAcrossFP(e)
    [] OTHER -> decodeSIMDIndexed(e)

-----------------------------------------------------------------------------
(* Handlers.  A write to a vector register clears the lanes it does not name.   *)

Next4(s) == [s EXCEPT !.pc = s.pc + 4]
PutV(s, i, out) == [Next4(s) EXCEPT !.v[i.rd] = out]
PutR(s, i, x) == [Next4(s) EXCEPT !.r[i.rd] = x]
Filled(lanes) == [l \in 0 .. 7 |-> IF l \in DOMAIN lanes THEN lanes[l] ELSE Zero]
Scalar(x) == Filled([l \in {0} |-> x])
boolLane(p, ft) == int(IF p THEN 2^BitsOf(fpTypes[ft].sz) - 1 ELSE 0)
RegBits(i) == IF i.sh = 1 THEN XBits ELSE WBits

opFcmp(s, i) ==
  [Next4(s) EXCEPT !.nzcv = fpCompare(s.v[i.rn][0], IF i.sh = 0 THEN s.v[i.rm][0] ELSE Zero)]
opFccmp(s, i) ==
  [Next4(s) EXCEPT !.nzcv = IF condTab(i.cond, s.nzcv) THEN fpCompare(s.v[i.rn][0], s.v[i.rm][0]) ELSE i.amt]
opFcsel(s, i) == PutV(s, i, Scalar(s.v[IF condTab(i.cond, s.nzcv) THEN i.rn ELSE i.rm][0]))
opFcvtFP(s, i) == PutV(s, i, Scalar(put(i.sh, quietNaN(s.v[i.rn][0]))))

opFP1(s, i) ==
  LET a == s.v[i.rn][0]
      rint(mode) == roundFP(a, mode, s.quietens)
      r == CASE i.imm = 1 -> Abs(a) [] i.imm = 2 -> Neg(a) [] i.imm = 3 -> sqrt(a)
             [] i.imm = 8 -> rint("rmNearest") [] i.imm = 9 -> rint("rmPlus")
             [] i.imm = 10 -> rint("rmMinus") [] i.imm = 11 -> rint("rmZero")
             [] i.imm = 12 -> rint("rmAway") [] OTHER -> rint(fpcrRMode(s))
  IN PutV(s, i, Scalar(IF i.imm = 0 THEN a ELSE put(i.sz, round(i.sz, r))))

opFP2(s, i) ==
  LET a == s.v[i.rn][0]
      b == s.v[i.rm][0]
      r == CASE i.imm = 0 -> fpMul(a, b, i.sz) [] i.imm = 1 -> fpDiv(a, b, i.sz)
             [] i.imm = 2 -> fpAdd(a, b, i.sz) [] i.imm = 3 -> fpSub(a, b, i.sz)
             [] i.imm = 4 -> fpMax(a, b) [] i.imm = 5 -> fpMin(a, b)
             [] i.imm = 6 -> fpMaxNum(a, b) [] i.imm = 7 -> fpMinNum(a, b)
             [] OTHER -> Neg(fpMul(a, b, i.sz))
  IN PutV(s, i, Scalar(put(i.sz, r)))

(* FMADD, FMSUB, FNMADD, FNMSUB.                                                *)
opFP3(s, i) ==
  LET a == s.v[i.rn][0]
      acc == s.v[i.ra][0]
      r == fma(IF i.imm \in {1, 2} THEN Neg(a) ELSE a, s.v[i.rm][0],
               IF i.imm \in {2, 3} THEN Neg(acc) ELSE acc, i.sz)
  IN PutV(s, i, Scalar(put(i.sz, r)))

opFmov(s, i) ==
  CASE i.fn = "opFmovToGen" -> PutR(s, i, s.v[i.rn][0])
    [] i.fn = "opFmovFromGen" -> PutV(s, i, Scalar(s.r[i.rn]))
    [] i.fn = "opFmovToGenHi" -> PutR(s, i, s.v[i.rn][1])
    [] OTHER -> [Next4(s) EXCEPT !.v[i.rd][1] = s.r[i.rn]]

opFcvtToInt(s, i) == PutR(s, i, int(fpToInt(s.v[i.rn][0], i.signed, RegBits(i), i.op)))

(* An integer of n bits as a double.                                            *)
FromInt(x, signed, n) == LET k == Low(x.mag, n) IN float64(IF signed THEN Signed(k, n) ELSE k)
opCvtfFromInt(s, i) == PutV(s, i, Scalar(put(i.sz, FromInt(s.r[i.rn], i.signed, RegBits(i)))))

Ldexp(v, k) ==
  CASE v.kind # "num" -> v
    [] OTHER -> Rounded(fpTypes[ftDouble], Exact("num", v.neg, Product(v.mag, IF k > 0 THEN 2^k ELSE 1), IF k < 0 THEN 2^(0 - k) ELSE 1))
opCvtfFixed(s, i) ==
  PutV(s, i, Scalar(put(i.sz, Ldexp(FromInt(s.r[i.rn], i.signed, RegBits(i)), 0 - i.imm))))
opFcvtzFixed(s, i) == PutR(s, i, int(fpToInt(Ldexp(s.v[i.rn][0], i.imm), i.signed, RegBits(i), "rmZero")))

fpVecOp(op, a, b, dst, ft) ==
  LET na == Neg(a)
      cancels(x, y) == (IsInf(x) /\ IsZero(y)) \/ (IsZero(x) /\ IsInf(y))
      two(neg) == num(neg, 2 * One)
      oneAndHalf == num(FALSE, One + One \div 2)
      r == fma(na, b, num(FALSE, 3 * One), ft)
  IN CASE op = "ADD" -> fpAdd(a, b, ft) [] op = "SUB" -> fpSub(a, b, ft)
       [] op = "MUL" -> fpMul(a, b, ft) [] op = "DIV" -> fpDiv(a, b, ft)
       [] op = "MLA" -> fma(a, b, dst, ft) [] op = "MLS" -> fma(na, b, dst, ft)
       [] op = "MAX" -> fpMax(a, b) [] op = "MIN" -> fpMin(a, b)
       [] op = "MAXNM" -> fpMaxNum(a, b) [] op = "MINNM" -> fpMinNum(a, b)
       [] op = "ABD" -> Abs(fpSub(a, b, ft))
       [] op \in {"RECPS", "RSQRTS"} ->
            IF ~Ordered(na, b) THEN nanFix(defaultNaN, <<na, b>>)
            ELSE IF cancels(na, b) THEN IF op = "RECPS" THEN two(FALSE) ELSE oneAndHalf
            ELSE IF op = "RECPS" THEN fma(na, b, two(FALSE), ft)
            ELSE IF ~IsInf(r) THEN Ldexp(r, -1) ELSE fma(na, Ldexp(b, -1), oneAndHalf, ft)
       [] op = "MULX" -> IF cancels(a, b) THEN two(a.neg # b.neg) ELSE fpMul(a, b, ft)

fpVecCmp(op, a, b) ==
  LET x == Abs(a)   y == Abs(b)
  IN Ordered(a, b) /\ CASE op = "CMEQ" -> Rank(a) = Rank(b) [] op = "CMGE" -> Rank(a) >= Rank(b)
                        [] op = "CMGT" -> Rank(a) > Rank(b) [] op = "ACGE" -> Rank(x) >= Rank(y)
                        [] OTHER -> Rank(x) > Rank(y)

opSimdFP3(s, i) ==
  LET lane(l) == LET a == s.v[i.rn][l]
                     b == s.v[i.rm][l]
                 IN IF i.op \in {"CMEQ", "CMGE", "CMGT", "ACGE", "ACGT"} THEN boolLane(fpVecCmp(i.op, a, b), i.sz)
                    ELSE put(i.sz, fpVecOp(i.op, a, b, s.v[i.rd][l], i.sz))
  IN PutV(s, i, Filled([l \in 0 .. i.amt - 1 |-> lane(l)]))

pairOp(op, a, b, ft) ==
  CASE op = "ADDP" -> fpAdd(a, b, ft) [] op = "MAXP" -> fpMax(a, b) [] op = "MINP" -> fpMin(a, b)
    [] op = "MAXNMP" -> fpMaxNum(a, b) [] OTHER -> fpMinNum(a, b)
opSimdFPPairwise(s, i) ==
  LET v(l) == s.v[IF 2 * l < i.amt THEN i.rn ELSE i.rm]
      lane(l) == put(i.sz, pairOp(i.op, v(l)[(2 * l) % i.amt], v(l)[((2 * l) % i.amt) + 1], i.sz))
  IN PutV(s, i, Filled([l \in 0 .. i.amt - 1 |-> lane(l)]))
opSimdFPPairScalar(s, i) ==
  PutV(s, i, Scalar(put(i.sz, pairOp(i.op, s.v[i.rn][0], s.v[i.rn][1], i.sz))))

misc(s, op, a, ft) ==
  LET n == BitsOf(fpTypes[ft].sz)
      rint(mode) == put(ft, roundFP(a, mode, s.quietens))
      cvt(signed, mode) == int(fpToInt(a, signed, n, mode))
      truth(p) == boolLane(~IsNaN(a) /\ p, ft)
  IN CASE op = "ABS" -> put(ft, Abs(a)) [] op = "NEG" -> put(ft, Neg(a)) [] op = "SQRT" -> put(ft, sqrt(a))
       [] op = "RINTN" -> rint("rmNearest") [] op = "RINTP" -> rint("rmPlus") [] op = "RINTM" -> rint("rmMinus")
       [] op = "RINTZ" -> rint("rmZero") [] op = "RINTA" -> rint("rmAway") [] op = "RINTI" -> rint(fpcrRMode(s))
       [] op = "CVTZS" -> cvt(TRUE, "rmZero") [] op = "CVTZU" -> cvt(FALSE, "rmZero")
       [] op = "CVTNS" -> cvt(TRUE, "rmNearest") [] op = "CVTNU" -> cvt(FALSE, "rmNearest")
       [] op = "CVTMS" -> cvt(TRUE, "rmMinus") [] op = "CVTMU" -> cvt(FALSE, "rmMinus")
       [] op = "CVTPS" -> cvt(TRUE, "rmPlus") [] op = "CVTPU" -> cvt(FALSE, "rmPlus")
       [] op = "CVTAS" -> cvt(TRUE, "rmAway") [] op = "CVTAU" -> cvt(FALSE, "rmAway")
       [] op = "SCVTF" -> put(ft, FromInt(a, TRUE, n)) [] op = "UCVTF" -> put(ft, FromInt(a, FALSE, n))
       [] op = "CMEQ0" -> truth(Rank(a) = 0) [] op = "CMGE0" -> truth(Rank(a) >= 0)
       [] op = "CMGT0" -> truth(Rank(a) > 0) [] op = "CMLE0" -> truth(Rank(a) <= 0)
       [] OTHER -> truth(Rank(a) < 0)
opSimd2MiscFP(s, i) == PutV(s, i, Filled([l \in 0 .. i.amt - 1 |-> misc(s, i.op, s.v[i.rn][l], i.sz)]))

(* FCVTL and FCVTN; sz is the wider format, and sh picks the upper half.        *)
Narrower(i) == IF i.sz = ftDouble THEN ftSingle ELSE ftHalf
HalfLanes(i) == IF i.sz = ftDouble THEN 2 ELSE 4
opSimdFcvtWiden(s, i) ==
  LET c == HalfLanes(i)
  IN PutV(s, i, Filled([l \in 0 .. c - 1 |-> put(i.sz, quietNaN(s.v[i.rn][c * i.sh + l]))]))
opSimdFcvtNarrow(s, i) ==
  LET c == HalfLanes(i)
      narrow(l) == put(Narrower(i), quietNaN(s.v[i.rn][l]))
  IN PutV(s, i, IF i.sh = 0 THEN Filled([l \in 0 .. c - 1 |-> narrow(l)])
                ELSE Filled([l \in 0 .. 2 * c - 1 |-> IF l < c THEN s.v[i.rd][l] ELSE narrow(l - c)]))

opSimdFPAcross(s, i) ==
  LET best(a, b) == CASE i.op = "MAX" -> fpMax(a, b) [] i.op = "MIN" -> fpMin(a, b)
                      [] i.op = "MAXNM" -> fpMaxNum(a, b) [] OTHER -> fpMinNum(a, b)
      acc[l \in 0 .. i.amt - 1] == IF l = 0 THEN s.v[i.rn][0] ELSE best(acc[l - 1], s.v[i.rn][l])
  IN PutV(s, i, Scalar(put(ftSingle, acc[i.amt - 1])))

opSimdFPIndexed(s, i) ==
  LET b == s.v[i.rm][i.ra]
      lane(l) == put(i.sz, fpVecOp(i.op, s.v[i.rn][l], b, s.v[i.rd][l], i.sz))
  IN PutV(s, i, Filled([l \in 0 .. i.amt - 1 |-> lane(l)]))

Exec(s, i) ==
  CASE i.fn = "opFcmp" -> opFcmp(s, i) [] i.fn = "opFccmp" -> opFccmp(s, i) [] i.fn = "opFcsel" -> opFcsel(s, i)
    [] i.fn = "opFcvtFP" -> opFcvtFP(s, i) [] i.fn = "opFP1" -> opFP1(s, i) [] i.fn = "opFP2" -> opFP2(s, i)
    [] i.fn = "opFP3" -> opFP3(s, i) [] i.fn = "opFcvtToInt" -> opFcvtToInt(s, i)
    [] i.fn \in {"opFmovToGen", "opFmovFromGen", "opFmovToGenHi", "opFmovFromGenHi"} -> opFmov(s, i)
    [] i.fn = "opCvtfFromInt" -> opCvtfFromInt(s, i) [] i.fn = "opCvtfFixed" -> opCvtfFixed(s, i)
    [] i.fn = "opFcvtzFixed" -> opFcvtzFixed(s, i) [] i.fn = "opSimdFP3" -> opSimdFP3(s, i)
    [] i.fn = "opSimdFPPairwise" -> opSimdFPPairwise(s, i) [] i.fn = "opSimdFPPairScalar" -> opSimdFPPairScalar(s, i)
    [] i.fn = "opSimd2MiscFP" -> opSimd2MiscFP(s, i) [] i.fn = "opSimdFcvtWiden" -> opSimdFcvtWiden(s, i)
    [] i.fn = "opSimdFcvtNarrow" -> opSimdFcvtNarrow(s, i) [] i.fn = "opSimdFPAcross" -> opSimdFPAcross(s, i)
    [] OTHER -> opSimdFPIndexed(s, i)
=============================================================================
