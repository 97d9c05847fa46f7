----------------------------- MODULE FloatMeaning ------------------------------
(***************************************************************************)
(* What the floating-point instructions of Floats mean in the architecture:  *)
(* the number of the format nearest to the exact result, the NaN that the    *)
(* operands call for, the integer the rounding mode picks.                   *)
(*                                                                         *)
(* The interpreter is known to do something else in seven cases, defined      *)
(* below where they arise.  Aside names those a run leaves open: of them it   *)
(* says nothing, and with Aside empty everything here is the architecture.    *)
(***************************************************************************)
EXTENDS Floats

CONSTANT Aside
Open(name, case) == name \in Aside /\ case

(* The numbers of a format and the neighbours of one, by magnitude.             *)
Gap(f, m) == f.q * 2^(CHOOSE k \in 0 .. 20 : m < f.q * 2^(f.p + k) /\ \A j \in 0 .. k - 1 : m >= f.q * 2^(f.p + j))
InFormat(f, m) == m <= f.max /\ m % Gap(f, m) = 0
Above(f, m) == m + Gap(f, m)
Below(f, m) == IF m = 0 THEN 0 ELSE m - Gap(f, m - 1)
Odd(f, m) == (m \div Gap(f, m)) % 2 = 1

(* n / d units against half of h units: less, equal or more.                    *)
Less(n, d, h) == (2 * n) \div d < h
Same2(n, d, h) == (2 * n) \div d = h /\ (2 * n) % d = 0

(* r is the number of the format nearest to x, or the infinity beyond them.     *)
Nearest(f, x, r) ==
  LET low == r.mag + Below(f, r.mag)
      high == r.mag + Above(f, r.mag)
      top == f.max + Above(f, f.max)
      tie(h) == Same2(x.n, x.d, h)
  IN /\ r.neg = x.neg
     /\ IF IsInf(r) THEN ~Less(x.n, x.d, top)
        ELSE /\ r.kind = "num" /\ InFormat(f, r.mag)
             /\ ~Less(x.n, x.d, low) /\ (Less(x.n, x.d, high) \/ tie(high))
             /\ (tie(low) /\ r.mag # 0) \/ tie(high) => ~Odd(f, r.mag)

(* The NaN of an operation on xs: the first signaling one, made quiet, or the   *)
(* first.                                                                       *)
NaNOf(xs) ==
  LET nans == {k \in DOMAIN xs : IsNaN(xs[k])}
      signaling == {k \in nans : xs[k].mag < quietBit}
      first(S) == xs[CHOOSE k \in S : \A j \in S : k <= j]
  IN IF signaling # {} THEN nan(first(signaling).neg, first(signaling).mag + quietBit) ELSE first(nans)
AnyNaN(xs) == \E k \in DOMAIN xs : IsNaN(xs[k])
DefaultNaN == nan(FALSE, quietBit)

Delivers(f, xs, x, r) ==
  IF AnyNaN(xs) THEN r = NaNOf(xs)
  ELSE CASE x.kind = "nan" -> r = DefaultNaN
         [] x.kind = "inf" -> r = inf(x.neg)
         [] OTHER -> Nearest(f, x, r)

(* The double nearest to x is not x and lies half way between two singles: what *)
(* rounds to double first and then to single may go the wrong way.              *)
Halfway(x) ==
  LET y == Rounded(fpTypes[ftDouble], x)
      gap == Gap(fpTypes[ftSingle], y.mag)
  IN y.kind = "num" /\ y.mag * x.d # x.n /\ 2 * (y.mag % gap) = gap

Cancels(a, b) == (IsInf(a) /\ IsZero(b)) \/ (IsZero(a) /\ IsInf(b))
QuietNaN(v) == IsNaN(v) /\ ~isSignalingNaN(v)

(* a * b + c, rounded once; infinity times zero gives the default NaN even if    *)
(* the addend is a quiet one.  "fused": singles that are half way.  "invalid":   *)
(* that quiet NaN, which the interpreter answers.                               *)
MulAddIs(ft, a, b, c, r) ==
  LET x == ExactMulAdd(a, b, c)
  IN \/ Open("fused", ft = ftSingle /\ Halfway(x))
     \/ Open("invalid", Cancels(a, b) /\ QuietNaN(c))
     \/ IF Cancels(a, b) /\ ~isSignalingNaN(c) THEN r = DefaultNaN ELSE Delivers(fpTypes[ft], <<c, a, b>>, x, r)

(* The root of m units lies between the midpoints around r.                     *)
RootIs(f, a, r) ==
  LET square == 4 * One * a.mag
      low == r.mag + Below(f, r.mag)
      high == r.mag + Above(f, r.mag)
  IN CASE IsNaN(a) -> r = NaNOf(<<a>>)
       [] a.kind = "num" /\ a.mag > 0 /\ ~a.neg ->
            /\ r.kind = "num" /\ ~r.neg /\ InFormat(f, r.mag)
            /\ low * low <= square /\ square <= high * high
            /\ square \in {low * low, high * high} => ~Odd(f, r.mag)
       [] OTHER -> r = IF IsZero(a) \/ ~a.neg THEN a ELSE DefaultNaN

-----------------------------------------------------------------------------
(* Order, as integers.                                                          *)

Place(v) == (IF v.neg THEN -1 ELSE 1) * (IF v.kind = "inf" THEN 2^29 ELSE v.mag)
Rel(a, b) == IF AnyNaN(<<a, b>>) THEN "none" ELSE IF Place(a) = Place(b) THEN "eq"
             ELSE IF Place(a) < Place(b) THEN "lt" ELSE "gt"
Flags(a, b) == [none |-> 3, eq |-> 6, lt |-> 8, gt |-> 2][Rel(a, b)]

(* The larger, or with up FALSE the smaller; plus zero is the larger zero.      *)
Best(a, b, up) ==
  IF AnyNaN(<<a, b>>) THEN NaNOf(<<a, b>>)
  ELSE LET after(x, y) == Place(x) > Place(y) \/ (Place(x) = Place(y) /\ y.neg)
       IN IF after(a, b) = up THEN a ELSE b
(* A single quiet NaN is passed over.  "second": of two quiet NaNs the           *)
(* interpreter answers the second, not the first.                               *)
BestNumber(a, b, up) ==
  CASE QuietNaN(a) /\ ~IsNaN(b) -> b
    [] QuietNaN(b) /\ ~IsNaN(a) -> a
    [] OTHER -> Best(a, b, up)
BestNumberIs(a, b, up, r) == Open("second", QuietNaN(a) /\ QuietNaN(b)) \/ r = BestNumber(a, b, up)

(* The integer that mode picks for v, which is a number.                        *)
Integer(v, mode) ==
  LET x == IF v.neg THEN 0 - v.mag ELSE v.mag
      lo == x \div One
      frac == x % One
      nearer == IF 2 * frac < One THEN lo ELSE lo + 1
  IN CASE frac = 0 -> lo
       [] frac # 0 /\ mode \in {"N", "A"} ->
            IF 2 * frac # One THEN nearer
            ELSE IF mode = "A" THEN IF x < 0 THEN lo ELSE lo + 1
            ELSE IF lo % 2 = 0 THEN lo ELSE lo + 1
       [] OTHER -> IF mode = "P" \/ (mode = "Z" /\ x < 0) THEN lo + 1 ELSE lo

(* FRINT*.                                                                       *)
RintIs(v, mode, r) ==
  CASE v.kind = "num" -> r.neg = v.neg /\ r.kind = "num" /\ Place(r) = One * Integer(v, mode)
    [] IsNaN(v) -> r = NaNOf(<<v>>)
    [] OTHER -> r = v

(* FCVT*: out of range goes to the nearest bound, a NaN to zero.                  *)
Bounded(k, lo, hi) == IF k < lo THEN lo ELSE IF k > hi THEN hi ELSE k
ConvertIs(v, signed, n, mode, r) ==
  LET lo == IF signed THEN 0 - 2^(n - 1) ELSE 0
      hi == IF signed THEN 2^(n - 1) - 1 ELSE 2^n - 1
  IN r = int(CASE IsNaN(v) -> 0
               [] IsInf(v) -> Low(IF v.neg THEN lo ELSE hi, n)
               [] OTHER -> Low(Bounded(Integer(v, mode), lo, hi), n))

(* SCVTF, UCVTF of an integer of n bits, of which k are fraction.  "integer": to  *)
(* single the interpreter goes through double, and an X register may be half way. *)
FromIntegerIs(ft, x, signed, n, k, r) ==
  LET j == x.mag % 2^n
      value == IF signed /\ j >= 2^(n - 1) THEN j - 2^n ELSE j
      exact == Exact("num", value < 0, One * (IF value < 0 THEN 0 - value ELSE value), 2^k)
  IN Open("integer", ft = ftSingle /\ n = XBits /\ Halfway(exact)) \/ Nearest(fpTypes[ft], exact, r)

(* Between formats: the NaN keeps what fits of its fraction.                      *)
FormatIs(ft, v, r) ==
  CASE IsNaN(v) -> r.kind = "nan" /\ r.neg = v.neg /\ r.mag >= quietBit
                   /\ LET step == fpTypes[ft].nan IN r.mag % step = 0 /\ (r.mag - quietBit) \div step = (v.mag % quietBit) \div step
    [] IsInf(v) -> r = v
    [] OTHER -> Nearest(fpTypes[ft], Exact("num", v.neg, v.mag, 1), r)

-----------------------------------------------------------------------------
(* Which encodings the interpreter is to run: single and double precision, half  *)
(* precision only in conversions, no estimates, no round-to-odd, and not FRINTI   *)
(* of vectors, whose encoding nothing decodes.                                    *)
Runs(e) ==
  LET sd == e.s = 0 /\ e.ft \in {0, 1}
      long == e.scalar \/ e.size % 2 = 0 \/ e.q = 1
  IN CASE e.class = "fp1" ->
            /\ e.m = 0 /\ e.s = 0
            /\ \/ sd /\ e.opcode \in (0 .. 3) \cup (8 .. 12) \cup {14, 15}
               \/ <<e.ft, e.opcode>> \in {<<0, 5>>, <<0, 7>>, <<1, 4>>, <<1, 7>>, <<3, 4>>, <<3, 5>>}
       [] e.class = "fp2" -> sd /\ e.m = 0 /\ e.opcode < 9
       [] e.class \in {"fccmp", "fcsel", "fp3"} -> sd /\ e.m = 0
       [] e.class = "fcmp" -> sd /\ e.m = 0 /\ e.op = 0 /\ e.opcode2 \in {0, 8, 16, 24}
       [] e.class = "fpint" ->
            \/ sd /\ (e.opcode \in {0, 1} \/ (e.rmode = 0 /\ e.opcode < 6))
            \/ sd /\ e.rmode = 0 /\ e.opcode \in {6, 7} /\ e.m = e.ft
            \/ e.s = 0 /\ e.m = 1 /\ e.ft = 2 /\ e.rmode = 1 /\ e.opcode \in {6, 7}
       [] e.class = "fpfixed" ->
            /\ sd /\ <<e.rmode, e.opcode>> \in {<<0, 2>>, <<0, 3>>, <<3, 0>>, <<3, 1>>}
            /\ e.m = 1 \/ XBits - e.scale <= WBits
       [] e.class = "fpsame" ->
            LET key == <<e.u, e.size \div 2, e.opcode>>
            IN /\ long
               /\ IF e.scalar
                  THEN key \in {<<0, 0, 27>>, <<0, 0, 28>>, <<0, 0, 31>>, <<0, 1, 31>>, <<1, 0, 28>>, <<1, 0, 29>>,
                                <<1, 1, 26>>, <<1, 1, 28>>, <<1, 1, 29>>}
                  ELSE CASE e.opcode = 25 -> e.u = 0 [] e.opcode = 27 -> e.size < 2
                         [] e.opcode = 28 -> e.u = 1 \/ e.size < 2 [] e.opcode = 29 -> e.u = 1
                         [] e.opcode = 31 -> e.u = 0 \/ e.size < 2 [] OTHER -> TRUE
       [] e.class = "fppair" ->
            e.u = 1 /\ (e.opcode \in {12, 15} \/ (e.opcode = 13 /\ e.size < 2))
       [] e.class = "fpacross" -> e.u = 1 /\ e.opcode \in {12, 15} /\ e.size % 2 = 0 /\ e.q = 1
       [] e.class = "fpindexed" ->
            /\ e.opcode \in {1, 5, 9} /\ (e.u = 1 => e.opcode = 9)
            /\ e.size = 2 \/ (e.size = 3 /\ e.l = 0 /\ (e.scalar \/ e.q = 1))
       [] e.class = "fpmisc" ->
            LET key == <<e.u, e.size \div 2>>
            IN CASE e.opcode \in 12 .. 14 -> long /\ e.size >= 2 /\ ~(e.opcode = 14 /\ e.u = 1)
                 [] e.opcode = 15 -> ~e.scalar /\ long /\ e.size >= 2
                 [] e.opcode \in {22, 23} -> ~e.scalar /\ e.u = 0 /\ e.size < 2
                 [] e.opcode = 24 -> ~e.scalar /\ long /\ key # <<1, 1>>
                 [] e.opcode = 25 -> ~e.scalar /\ long /\ key # <<1, 1>>
                 [] e.opcode \in {26, 27} -> long
                 [] e.opcode = 28 -> long /\ e.size < 2
                 [] e.opcode = 29 -> long /\ e.size < 2
                 [] e.opcode = 31 -> ~e.scalar /\ long /\ key = <<1, 1>>
                 [] OTHER -> FALSE

-----------------------------------------------------------------------------
(* One lane, or a scalar.                                                         *)

Type(e) == e.size % 2
High(e) == e.size \div 2
LaneBits(ft) == IF ft = ftDouble THEN XBits ELSE WBits
Truth(p, ft) == int(IF p THEN 2^LaneBits(ft) - 1 ELSE 0)
Mode(s) == <<"N", "P", "M", "Z">>[s.fpcr + 1]

BinaryIs(op, ft, a, b, r) ==
  LET f == fpTypes[ft]
      xs == <<a, b>>
  IN CASE op = "mul" -> Delivers(f, xs, ExactProduct(a, b), r)
       [] op = "div" -> Delivers(f, xs, ExactQuotient(a, b), r)
       [] op = "add" -> Delivers(f, xs, ExactSum(a, b), r)
       [] op = "sub" -> Delivers(f, xs, ExactSum(a, [b EXCEPT !.neg = ~b.neg]), r)
       [] op = "max" -> r = Best(a, b, TRUE) [] op = "min" -> r = Best(a, b, FALSE)
       [] op = "maxnm" -> BestNumberIs(a, b, TRUE, r) [] OTHER -> BestNumberIs(a, b, FALSE, r)

(* The reduction steps negate the first operand, answer the constant for an       *)
(* infinity times zero, and round once.                                          *)
StepIs(ft, c, half, a, b, r) ==
  LET na == [a EXCEPT !.neg = ~a.neg]
      x == ExactMulAdd(na, b, c)
      y == [x EXCEPT !.d = x.d * half]
  IN CASE AnyNaN(<<a, b>>) -> r = NaNOf(<<na, b>>)
       [] Cancels(a, b) -> r = num(FALSE, c.mag \div half)
       [] OTHER -> Open("fused", ft = ftSingle /\ Halfway(y)) \/ Delivers(fpTypes[ft], <<>>, y, r)

MulxIs(ft, a, b, r) ==
  IF Cancels(a, b) THEN r = num(a.neg # b.neg, 2 * One)
  ELSE BinaryIs("mul", ft, a, b, r)

SameIs(e, a, b, d, r) ==
  LET ft == Type(e)
      alt == High(e) = 1
      na == [a EXCEPT !.neg = ~a.neg]
      size(v) == [v EXCEPT !.neg = FALSE]
  IN CASE e.opcode = 24 -> BinaryIs(IF alt THEN "minnm" ELSE "maxnm", ft, a, b, r)
       [] e.opcode = 25 -> MulAddIs(ft, IF alt THEN na ELSE a, b, d, r)
       [] e.opcode = 26 /\ e.u = 0 -> BinaryIs(IF alt THEN "sub" ELSE "add", ft, a, b, r)
       [] e.opcode = 26 /\ e.u = 1 -> ~r.neg /\ \E neg \in BOOLEAN : BinaryIs("sub", ft, a, b, [r EXCEPT !.neg = neg])
       [] e.opcode = 27 -> IF e.u = 0 THEN MulxIs(ft, a, b, r) ELSE BinaryIs("mul", ft, a, b, r)
       [] e.opcode = 28 -> r = Truth(Rel(a, b) \in (IF e.u = 0 THEN {"eq"} ELSE IF alt THEN {"gt"} ELSE {"gt", "eq"}), ft)
       [] e.opcode = 29 -> r = Truth(Rel(size(a), size(b)) \in (IF alt THEN {"gt"} ELSE {"gt", "eq"}), ft)
       [] e.opcode = 30 -> BinaryIs(IF alt THEN "min" ELSE "max", ft, a, b, r)
       [] e.opcode = 31 /\ e.u = 1 -> BinaryIs("div", ft, a, b, r)
       [] OTHER -> IF alt THEN StepIs(ft, num(FALSE, 3 * One), 2, a, b, r) ELSE StepIs(ft, num(FALSE, 2 * One), 1, a, b, r)

PairIs(e, a, b, r) ==
  LET min == High(e) = 1
  IN CASE e.opcode \in {13, 26} -> BinaryIs("add", Type(e), a, b, r)
       [] e.opcode \in {12, 24} -> BinaryIs(IF min THEN "minnm" ELSE "maxnm", Type(e), a, b, r)
       [] OTHER -> BinaryIs(IF min THEN "min" ELSE "max", Type(e), a, b, r)

(* "rint": a signaling NaN, which some hosts leave as it is.                       *)
MiscIs(e, s, a, r) ==
  LET ft == Type(e)
      alt == High(e) = 1
      n == LaneBits(ft)
      mode == CASE e.opcode = 28 \/ (e.opcode = 24 /\ e.u = 1) -> "A"
                [] e.opcode \in {24, 26} /\ ~(e.opcode = 24 /\ e.u = 1) -> IF alt THEN "P" ELSE "N"
                [] e.opcode = 25 /\ e.u = 1 -> Mode(s)
                [] OTHER -> IF alt THEN "Z" ELSE "M"
      rel == CASE e.opcode = 12 -> IF e.u = 0 THEN {"gt"} ELSE {"gt", "eq"}
               [] e.opcode = 13 -> IF e.u = 0 THEN {"eq"} ELSE {"lt", "eq"} [] OTHER -> {"lt"}
  IN CASE e.opcode \in 12 .. 14 -> r = Truth(Rel(a, Zero) \in rel, ft)
       [] e.opcode = 15 -> r = [a EXCEPT !.neg = e.u = 1 /\ ~a.neg]
       [] e.opcode \in {24, 25} -> Open("rint", isSignalingNaN(a)) \/ RintIs(a, mode, r)
       [] e.opcode \in {26, 27, 28} -> ConvertIs(a, e.u = 0, n, mode, r)
       [] e.opcode = 29 -> FromIntegerIs(ft, a, e.u = 0, n, 0, r)
       [] OTHER -> RootIs(fpTypes[ft], a, r)

(* FABS and FNEG touch the sign only.  "sign": of a single the interpreter also    *)
(* quietens a signaling NaN.                                                      *)
OneIs(e, s, a, r) ==
  LET snan == isSignalingNaN(a)
      mode == IF e.opcode \in 14 .. 15 THEN Mode(s) ELSE <<"N", "P", "M", "Z", "A">>[e.opcode - 7]
  IN CASE e.opcode = 0 -> r = a
       [] e.opcode \in {1, 2} -> \/ Open("sign", e.ft = ftSingle /\ snan)
                                 \/ r = [a EXCEPT !.neg = e.opcode = 2 /\ ~a.neg]
       [] e.opcode = 3 -> RootIs(fpTypes[e.ft], a, r)
       [] e.opcode \in 4 .. 7 -> FormatIs(e.opcode - 4, a, r)
       [] OTHER -> Open("rint", e.ft = ftDouble /\ snan) \/ RintIs(a, mode, r)

TwoIs(e, a, b, r) ==
  LET op == <<"mul", "div", "add", "sub", "max", "min", "maxnm", "minnm", "mul">>[e.opcode + 1]
  IN BinaryIs(op, e.ft, a, b, IF e.opcode = 8 THEN [r EXCEPT !.neg = ~r.neg] ELSE r)

(* FMAXV, FMINV, FMAXNMV, FMINNMV reduce the two halves and then these.  "across": *)
(* the interpreter goes from left to right, which shows when a signaling NaN       *)
(* becomes quiet on the way, and in the pick among quiet NaNs only.                *)
AcrossIs(e, v, r) ==
  LET number == e.opcode = 12
      up == High(e) = 0
      best(a, b) == IF number THEN BestNumber(a, b, up) ELSE Best(a, b, up)
      nans == {l \in 0 .. 3 : IsNaN(v[l])}
      signaling == {l \in nans : isSignalingNaN(v[l])}
  IN \/ Open("across", IF number THEN signaling # {} \/ nans = 0 .. 3 ELSE signaling # {} /\ Cardinality(nans) > 1)
     \/ r = best(best(v[0], v[1]), best(v[2], v[3]))

-----------------------------------------------------------------------------
(* Registers.                                                                     *)

Lane(e, s, l, r) ==
  LET long == 4 \div (1 + Type(e))
      count == IF e.scalar THEN 1 ELSE IF e.q = 1 THEN long ELSE long \div 2
      n == s.v[e.rn]   m == s.v[e.rm]   d == s.v[e.rd]
      all == [k \in 0 .. 2 * count - 1 |-> IF k < count THEN n[k] ELSE m[k - count]]
      element == s.v[16 * e.hi + e.rmlo][IF e.size = 2 THEN 2 * e.h + e.l ELSE e.h]
  IN CASE e.class = "fpmisc" /\ e.opcode = 23 ->
            IF l < long THEN FormatIs(Type(e), n[long * e.q + l], r) ELSE r = Zero
       [] e.class = "fpmisc" /\ e.opcode = 22 ->
            CASE l \in long * e.q .. long * e.q + long - 1 ->
                   FormatIs(IF Type(e) = ftDouble THEN ftSingle ELSE ftHalf, n[l - long * e.q], r)
              [] OTHER -> r = IF e.q = 1 /\ l < long THEN d[l] ELSE Zero
       [] l >= count -> r = Zero
       [] OTHER ->
            CASE e.class = "fpmisc" -> MiscIs(e, s, n[l], r)
              [] e.class = "fpsame" /\ e.u = 1 /\ ~e.scalar /\ (e.opcode \in {24, 30} \/ (e.opcode = 26 /\ e.size < 2)) ->
                   PairIs(e, all[2 * l], all[2 * l + 1], r)
              [] e.class = "fpindexed" ->
                   CASE e.opcode = 9 -> IF e.u = 1 THEN MulxIs(Type(e), n[l], element, r) ELSE BinaryIs("mul", Type(e), n[l], element, r)
                     [] OTHER -> MulAddIs(Type(e), IF e.opcode = 5 THEN [n[l] EXCEPT !.neg = ~n[l].neg] ELSE n[l], element, d[l], r)
              [] OTHER -> SameIs(e, n[l], m[l], d[l], r)

First(e, s, r) ==
  LET a == s.v[e.rn][0]   b == s.v[e.rm][0]   c == s.v[e.ra][0]
      minus(v, p) == IF p THEN [v EXCEPT !.neg = ~v.neg] ELSE v
      x == s.r[e.rn]
      n == IF e.m = 1 THEN XBits ELSE WBits
  IN CASE e.class = "fp1" -> OneIs(e, s, a, r) [] e.class = "fp2" -> TwoIs(e, a, b, r)
       [] e.class = "fp3" -> MulAddIs(e.ft, minus(a, e.o1 # e.o0), b, minus(c, e.o1 = 1), r)
       [] e.class = "fcsel" -> r = IF condTab(e.cond, s.nzcv) THEN a ELSE b
       [] e.class = "fppair" -> PairIs(e, a, s.v[e.rn][1], r)
       [] e.class = "fpacross" -> AcrossIs(e, s.v[e.rn], r)
       [] e.class = "fpfixed" -> FromIntegerIs(e.ft, x, e.opcode = 2, n, XBits - e.scale, r)
       [] OTHER -> IF e.opcode = 7 THEN r = x ELSE FromIntegerIs(e.ft, x, e.opcode = 2, n, 0, r)

Scaled(v, k) == IF v.kind = "num" THEN [v EXCEPT !.mag = v.mag * 2^k] ELSE v
General(e, s, r) ==
  LET a == s.v[e.rn][0]
      n == IF e.m = 1 THEN XBits ELSE WBits
  IN CASE e.class = "fpfixed" -> ConvertIs(Scaled(a, XBits - e.scale), e.opcode = 0, n, "Z", r)
       [] OTHER -> CASE e.opcode = 6 -> r = s.v[e.rn][e.rmode]
                     [] OTHER -> ConvertIs(a, e.opcode % 2 = 0, n,
                                           IF e.opcode > 1 THEN "A" ELSE <<"N", "P", "M", "Z">>[e.rmode + 1], r)

ToGeneral(e) == \/ e.class = "fpint" /\ e.opcode \in {0, 1, 4, 5, 6}
                \/ e.class = "fpfixed" /\ e.opcode < 2

Right(e, s, t) ==
  LET out == t.v[e.rd]
      wrote == [s EXCEPT !.pc = s.pc + 4, !.v[e.rd] = out]
  IN CASE e.class \in {"fcmp", "fccmp"} ->
            t = [s EXCEPT !.pc = s.pc + 4,
                          !.nzcv = IF e.class = "fccmp" /\ ~condTab(e.cond, s.nzcv) THEN e.nzcv
                                   ELSE Flags(s.v[e.rn][0], IF e.class = "fcmp" /\ e.opcode2 \in {8, 24} THEN Zero ELSE s.v[e.rm][0])]
       [] ToGeneral(e) -> LET k == IF e.rd = 31 THEN rSink ELSE e.rd
                          IN t = [s EXCEPT !.pc = s.pc + 4, !.r[k] = t.r[k]] /\ General(e, s, t.r[k])
       [] e.class = "fpint" /\ e.opcode = 7 /\ e.rmode = 1 -> t = [wrote EXCEPT !.v[e.rd] = [s.v[e.rd] EXCEPT ![1] = s.r[e.rn]]]
       [] e.class \in {"fpsame", "fpmisc", "fpindexed"} -> t = wrote /\ \A l \in 0 .. 7 : Lane(e, s, l, out[l])
       [] OTHER -> t = wrote /\ First(e, s, out[0]) /\ \A l \in 1 .. 7 : out[l] = Zero

Faithful(e, states) ==
  LET i == decode(e)
  IN /\ (i.fn # "opUndef") = Runs(e)
     /\ Runs(e) => \A s \in states : Right(e, s, Exec(s, i))
=============================================================================
