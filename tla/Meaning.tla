------------------------------- MODULE Meaning -------------------------------
(***************************************************************************)
(* What the data-processing and branch instructions of DataProcessing mean  *)
(* in the architecture, stated on integers and sets of bits, independently  *)
(* of the masks, rotations and carry tricks the interpreter computes with.  *)
(***************************************************************************)
EXTENDS DataProcessing

Bits(x) == {k \in 0 .. XLEN - 1 : BitOf(x, k) = 1}
From(bits) == SumSet({2^k : k \in bits})
InSigned(x, n) == 0 - 2^(n - 1) <= x /\ x < 2^(n - 1)

Flags(x, n, c, v) ==
  8 * Select(x >= 2^(n - 1)) + 4 * Select(x = 0) + 2 * Select(c) + Select(v)

Sum(a, b, c, n) ==
  LET x == Low(a + b + c, n)
  IN <<x, Flags(x, n, a + b + c >= 2^n, ~InSigned(Signed(a, n) + Signed(b, n) + c, n))>>
Difference(a, b, borrow, n) ==
  LET x == Low(a - b - borrow, n)
  IN <<x, Flags(x, n, a >= b + borrow, ~InSigned(Signed(a, n) - Signed(b, n) - borrow, n))>>

(* The relation each condition stands for after comparing p with q.          *)
Holds(cc, p, q) ==
  LET sp == Signed(p, XLEN)   sq == Signed(q, XLEN)
      even == <<p = q, p >= q, Low(p - q, XLEN) >= 2^(XLEN - 1), ~InSigned(sp - sq, XLEN),
                p > q, sp >= sq, sp > sq, TRUE>>[cc \div 2 + 1]
  IN cc >= 14 \/ (even = (cc % 2 = 0))

Shifted(kind, x, k, n) ==
  LET b == Bits(x)
  IN From(CASE kind = 0 -> {j \in 0 .. n - 1 : j - k \in b}
            [] kind = 1 -> {j \in 0 .. n - 1 : j + k \in b}
            [] kind = 2 -> {j \in 0 .. n - 1 : IF j + k < n THEN j + k \in b ELSE n - 1 \in b}
            [] OTHER -> {j \in 0 .. n - 1 : (j + k) % n \in b})

Extension(x, option) ==
  LET n == ByteBits * 2^(option % 4)
  IN IF option < 4 THEN Low(x, n) ELSE Signed(Low(x, n), n)

Logic(opc, a, b, n) ==
  From(CASE opc = 1 -> Bits(a) \cup Bits(b)
         [] opc = 2 -> (Bits(a) \cup Bits(b)) \ (Bits(a) \cap Bits(b))
         [] OTHER -> Bits(a) \cap Bits(b))

(* Element size of a logical immediate; 0 for none.                          *)
ElementSize(e) ==
  IF e.nbit = 1 THEN 8 ELSE IF e.imms < 4 THEN 4 ELSE IF e.imms < 6 THEN 2 ELSE 0
Repeated(e) ==
  LET size == ElementSize(e)
  IN From({k \in 0 .. Width(e.sf) - 1 : (k + e.immr) % size <= e.imms % size})

(* Where a bitfield move puts its field.                                     *)
FieldLow(e) == IF e.imms >= e.immr THEN 0 ELSE Width(e.sf) - e.immr
FieldHigh(e) == FieldLow(e) + (IF e.imms >= e.immr THEN e.imms - e.immr ELSE e.imms)

Moved(e, src, dst) ==
  LET n == Width(e.sf)
      field == {j \in FieldLow(e) .. FieldHigh(e) : (j + e.immr) % n \in Bits(src)}
      above == FieldHigh(e) + 1 .. n - 1
  IN From(CASE e.opc = 0 -> IF e.imms \in Bits(src) THEN field \cup above ELSE field
            [] e.opc = 1 -> field \cup (Bits(dst) \ (FieldLow(e) .. FieldHigh(e)))
            [] OTHER -> field)

Quotient(x, a, b, n) ==
  \E q \in 0 - 2^(n - 1) .. 2^(n - 1) :
    LET rem == a - q * b
        abs(y) == IF y < 0 THEN 0 - y ELSE y
    IN x = Low(q, n) /\ abs(rem) < abs(b) /\ (rem = 0 \/ (rem < 0) = (a < 0))

Reversed(e, x, n) ==
  From({j \in 0 .. n - 1 :
          LET k == CASE e.op = 0 -> n - 1 - j
                     [] e.op = 1 -> IF j % 2 = 0 THEN j + 1 ELSE j - 1
                     [] e.op = 2 -> IF j < 4 THEN 3 - j ELSE 11 - j
                     [] OTHER -> 7 - j
          IN k \in Bits(x)})

(* Equal bits at the top of x.                                               *)
SameTop(x, n) == Cardinality({k \in 0 .. n - 1 : \A j \in n - 1 - k .. n - 1 : BitOf(x, j) = BitOf(x, n - 1)})

Allocated(e) ==
  LET n == Width(e.sf)
  IN CASE e.class = "logical" -> e.amt < n
       [] e.class = "addsub" -> e.sh < 3 /\ e.amt < n
       [] e.class = "addext" -> e.amt <= 4
       [] e.class = "dp2" -> e.op \in {2, 3, 8, 9, 10, 11}
       [] e.class = "dp1" -> e.op <= 5 /\ (e.op = 3 => e.sf)
       [] e.class = "dp3" -> e.op \in {0, 1} \/ (e.sf /\ e.op \in {2, 3, 4, 10, 11, 12})
       [] e.class = "logimm" -> /\ ElementSize(e) \in 2 .. n
                                /\ (e.imms % ElementSize(e)) < ElementSize(e) - 1
       [] e.class = "movewide" -> e.opc # 1 /\ MovBits * e.hw < n
       [] e.class = "bitfield" -> e.opc < 3 /\ e.nbit = Select(e.sf) /\ e.immr < n /\ e.imms < n
       [] e.class = "extract" -> e.nbit = Select(e.sf) /\ e.imms < n
       [] OTHER -> TRUE

(* The register a result goes to, 0 - 1 for none, and the values read.       *)
SpResult(e) == (e.class \in {"addext", "addimm"} /\ ~e.s) \/ (e.class = "logimm" /\ e.opc # 3)
Target(e) == IF e.rd = 31 THEN IF SpResult(e) THEN rSP ELSE 0 - 1 ELSE e.rd
Value(s, k) == IF k = 31 THEN 0 ELSE s.r[k]
SpValue(s, k) == IF k = 31 THEN s.r[rSP] ELSE s.r[k]

(* <<result, flags>> of a data-processing instruction run in s, the flags     *)
(* being those of comparing p with q.                                         *)
Result(e, s, p, q) ==
  LET n == Width(e.sf)
      a == Low(Value(s, e.rn), n)   b == Low(Value(s, e.rm), n)   c == Low(Value(s, e.ra), n)
      spa == Low(SpValue(s, e.rn), n)
      plain(x) == <<x, s.nzcv>>
      keep(t) == IF e.s THEN t ELSE plain(t[1])
      logic(x) == IF e.opc = 3 THEN <<x, Flags(x, n, FALSE, FALSE)>> ELSE plain(x)
      sh == Shifted(e.sh, b, e.amt, n)
      arith(x, y) == keep(IF e.sub THEN Difference(x, y, 0, n) ELSE Sum(x, y, 0, n))
      wide(x) == IF e.op < 4 THEN Signed(Low(x, WLEN), WLEN) ELSE Low(x, WLEN)
  IN CASE e.class = "logical" -> logic(Logic(e.opc, a, IF e.invert THEN Flip(sh, n) ELSE sh, n))
       [] e.class = "logimm" -> logic(Logic(e.opc, a, Repeated(e), n))
       [] e.class = "addsub" -> arith(a, sh)
       [] e.class = "addext" -> arith(spa, Low(Extension(Value(s, e.rm), e.sh) * 2^e.amt, n))
       [] e.class = "addimm" -> arith(spa, Low(e.imm * (IF e.invert THEN 2^ImmShift ELSE 1), n))
       [] e.class = "adc" -> keep(IF e.sub THEN Difference(a, b, Select(p < q), n)
                                          ELSE Sum(a, b, Select(p >= q), n))
       [] e.class = "csel" -> plain(IF Holds(e.cond, p, q) THEN a
                                    ELSE CASE e.opc = 0 -> b [] e.opc = 1 -> Low(b + 1, n)
                                           [] e.opc = 2 -> Low(0 - b - 1, n) [] OTHER -> Low(0 - b, n))
       [] e.class = "dp2" /\ e.op = 2 -> plain(IF b = 0 THEN 0 ELSE a \div b)
       [] e.class = "dp2" /\ e.op = 3 ->
            plain(IF b = 0 THEN 0
                  ELSE CHOOSE x \in Word(n) : Quotient(x, Signed(a, n), Signed(b, n), n))
       [] e.class = "dp2" /\ e.op > 3 -> plain(Shifted(e.op - 8, a, b % n, n))
       [] e.class = "dp1" /\ e.op < 4 -> plain(Reversed(e, a, n))
       [] e.class = "dp1" /\ e.op = 4 -> plain(Cardinality({k \in 0 .. n - 1 : a < 2^k}))
       [] e.class = "dp1" /\ e.op = 5 -> plain(SameTop(a, n) - 1)
       [] e.class = "dp3" /\ e.op = 0 -> plain(Low(c + a * b, n))
       [] e.class = "dp3" /\ e.op = 1 -> plain(Low(c - a * b, n))
       [] e.class = "dp3" /\ e.op \in {4, 12} ->
            plain(Low((IF e.op = 4 THEN Signed(a, n) * Signed(b, n) ELSE a * b) \div 2^XLEN, n))
       [] e.class = "dp3" /\ e.op \in {2, 10} -> plain(Low(c + wide(a) * wide(b), n))
       [] e.class = "dp3" /\ e.op \in {3, 11} -> plain(Low(c - wide(a) * wide(b), n))
       [] e.class = "adr" -> plain(Low(IF e.invert THEN (s.pc \div 2^PageBits + e.imm) * 2^PageBits
                                                   ELSE s.pc + e.imm, XLEN))
       [] e.class = "movewide" ->
            LET chunk == {j \in 0 .. XLEN - 1 : j - MovBits * e.hw \in Bits(e.imm)}
                slot == MovBits * e.hw .. MovBits * e.hw + MovBits - 1
            IN plain(CASE e.opc = 0 -> From((0 .. n - 1) \ chunk) [] e.opc = 2 -> From(chunk)
                       [] OTHER -> From((Bits(Low(Value(s, e.rd), n)) \ slot) \cup chunk))
       [] e.class = "bitfield" -> plain(Moved(e, a, Low(Value(s, e.rd), n)))
       [] OTHER -> plain(Low((a * 2^n + b) \div 2^e.imms, n))

(* A conditional compare: flags only.                                        *)
Compared(e, s, p, q) ==
  LET n == Width(e.sf)
      a == Low(Value(s, e.rn), n)
      b == Low(IF e.invert THEN e.rm ELSE Value(s, e.rm), n)
  IN IF ~Holds(e.cond, p, q) THEN e.nzcv
     ELSE (IF e.sub THEN Difference(a, b, 0, n) ELSE Sum(a, b, 0, n))[2]

(* Whether a branch is taken and where it goes.                              *)
Taken(e, s, p, q) ==
  CASE e.class = "cb" -> (Low(Value(s, e.rd), Width(e.sf)) = 0) # e.s
    [] e.class = "tb" -> (e.amt \in Bits(Value(s, e.rd))) = e.s
    [] e.class = "bcond" -> Holds(e.cond, p, q)
    [] OTHER -> TRUE
Links(e) == (e.class = "b" /\ e.s) \/ (e.class = "br" /\ e.opc = 1)
Goal(e, s) == IF e.class = "br" THEN Value(s, e.rn) ELSE Low(s.pc + 4 * e.imm, XLEN)

(* t is what e makes of s.  The slot that discards results is nobody's.       *)
Right(e, s, t, p, q) ==
  LET seen == DOMAIN s.r \ {rSink}
      next == Low(s.pc + 4, XLEN)
      res == Result(e, s, p, q)
      changed == [k \in seen |-> CASE e.class \in Branches /\ Links(e) /\ k = rLR -> next
                                   [] e.class \notin Branches \cup {"ccmp"} /\ k = Target(e) -> res[1]
                                   [] OTHER -> s.r[k]]
  IN /\ \A k \in seen : t.r[k] = changed[k]
     /\ t.nzcv = CASE e.class \in Branches -> s.nzcv [] e.class = "ccmp" -> Compared(e, s, p, q)
                   [] OTHER -> res[2]
     /\ t.pc = IF e.class \in Branches /\ Taken(e, s, p, q) THEN Goal(e, s) ELSE next

(* The registers X0 to X3 hold a, b, c, d, and p was compared with q.        *)
Sample(a, b, c, d, p, q) ==
  [r |-> [k \in {0, 1, 2, 3, rLR, rZR, rSP, rSink} |->
            CASE k = 0 -> a [] k = 1 -> b [] k = 2 -> c [] k = 3 -> d
              [] k = rSP -> 8 * c % 2^XLEN [] OTHER -> 0],
   nzcv |-> Difference(p, q, 0, XLEN)[2], pc |-> 2^PageBits + 8]

(* The interpreter decodes e exactly if the architecture allocates it, and    *)
(* running it does what it means, whatever the operands (drawn from vals).    *)
Faithful(e, vals) ==
  LET i == decode(e, 2^PageBits + 8)
  IN IF ~Allocated(e) THEN i.fn = "opUndef"
     ELSE /\ i.fn # "opUndef"
          /\ \A a, b \in vals :
               LET s == Sample(a, b, Low(3 * a + b, XLEN), Low(a + 5 * b + 77, XLEN), a, b)
               IN Right(e, s, Exec(s, i), a, b)
=============================================================================
