--------------------------- MODULE DataProcessing ----------------------------
(***************************************************************************)
(* Data processing and branches of the interpreter (internal/arm64/dpreg.go *)
(* and decode.go): what the decoder makes of an encoding and what the       *)
(* handler then does to registers, flags and PC.  Every handler of the code *)
(* comes for X and for W registers; here one operator takes the width n.    *)
(*                                                                         *)
(* Widths are scaled as in Words: a MOV chunk of 16 bits has MovBits bits,  *)
(* the 12-bit shift of an ADD immediate ImmShift, a page PageBits.  CRC32   *)
(* and the system registers are left out.                                   *)
(***************************************************************************)
EXTENDS Words, Sequences, Bitwise

MovBits == 2 * ByteBits
ImmShift == 2
PageBits == 6

Inst == [fn |-> "opUndef", n |-> XLEN, sel |-> 0, rd |-> 0, rn |-> 0, rm |-> 0, ra |-> 0,
         cond |-> 0, sh |-> 0, amt |-> 0, imm |-> 0, imm2 |-> 0]

Width(sf) == IF sf THEN XLEN ELSE WLEN
Flip(x, n) == 2^n - 1 - x
Without(x, y, n) == x & Flip(y, n)                  \* Go's x &^ y
Select(flag) == IF flag THEN 1 ELSE 0

-----------------------------------------------------------------------------
(* Flags: N Z C V as bits 3 .. 0.                                            *)

carry(s) == BitOf(s.nzcv, 1)

logicFlags(x, n) == 8 * BitOf(x, n - 1) + 4 * Select(x = 0)

addFlags(a, b, cin, n) ==
  LET x == Low(a + b + cin, n)
      co == (a + b + cin) \div 2^n
      v == BitOf((a ^^ x) & (b ^^ x), n - 1)
  IN [val |-> x, f |-> logicFlags(x, n) + 2 * co + v]

-----------------------------------------------------------------------------
(* Decoding.                                                                 *)

pick4x2(i, sf, sel, fn) == [i EXCEPT !.fn = fn, !.sel = sel, !.n = Width(sf)]

Operands(e) == [Inst EXCEPT !.rd = xw(e.rd), !.rn = xr(e.rn), !.rm = xr(e.rm)]
SpOperands(e, keepsZero) ==
  [Inst EXCEPT !.rd = IF keepsZero THEN xw(e.rd) ELSE xsp(e.rd), !.rn = xsp(e.rn)]

decodeDP2(e, i) ==
  CASE e.op = 2 -> pick4x2(i, e.sf, 0, "opUdiv")
    [] e.op = 3 -> pick4x2(i, e.sf, 0, "opSdiv")
    [] e.op \in 8 .. 11 -> pick4x2([i EXCEPT !.sh = e.op % 4], e.sf, 0, "opShiftV")
    [] OTHER -> Inst

decodeDP1(e, i) ==
  IF e.op > 5 \/ (e.op = 3 /\ ~e.sf) THEN Inst
  ELSE pick4x2(i, e.sf, 0, <<"opRbit", "opRev16", "opRev32", "opRev64", "opClz", "opCls">>[e.op + 1])

decodeDP3(e, i) ==
  LET j == [i EXCEPT !.ra = xr(e.ra)]
  IN CASE e.op = 0 -> pick4x2(j, e.sf, 0, "opMadd") [] e.op = 1 -> pick4x2(j, e.sf, 0, "opMsub")
       [] e.op \in {2, 3, 10, 11} /\ e.sf -> pick4x2(j, TRUE, e.op, "opMaddl")
       [] e.op \in {4, 12} /\ e.sf -> pick4x2(j, TRUE, e.op, "opMulh")
       [] OTHER -> Inst

decodeDPReg(e) ==
  LET i == Operands(e)
      op == 2 * Select(e.sub) + Select(e.s)
      tooFar == ~e.sf /\ e.amt >= WLEN
  IN CASE e.class = "logical" ->
            IF tooFar THEN Inst
            ELSE IF e.opc = 1 /\ ~e.invert /\ e.rn = 31 /\ e.amt = 0
            THEN pick4x2(i, e.sf, 0, "opMovReg")
            ELSE pick4x2([i EXCEPT !.sh = e.sh, !.amt = e.amt], e.sf,
                         2 * e.opc + Select(e.invert), "opLogicReg")
       [] e.class = "addsub" ->
            IF e.sh = 3 \/ tooFar THEN Inst
            ELSE pick4x2([i EXCEPT !.sh = e.sh, !.amt = e.amt], e.sf, op, "opAddSubReg")
       [] e.class = "addext" ->
            IF e.amt > 4 THEN Inst
            ELSE pick4x2([SpOperands(e, e.s) EXCEPT !.rm = xr(e.rm), !.sh = e.sh, !.amt = e.amt],
                         e.sf, op, "opAddSubExt")
       [] e.class = "adc" -> pick4x2(i, e.sf, op, "opAdc")
       [] e.class = "ccmp" ->
            IF ~e.s THEN Inst
            ELSE pick4x2([i EXCEPT !.cond = e.cond, !.amt = e.nzcv, !.imm = e.rm], e.sf,
                         2 * Select(e.sub) + Select(e.invert), "ccmp")
       [] e.class = "csel" ->
            IF e.s THEN Inst ELSE pick4x2([i EXCEPT !.cond = e.cond], e.sf, e.opc, "opCsel")
       [] e.class = "dp2" -> decodeDP2(e, i)
       [] e.class = "dp1" -> decodeDP1(e, i)
       [] OTHER -> decodeDP3(e, i)

replicate(x, esize, m) == SumSet({Low(x, esize) * 2^k : k \in {j \in 0 .. m - 1 : j % esize = 0}})

(* The masks of logical immediates and bitfield moves.  The length of an     *)
(* element is set by the highest bit of N and the inverted imms.             *)
decodeBitMasks(nbit, imms, immr, immediate, m) ==
  LET top == nbit * XLEN + Flip(imms, 3)
      l == IF top = 0 THEN 0 - 1 ELSE CHOOSE k \in 0 .. 3 : 2^k <= top /\ top < 2^(k + 1)
      levels == 2^l - 1
      s == imms & levels
      t == immr & levels
      d == (s - t) % (levels + 1)
      esize == 2^l
      welem == RotateRight(2^(s + 1) - 1, t, esize)
      bad == l < 1 \/ 2^l > m
  IN IF IF bad THEN TRUE ELSE immediate /\ s = levels THEN [ok |-> FALSE]
     ELSE [ok |-> TRUE, wmask |-> replicate(welem, esize, m),
           tmask |-> replicate(2^(d + 1) - 1, esize, m)]

decodeDPImm(e, pc) ==
  LET i == [Inst EXCEPT !.rd = xw(e.rd), !.rn = xr(e.rn), !.rm = xr(e.rm)]
      masks == decodeBitMasks(e.nbit, e.imms, e.immr, e.class = "logimm", Width(e.sf))
      chunk == e.imm * 2^(MovBits * e.hw)
  IN CASE e.class = "adr" ->
            [i EXCEPT !.fn = "opMovImm",
                      !.imm = Low(IF e.invert THEN pc - (pc % 2^PageBits) + e.imm * 2^PageBits
                                              ELSE pc + e.imm, XLEN)]
       [] e.class = "addimm" ->
            pick4x2([SpOperands(e, e.s) EXCEPT !.imm = Lsl(e.imm, IF e.invert THEN ImmShift ELSE 0, XLEN)],
                    e.sf, 2 * Select(e.sub) + Select(e.s), "opAddSubImm")
       [] e.class = "logimm" ->
            IF (~e.sf /\ e.nbit = 1) \/ ~masks.ok THEN Inst
            ELSE pick4x2([i EXCEPT !.imm = masks.wmask,
                                   !.rd = IF e.opc = 3 THEN xw(e.rd) ELSE xsp(e.rd)],
                         e.sf, e.opc, "opLogicImm")
       [] e.class = "movewide" ->
            IF e.opc = 1 \/ (~e.sf /\ e.hw >= 2) THEN Inst
            ELSE CASE e.opc = 0 -> [i EXCEPT !.fn = "opMovImm", !.imm = Low(Flip(chunk, XLEN), Width(e.sf))]
                   [] e.opc = 2 -> [i EXCEPT !.fn = "opMovImm", !.imm = chunk]
                   [] OTHER -> pick4x2([i EXCEPT !.rn = xr(e.rd), !.imm = chunk,
                                                 !.imm2 = Flip((2^MovBits - 1) * 2^(MovBits * e.hw), XLEN)],
                                       e.sf, 0, "opMovk")
       [] e.class = "bitfield" ->
            IF \/ ~e.sf /\ (e.immr >= WLEN \/ e.imms >= WLEN)
               \/ e.opc = 3 \/ e.nbit # Select(e.sf) \/ ~masks.ok
            THEN Inst
            ELSE pick4x2([i EXCEPT !.imm = masks.wmask, !.imm2 = masks.tmask, !.amt = e.immr, !.sh = e.imms,
                                   !.ra = IF e.opc = 1 THEN xr(e.rd) ELSE 0],
                         e.sf, 0, <<"opSbfm", "opBfm", "opUbfm">>[e.opc + 1])
       [] OTHER ->
            IF e.nbit # Select(e.sf) \/ (~e.sf /\ e.imms >= WLEN) THEN Inst
            ELSE pick4x2([i EXCEPT !.amt = e.imms], e.sf, 0, "opExtr")

decodeBranchReg(e) ==
  IF e.opc > 2 THEN Inst
  ELSE [Inst EXCEPT !.rn = xr(e.rn), !.fn = IF e.opc = 1 THEN "opBlr" ELSE "opBr"]

decodeBranch(e, pc) ==
  LET i == [Inst EXCEPT !.imm = Low(pc + 4 * e.imm, XLEN), !.rn = xr(e.rd)]
  IN CASE e.class = "b" -> IF e.s THEN [i EXCEPT !.fn = "opBL", !.imm2 = Low(pc + 4, XLEN)]
                                  ELSE [i EXCEPT !.fn = "opB"]
       [] e.class = "cb" -> pick4x2(i, e.sf, Select(e.s), "opCb")
       [] e.class = "tb" -> pick4x2([i EXCEPT !.amt = e.amt], TRUE, Select(e.s), "opTb")
       [] e.class = "bcond" -> [i EXCEPT !.cond = e.cond, !.fn = "opBcond"]
       [] OTHER -> decodeBranchReg(e)

Registers == {"logical", "addsub", "addext", "adc", "ccmp", "csel", "dp1", "dp2", "dp3"}
Immediates == {"adr", "addimm", "logimm", "movewide", "bitfield", "extract"}
Branches == {"b", "cb", "tb", "bcond", "br"}

decode(e, pc) ==
  CASE e.class \in Registers -> decodeDPReg(e)
    [] e.class \in Immediates -> decodeDPImm(e, pc)
    [] OTHER -> decodeBranch(e, pc)

-----------------------------------------------------------------------------
(* Handlers.                                                                 *)

Next4(s) == [s EXCEPT !.pc = Low(s.pc + 4, XLEN)]
Put(s, i, x) == [Next4(s) EXCEPT !.r[i.rd] = x]
PutFlags(s, i, x, f) == [Put(s, i, x) EXCEPT !.nzcv = f]

Rn(s, i) == Low(s.r[i.rn], i.n)
Rm(s, i) == Low(s.r[i.rm], i.n)
Ra(s, i) == Low(s.r[i.ra], i.n)

Shift(kind, x, k, n) ==
  CASE kind = 0 -> Lsl(x, k, n) [] kind = 1 -> Lsr(x, k)
    [] kind = 2 -> Asr(x, k, n) [] OTHER -> RotateRight(x, k, n)

shOp(s, i) == Shift(i.sh, Rm(s, i), i.amt, i.n)
extOp(s, i) == Low(Lsl(extend(s.r[i.rm], i.sh), i.amt, XLEN), i.n)

(* AND BIC ORR ORN EOR EON ANDS BICS by sel.                                 *)
opLogicReg(s, i) ==
  LET b == IF i.sel % 2 = 1 THEN Flip(shOp(s, i), i.n) ELSE shOp(s, i)
      x == CASE i.sel \div 2 = 1 -> Rn(s, i) | b [] i.sel \div 2 = 2 -> Rn(s, i) ^^ b
             [] OTHER -> Rn(s, i) & b
  IN IF i.sel >= 6 THEN PutFlags(s, i, x, logicFlags(x, i.n)) ELSE Put(s, i, x)

opLogicImm(s, i) ==
  LET b == Low(i.imm, i.n)
      x == CASE i.sel = 1 -> Rn(s, i) | b [] i.sel = 2 -> Rn(s, i) ^^ b [] OTHER -> Rn(s, i) & b
  IN IF i.sel = 3 THEN PutFlags(s, i, x, logicFlags(x, i.n)) ELSE Put(s, i, x)

(* ADD ADDS SUB SUBS by sel, for each kind of second operand.                *)
AddSub(s, i, b) ==
  LET t == IF i.sel >= 2 THEN addFlags(Rn(s, i), Flip(b, i.n), 1, i.n)
                         ELSE addFlags(Rn(s, i), b, 0, i.n)
  IN IF i.sel % 2 = 1 THEN PutFlags(s, i, t.val, t.f) ELSE Put(s, i, t.val)

opAddSubReg(s, i) == AddSub(s, i, shOp(s, i))
opAddSubExt(s, i) == AddSub(s, i, extOp(s, i))
opAddSubImm(s, i) == AddSub(s, i, Low(i.imm, i.n))

opAdc(s, i) ==
  LET b == IF i.sel >= 2 THEN Flip(Rm(s, i), i.n) ELSE Rm(s, i)
      t == addFlags(Rn(s, i), b, carry(s), i.n)
  IN IF i.sel % 2 = 1 THEN PutFlags(s, i, t.val, t.f) ELSE Put(s, i, t.val)

ccmp(s, i) ==
  LET b == IF i.sel % 2 = 1 THEN Low(i.imm, i.n) ELSE Rm(s, i)
      t == IF i.sel >= 2 THEN addFlags(Rn(s, i), Flip(b, i.n), 1, i.n)
                         ELSE addFlags(Rn(s, i), b, 0, i.n)
  IN [Next4(s) EXCEPT !.nzcv = IF condTab(i.cond, s.nzcv) THEN t.f ELSE i.amt]

(* CSEL CSINC CSINV CSNEG by sel.                                            *)
opCsel(s, i) ==
  LET b == Rm(s, i)
      other == CASE i.sel = 0 -> b [] i.sel = 1 -> Low(b + 1, i.n)
                 [] i.sel = 2 -> Flip(b, i.n) [] OTHER -> Low(0 - b, i.n)
  IN Put(s, i, IF condTab(i.cond, s.nzcv) THEN Rn(s, i) ELSE other)

opUdiv(s, i) == Put(s, i, IF Rm(s, i) = 0 THEN 0 ELSE Rn(s, i) \div Rm(s, i))

(* Go's division truncates; MinInt / -1 wraps.                               *)
opSdiv(s, i) ==
  LET a == Signed(Rn(s, i), i.n)
      d == Signed(Rm(s, i), i.n)
      abs(x) == IF x < 0 THEN 0 - x ELSE x
      q == abs(a) \div abs(d)
  IN Put(s, i, IF d = 0 THEN 0 ELSE Low(IF (a < 0) # (d < 0) THEN 0 - q ELSE q, i.n))

opShiftV(s, i) == Put(s, i, Shift(i.sh, Rn(s, i), s.r[i.rm] % i.n, i.n))

(* Bytes reversed within each group of that many bytes.                      *)
ReverseBytes(x, n, group) ==
  LET bytes == n \div ByteBits
      at(k) == (k - (k % group)) + (group - 1 - (k % group))
      byte(k) == Low(Lsr(x, ByteBits * k), ByteBits)
  IN SumSet({byte(at(k)) * 2^(ByteBits * k) : k \in 0 .. bytes - 1})

opRev(s, i) ==
  LET group == CASE i.fn = "opRev16" -> 2 [] i.fn = "opRev32" -> 4 [] OTHER -> 8
  IN Put(s, i, IF i.fn = "opRbit" THEN ReverseBits(Rn(s, i), i.n)
                                  ELSE ReverseBytes(Rn(s, i), i.n, group))

opClz(s, i) == Put(s, i, LeadingZeros(Rn(s, i), i.n))
opCls(s, i) ==
  LET x == Rn(s, i) IN Put(s, i, LeadingZeros((x ^^ Lsr(x, 1)) & (2^(i.n - 1) - 1), i.n) - 1)

opMadd(s, i) ==
  LET p == Rn(s, i) * Rm(s, i)
  IN Put(s, i, Low(IF i.fn = "opMadd" THEN Ra(s, i) + p ELSE Ra(s, i) - p, i.n))

(* SMADDL SMSUBL UMADDL UMSUBL: W operands, X result.                        *)
opMaddl(s, i) ==
  LET w(x) == IF i.sel < 4 THEN Signed(Low(x, WLEN), WLEN) ELSE Low(x, WLEN)
      p == w(s.r[i.rn]) * w(s.r[i.rm])
  IN Put(s, i, Low(IF i.sel % 2 = 0 THEN s.r[i.ra] + p ELSE s.r[i.ra] - p, XLEN))

(* Mutant: SMULH corrected for one operand only.                              *)
opMulhOneSign(s, i) ==
  LET hi == (s.r[i.rn] * s.r[i.rm]) \div 2^XLEN
  IN Put(s, i, IF i.sel = 4 /\ BitOf(s.r[i.rn], XLEN - 1) = 1 THEN Low(hi - s.r[i.rm], XLEN) ELSE hi)

(* SMULH corrects the unsigned high half for each negative operand.          *)
opMulh(s, i) ==
  LET a == s.r[i.rn]
      b == s.r[i.rm]
      hi == (a * b) \div 2^XLEN
      minus(x, y) == IF BitOf(x, XLEN - 1) = 1 THEN y ELSE 0
  IN Put(s, i, IF i.sel = 12 THEN hi ELSE Low(hi - minus(a, b) - minus(b, a), XLEN))

opMovk(s, i) == Put(s, i, Low((s.r[i.rn] & i.imm2) | i.imm, i.n))

Rotated(s, i) == RotateRight(Rn(s, i), i.amt, i.n)

opUbfm(s, i) == Put(s, i, (Rotated(s, i) & i.imm) & i.imm2)

opSbfm(s, i) ==
  LET top == Asr(Lsl(Rn(s, i), i.n - 1 - i.sh, i.n), i.n - 1, i.n)
      bot == Rotated(s, i) & i.imm
  IN Put(s, i, Without(top, i.imm2, i.n) | (bot & i.imm2))

opBfm(s, i) ==
  LET dst == Ra(s, i)
      bot == Without(dst, i.imm, i.n) | (Rotated(s, i) & i.imm)
  IN Put(s, i, Without(dst, i.imm2, i.n) | (bot & i.imm2))

opExtr(s, i) == Put(s, i, Lsr(Rm(s, i), i.amt) | Lsl(Rn(s, i), i.n - i.amt, i.n))

Branch(s, i, taken) == IF taken THEN [s EXCEPT !.pc = i.imm] ELSE Next4(s)

opCb(s, i) == Branch(s, i, (Rn(s, i) = 0) = (i.sel = 0))
opTb(s, i) == Branch(s, i, BitOf(s.r[i.rn], i.amt) = i.sel)
opBcond(s, i) == Branch(s, i, condTab(i.cond, s.nzcv))
opBL(s, i) == [s EXCEPT !.r[rLR] = i.imm2, !.pc = i.imm]
opBr(s, i) == [s EXCEPT !.pc = s.r[i.rn]]
opBlr(s, i) == [s EXCEPT !.r[rLR] = Low(s.pc + 4, XLEN), !.pc = s.r[i.rn]]

Exec(s, i) ==
  CASE i.fn = "opMovReg" -> Put(s, i, Rm(s, i)) [] i.fn = "opMovImm" -> Put(s, i, i.imm)
    [] i.fn = "opLogicReg" -> opLogicReg(s, i) [] i.fn = "opLogicImm" -> opLogicImm(s, i)
    [] i.fn = "opAddSubReg" -> opAddSubReg(s, i) [] i.fn = "opAddSubExt" -> opAddSubExt(s, i)
    [] i.fn = "opAddSubImm" -> opAddSubImm(s, i) [] i.fn = "opAdc" -> opAdc(s, i)
    [] i.fn = "ccmp" -> ccmp(s, i) [] i.fn = "opCsel" -> opCsel(s, i)
    [] i.fn = "opUdiv" -> opUdiv(s, i) [] i.fn = "opSdiv" -> opSdiv(s, i)
    [] i.fn = "opShiftV" -> opShiftV(s, i) [] i.fn = "opMovk" -> opMovk(s, i)
    [] i.fn \in {"opRbit", "opRev16", "opRev32", "opRev64"} -> opRev(s, i)
    [] i.fn = "opClz" -> opClz(s, i) [] i.fn = "opCls" -> opCls(s, i)
    [] i.fn \in {"opMadd", "opMsub"} -> opMadd(s, i) [] i.fn = "opMaddl" -> opMaddl(s, i)
    [] i.fn = "opMulh" -> opMulh(s, i) [] i.fn = "opUbfm" -> opUbfm(s, i)
    [] i.fn = "opSbfm" -> opSbfm(s, i) [] i.fn = "opBfm" -> opBfm(s, i)
    [] i.fn = "opExtr" -> opExtr(s, i) [] i.fn = "opCb" -> opCb(s, i)
    [] i.fn = "opTb" -> opTb(s, i) [] i.fn = "opBcond" -> opBcond(s, i)
    [] i.fn = "opBL" -> opBL(s, i) [] i.fn = "opB" -> Branch(s, i, TRUE)
    [] i.fn = "opBr" -> opBr(s, i) [] OTHER -> opBlr(s, i)
=============================================================================
