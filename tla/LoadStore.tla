------------------------------ MODULE LoadStore ------------------------------
(***************************************************************************)
(* Loads, stores and exclusives of the interpreter (internal/arm64/ldst.go, *)
(* CLREX and DC ZVA of decode.go): an encoding is decoded once into an inst *)
(* (handler and operands), the handler then runs against registers, memory  *)
(* and the exclusive monitor, and may fault half way through.               *)
(*                                                                         *)
(* An encoding is a record of the instruction's fields.  A byte has         *)
(* ByteBits bit (Words), a page PageSize of them; an address has XLEN bits  *)
(* and wraps.  Memory hooks and TLB coherence are PageCache's subject: here *)
(* a TLB that knows a page (hit) knows a page that allows the access.       *)
(* FEAT_LSE is off in the code, which leaves CAS, SWP and LD<op> undefined. *)
(***************************************************************************)
EXTENDS Words, Sequences, FiniteSets, TLC

CONSTANTS
  PageSize, NumPages,  \* pages 0 .. NumPages - 1 are in use, the rest never mapped
  XRegs, VRegs,        \* general and vector registers in use
  Programs,            \* name -> [insts: encodings a guest runs, limit: its last pc]
  Bases, Prots,        \* initial values of the base register, of the pages' protections
  Background           \* initial memory: address -> byte

VARIABLES
  cpu,    \* r, v, pc, the monitor, mem; fault: the last instruction faulted
  prot,   \* protection of each page: a set of "R", "W"; {}: not mapped
  prog,   \* the program
  last    \* the last encoding run and whether it found its page in the TLB

vars == <<cpu, prot, prog, last>>

Pages == 0 .. NumPages - 1
Cells == 0 .. NumPages * PageSize - 1

modeOff == 0
modePre == 1
modePost == 2
modeReg == 3

extZero == 0
extSign == 1
extSign32 == 2

Inst == [fn |-> "opUndef", rd |-> 0, rn |-> 0, rm |-> 0, ra |-> 0, cond |-> modeOff,
         sh |-> extZero, amt |-> 0, sz |-> 0, imm |-> 0]

Nothing == [e |-> [class |-> "none"], hit |-> FALSE]
NoMonitor == [valid |-> FALSE, addr |-> 0, size |-> 0, val |-> 0, val2 |-> 0]


-----------------------------------------------------------------------------
(* Decoding.                                                                 *)

(* Size and extension of an access; PRFM is a load that does nothing.        *)
ldstKind(size, opc, vec) ==
  LET kind(b, x, l, p) == [bytes |-> b, ext |-> x, load |-> l, prfm |-> p, ok |-> TRUE]
      none == [kind(0, extZero, FALSE, FALSE) EXCEPT !.ok = FALSE]
  IN CASE vec /\ opc < 2 -> kind(2^size, extZero, opc = 1, FALSE)
       [] vec /\ opc >= 2 -> IF size = 0 THEN kind(16, extZero, opc = 3, FALSE) ELSE none
       [] ~vec /\ opc < 2 -> kind(2^size, extZero, opc = 1, FALSE)
       [] ~vec /\ opc = 2 -> IF size = 3 THEN kind(0, extZero, FALSE, TRUE)
                                         ELSE kind(2^size, extSign, TRUE, FALSE)
       [] OTHER -> IF size < 2 THEN kind(2^size, extSign32, TRUE, FALSE) ELSE none

(* Specialised handlers, one per size in the code.                           *)
hotLdSt(load, sz, ext) ==
  IF ext # extZero \/ sz \notin {1, 4, 8} THEN "none" ELSE IF load THEN "opLdrOff" ELSE "opStrOff"
hotLdStReg(load, sz, ext) ==
  IF ext # extZero \/ sz \notin {1, 4, 8} THEN "none" ELSE IF load THEN "opLdrReg" ELSE "opStrReg"

setLdSt(i, e, load) ==
  LET hot == IF e.vec THEN "none"
             ELSE CASE i.cond = modeOff -> hotLdSt(load, i.sz, i.sh)
                    [] i.cond = modeReg -> hotLdStReg(load, i.sz, i.sh)
                    [] OTHER -> "none"
      generic == CASE e.vec /\ load -> "opVLoad" [] e.vec /\ ~load -> "opVStore"
                   [] ~e.vec /\ load -> "opLoad" [] OTHER -> "opStore"
  IN [i EXCEPT !.rd = IF e.vec THEN e.rt ELSE IF load THEN xw(e.rt) ELSE xr(e.rt),
               !.fn = IF hot # "none" THEN hot ELSE generic]

decodeRegForm(e) ==
  LET k == ldstKind(e.size, e.opc, e.vec)
      base == [Inst EXCEPT !.rn = xsp(e.rn), !.sz = k.bytes, !.sh = k.ext]
      scaled == IF e.vec /\ e.opc >= 2 THEN 4 ELSE e.size
      i == IF e.regOffset
           THEN [base EXCEPT !.cond = modeReg, !.rm = xr(e.rm), !.ra = e.option,
                             !.amt = IF e.s THEN scaled ELSE 0]
           ELSE [base EXCEPT !.cond = <<modeOff, modePost, modeOff, modePre>>[e.idx + 1],
                             !.imm = Low(e.imm, XLEN)]
  IN CASE ~k.ok -> Inst
       [] e.regOffset /\ (e.idx # 2 \/ e.option \notin {2, 3, 6, 7}) -> Inst
       [] ~e.regOffset /\ e.idx = 2 /\ (e.vec \/ k.prfm) -> Inst
       [] ~e.regOffset /\ e.idx \in {1, 3} /\ k.prfm -> Inst
       [] OTHER -> IF k.prfm THEN [i EXCEPT !.fn = "opNop"] ELSE setLdSt(i, e, k.load)

decodeUnsignedImm(e) ==
  LET k == ldstKind(e.size, e.opc, e.vec)
      scale == IF e.vec /\ e.opc >= 2 THEN 4 ELSE e.size
      i == [Inst EXCEPT !.rn = xsp(e.rn), !.sz = k.bytes, !.sh = k.ext,
                        !.imm = Low(e.imm * 2^scale, XLEN)]
  IN CASE ~k.ok -> Inst
       [] k.ok /\ k.prfm -> [i EXCEPT !.fn = "opNop"]
       [] OTHER -> setLdSt(i, e, k.load)

decodeLiteral(e, pc) ==
  LET i == [Inst EXCEPT !.imm = Low(pc + 4 * e.imm, XLEN), !.rn = rZR]
  IN CASE e.vec /\ e.opc > 2 -> Inst
       [] e.vec /\ e.opc <= 2 -> [i EXCEPT !.sz = 4 * 2^e.opc, !.rd = e.rt, !.fn = "opVLoad"]
       [] ~e.vec /\ e.opc = 3 -> [i EXCEPT !.fn = "opNop"]
       [] OTHER -> [i EXCEPT !.sz = <<4, 8, 4>>[e.opc + 1], !.rd = xw(e.rt), !.fn = "opLoad",
                             !.sh = IF e.opc = 2 THEN extSign ELSE extZero]

decodePair(e) ==
  LET bytes == IF e.vec THEN 4 * 2^e.opc ELSE IF e.opc = 2 THEN 8 ELSE 4
      sign == ~e.vec /\ e.opc = 1                \* LDPSW: no store, not non-temporal
      mode == <<modeOff, modePost, modeOff, modePre>>[e.idx + 1]
      reg(t) == IF e.vec THEN t ELSE IF e.l THEN xw(t) ELSE xr(t)
      wide == bytes = 8 /\ mode = modeOff
  IN IF e.opc = 3 \/ (sign /\ (~e.l \/ e.idx = 0)) THEN Inst
     ELSE [Inst EXCEPT
             !.fn = CASE e.vec -> IF e.l THEN "opVLoadPair" ELSE "opVStorePair"
                      [] ~e.vec /\ e.l -> IF wide /\ ~sign THEN "opLdp64Off" ELSE "opLoadPair"
                      [] OTHER -> IF wide THEN "opStp64Off" ELSE "opStorePair",
             !.cond = mode, !.imm = Low(e.imm * bytes, XLEN), !.rn = xsp(e.rn), !.sz = bytes,
             !.rd = reg(e.rt), !.ra = reg(e.rt2), !.sh = IF sign THEN extSign ELSE extZero]

decodeExclusive(e) ==
  LET i == [Inst EXCEPT !.rn = xsp(e.rn), !.sz = 2^e.size, !.rd = IF e.l THEN xw(e.rt) ELSE xr(e.rt)]
      status == xw(e.rs)
  IN CASE e.o2 /\ e.o1 -> Inst                   \* CAS
       [] e.o2 /\ ~e.o1 -> IF ~e.o0 \/ e.rs # 31 \/ e.rt2 # 31 THEN Inst
                           ELSE [i EXCEPT !.fn = IF e.l THEN "opLoad" ELSE "opStore"]
       [] ~e.o2 /\ ~e.o1 -> IF e.rt2 # 31 \/ (e.l /\ e.rs # 31) THEN Inst
                            ELSE IF e.l THEN [i EXCEPT !.fn = "opLdxr"]
                            ELSE [i EXCEPT !.fn = "opStxr", !.ra = status]
       [] OTHER -> IF e.size < 2 \/ (e.l /\ e.rs # 31) THEN Inst
                   ELSE IF e.l THEN [i EXCEPT !.fn = "opLdxp", !.rm = xw(e.rt2)]
                   ELSE [i EXCEPT !.fn = "opStxp", !.rm = xr(e.rt2), !.ra = status]

(* Registers moved and their grouping by opcode.                             *)
MultiShape == [opcode \in {0, 2, 4, 6, 7, 8, 10} |->
  CASE opcode = 0 -> <<4, 4>> [] opcode = 2 -> <<4, 1>> [] opcode = 4 -> <<3, 3>>
    [] opcode = 6 -> <<3, 1>> [] opcode = 7 -> <<1, 1>> [] opcode = 8 -> <<2, 2>>
    [] OTHER -> <<2, 1>>]

decodeSIMDMulti(e) ==
  IF \/ e.opcode \notin DOMAIN MultiShape
     \/ MultiShape[e.opcode][2] >= 2 /\ ~e.q /\ e.size = 3
     \/ e.b21 \/ (~e.post /\ e.rm # 0)
  THEN Inst
  ELSE LET regs == MultiShape[e.opcode][1]
           width == IF e.q THEN 16 ELSE 8
           bytes == [Inst EXCEPT !.rd = e.rt, !.rn = xsp(e.rn), !.sz = e.size, !.sh = regs,
                                 !.ra = MultiShape[e.opcode][2], !.amt = width,
                                 !.fn = IF e.l THEN "opSIMDLoadMulti" ELSE "opSIMDStoreMulti"]
       IN CASE ~e.post -> bytes
            [] e.post /\ e.rm = 31 -> [bytes EXCEPT !.cond = modePost, !.imm = regs * width]
            [] OTHER -> [bytes EXCEPT !.cond = modeReg, !.rm = xr(e.rm)]

(* CLREX and DC ZVA among the system instructions.                           *)
decodeSystem(e) ==
  IF e.op = "clrex" THEN [Inst EXCEPT !.fn = "opClrex"]
                    ELSE [Inst EXCEPT !.fn = "opDcZva", !.rn = xr(e.rt)]

decodeLdSt(e, pc) ==
  CASE e.class = "exclusive" -> decodeExclusive(e)
    [] e.class = "literal" -> decodeLiteral(e, pc)
    [] e.class = "pair" -> decodePair(e)
    [] e.class = "atomic" -> Inst                \* decodeAtomic without FEAT_LSE
    [] e.class = "register" -> decodeRegForm(e)
    [] e.class = "unsigned" -> decodeUnsignedImm(e)
    [] e.class = "multi" -> decodeSIMDMulti(e)
    [] OTHER -> decodeSystem(e)

-----------------------------------------------------------------------------
(* Memory.  Every operator on the cpu passes a fault on untouched.           *)

PageOf(a) == a \div PageSize
Add(a, k) == Low(a + k, XLEN)
Inside(a, n) == a % PageSize <= PageSize - n

guestPage(kind, a) == PageOf(a) \in Pages /\ kind \in prot[PageOf(a)]

(* Mutant: an access that crosses a page end checks its first page only.      *)
AllowedFirstPage(kind, a, n) == guestPage(kind, a)

(* readSlow, writeSlow: both pages are checked before anything is touched.   *)
Allowed(kind, a, n) ==
  /\ guestPage(kind, a)
  /\ ~Inside(a, n) => guestPage(kind, Add(a - (a % PageSize), PageSize))

Fault(s) == [s EXCEPT !.fault = TRUE]

Check(s, kind, a) == IF s.fault \/ ~guestPage(kind, a) THEN Fault(s) ELSE s

checkWrite(s, a, n) ==
  LET end == Add(a, n - 1)
      t == Check(s, "W", a)
  IN IF PageOf(end) # PageOf(a) THEN Check(t, "W", end) ELSE t

(* n pieces of width bits each, the first the least significant.              *)
Gathered(pieces, n, width) ==
  LET sum[k \in 0 .. n] == IF k = 0 THEN 0 ELSE sum[k - 1] + pieces[k] * 2^(width * (k - 1))
  IN sum[n]

ReadN(s, a, n) == Gathered([k \in 1 .. n |-> s.mem[Add(a, k - 1)]], n, ByteBits)

storeN(mem, a, n, x) ==
  [c \in Cells |-> LET k == Low(c - a, XLEN)
                   IN IF k < n THEN Low(Lsr(x, ByteBits * k), ByteBits) ELSE mem[c]]

(* A read as a step of its own: it faults or leaves the cpu alone.           *)
Reads(s, a, n) == IF s.fault \/ ~Allowed("R", a, n) THEN Fault(s) ELSE s

WriteN(s, a, n, x) ==
  IF s.fault \/ ~Allowed("W", a, n) THEN Fault(s)
  ELSE [s EXCEPT !.mem = storeN(s.mem, a, n, x)]

SetR(s, x, val) == IF s.fault THEN s ELSE [s EXCEPT !.r[x] = val]
SetV(s, x, val) == IF s.fault THEN s ELSE [s EXCEPT !.v[x] = val]
Done(s) == IF s.fault THEN s ELSE [s EXCEPT !.pc = Add(s.pc, 4)]

-----------------------------------------------------------------------------
(* Handlers.                                                                 *)

addrFor(s, i) ==
  CASE i.cond = modePost -> s.r[i.rn]
    [] i.cond = modeReg -> Add(s.r[i.rn], extend(s.r[i.rm], i.ra) * 2^i.amt)
    [] OTHER -> Add(s.r[i.rn], i.imm)

writeback(s, i, a) ==
  CASE i.cond = modePre -> SetR(s, i.rn, a)
    [] i.cond = modePost -> SetR(s, i.rn, Add(a, i.imm))
    [] OTHER -> s

Extended(i, x) ==
  CASE i.sh = extSign -> sext(x, ByteBits * i.sz)
    [] i.sh = extSign32 -> Low(sext(x, ByteBits * i.sz), WLEN)
    [] OTHER -> x

ldInt(s, i, a) == SetR(Reads(s, a, i.sz), i.rd, Extended(i, ReadN(s, a, i.sz)))

(* opLoadOff, opLoadWb and opLoadReg; likewise below.                        *)
opLoad(s, i) == LET a == addrFor(s, i) IN Done(writeback(ldInt(s, i, a), i, a))

opStore(s, i) ==
  LET a == addrFor(s, i) IN Done(writeback(WriteN(s, a, i.sz, s.r[i.rd]), i, a))

(* The sixteen bytes of a Q register move in two halves.                     *)
vLoad(s, i, a) ==
  LET t == IF i.sz = 16 THEN Reads(Reads(Check(s, "R", a), a, 8), Add(a, 8), 8)
                        ELSE Reads(s, a, i.sz)
  IN SetV(t, i.rd, ReadN(s, a, i.sz))

vStore(s, i, a) ==
  IF i.sz = 16
  THEN WriteN(WriteN(checkWrite(s, a, 16), a, 8, Low(s.v[i.rd], XLEN)),
              Add(a, 8), 8, Lsr(s.v[i.rd], XLEN))
  ELSE WriteN(s, a, i.sz, Low(s.v[i.rd], XLEN))

opVLoad(s, i) == LET a == addrFor(s, i) IN Done(writeback(vLoad(s, i, a), i, a))
opVStore(s, i) == LET a == addrFor(s, i) IN Done(writeback(vStore(s, i, a), i, a))

opLoadPair(s, i) ==
  LET a == addrFor(s, i)
      t == Reads(Reads(Check(s, "R", a), a, i.sz), Add(a, i.sz), i.sz)
      u == SetR(SetR(t, i.rd, Extended(i, ReadN(s, a, i.sz))),
                i.ra, Extended(i, ReadN(s, Add(a, i.sz), i.sz)))
  IN Done(writeback(u, i, a))

(* Mutant: each register's store checks only its own bytes.                  *)
opStorePairUnchecked(s, i) ==
  LET a == addrFor(s, i)
      t == WriteN(WriteN(s, a, i.sz, s.r[i.rd]), Add(a, i.sz), i.sz, s.r[i.ra])
  IN Done(writeback(t, i, a))

opStorePair(s, i) ==
  LET a == addrFor(s, i)
      t == WriteN(WriteN(checkWrite(s, a, 2 * i.sz), a, i.sz, s.r[i.rd]),
                  Add(a, i.sz), i.sz, s.r[i.ra])
  IN Done(writeback(t, i, a))

(* The first register is assigned before the second is read.                 *)
opVLoadPair(s, i) ==
  LET a == addrFor(s, i)
      half == [i EXCEPT !.rd = i.ra]
  IN Done(writeback(vLoad(vLoad(s, i, a), half, Add(a, i.sz)), i, a))

opVStorePair(s, i) ==
  LET a == addrFor(s, i)
      half == [i EXCEPT !.rd = i.ra]
  IN Done(writeback(vStore(vStore(checkWrite(s, a, 2 * i.sz), i, a), half, Add(a, i.sz)), i, a))

(* The specialised handlers: a hit in the TLB answers at once, as long as    *)
(* the access stays in the page.                                             *)
HotLoad(s, i, a, hit) ==
  LET t == IF hit /\ Inside(a, i.sz) THEN s ELSE Reads(s, a, i.sz)
  IN Done(SetR(t, i.rd, ReadN(s, a, i.sz)))
HotStore(s, i, a, hit) ==
  Done(IF hit /\ Inside(a, i.sz) THEN [s EXCEPT !.mem = storeN(s.mem, a, i.sz, s.r[i.rd])]
                                  ELSE WriteN(s, a, i.sz, s.r[i.rd]))

Offset(s, i) == Add(s.r[i.rn], i.imm)
Indexed(s, i) == Add(s.r[i.rn], extend(s.r[i.rm], i.ra) * 2^i.amt)
opLdrOff(s, i, hit) == HotLoad(s, i, Offset(s, i), hit)
opLdrReg(s, i, hit) == HotLoad(s, i, Indexed(s, i), hit)
opStrOff(s, i, hit) == HotStore(s, i, Offset(s, i), hit)
opStrReg(s, i, hit) == HotStore(s, i, Indexed(s, i), hit)

(* Past the TLB, the first destination is written before the second word is  *)
(* read: it may fault, and it may be the base register.                      *)
opLdp64Off(s, i, hit) ==
  LET a == addrFor(s, i)
      b == Add(a, 8)
      first == IF hit /\ Inside(a, 16) THEN s ELSE Reads(Check(s, "R", a), a, 8)
      t == SetR(first, i.rd, ReadN(s, a, 8))
      second == IF hit /\ Inside(a, 16) THEN t ELSE Reads(t, b, 8)
  IN Done(SetR(second, i.ra, ReadN(s, b, 8)))

opStp64Off(s, i, hit) ==
  LET a == addrFor(s, i)
      both(m) == storeN(storeN(m, a, 8, s.r[i.rd]), Add(a, 8), 8, s.r[i.ra])
      t == checkWrite(s, a, 16)
  IN Done(IF hit /\ Inside(a, 16) THEN [s EXCEPT !.mem = both(s.mem)]
          ELSE WriteN(WriteN(t, a, 8, s.r[i.rd]), Add(a, 8), 8, s.r[i.ra]))

Monitor(s, a, n, x, y) ==
  IF s.fault THEN s
  ELSE [s EXCEPT !.excl = [valid |-> TRUE, addr |-> a, size |-> n, val |-> x, val2 |-> y]]

opLdxr(s, i) ==
  LET a == s.r[i.rn]
      x == ReadN(s, a, i.sz)
  IN Done(Monitor(SetR(Reads(s, a, i.sz), i.rd, x), a, i.sz, x, s.excl.val2))

opLdxp(s, i) ==
  LET a == s.r[i.rn]
      x == ReadN(s, a, i.sz)
      y == ReadN(s, Add(a, i.sz), i.sz)
      t == Reads(Reads(Check(s, "R", a), a, i.sz), Add(a, i.sz), i.sz)
  IN Done(Monitor(SetR(SetR(t, i.rd, x), i.rm, y), a, 2 * i.sz, x, y))

exclusiveOK(s, a, n) == s.excl.valid /\ s.excl.addr = a /\ s.excl.size = n
Cleared(s) == [s EXCEPT !.excl.valid = FALSE]

opStxr(s, i) ==
  LET a == s.r[i.rn]
      t == Cleared(s)
  IN Done(IF exclusiveOK(s, a, i.sz) THEN SetR(WriteN(t, a, i.sz, s.r[i.rd]), i.ra, 0)
                                     ELSE SetR(t, i.ra, 1))

opStxp(s, i) ==
  LET a == s.r[i.rn]
      t == checkWrite(Cleared(s), a, 2 * i.sz)
      u == WriteN(WriteN(t, a, i.sz, s.r[i.rd]), Add(a, i.sz), i.sz, s.r[i.rm])
  IN Done(IF exclusiveOK(s, a, 2 * i.sz) THEN SetR(u, i.ra, 0) ELSE SetR(Cleared(s), i.ra, 1))

opClrex(s, i) == Done(Cleared(s))

dczvaBytes == 64
opDcZva(s, i) ==
  LET a == s.r[i.rn] - (s.r[i.rn] % dczvaBytes)
      t == checkWrite(s, a, dczvaBytes)
      zeroed == [c \in Cells |-> IF Low(c - a, XLEN) < dczvaBytes THEN 0 ELSE s.mem[c]]
  IN Done(IF t.fault THEN t ELSE [t EXCEPT !.mem = zeroed])

simdMultiParams(i) == [esize |-> 2^i.sz, lanes |-> i.amt \div 2^i.sz, total |-> i.sh * i.amt]
VReg(i, k) == (i.rd + k) % 32

(* Where lane l of the k-th register lies, counted in elements.              *)
Element(i, k, l) ==
  IF i.ra = 1 THEN k * simdMultiParams(i).lanes + l ELSE l * i.sh + k

simdAdvance(s, i, a) ==
  CASE i.cond = modePost -> SetR(s, i.rn, Add(a, i.imm))
    [] i.cond = modeReg -> SetR(s, i.rn, Add(a, s.r[i.rm]))
    [] OTHER -> s

opSIMDLoadMulti(s, i) ==
  LET a == s.r[i.rn]
      p == simdMultiParams(i)
      at(k, l) == Add(a, Element(i, k, l) * p.esize)
      readable == \A k \in 0 .. i.sh - 1, l \in 0 .. p.lanes - 1 : Allowed("R", at(k, l), p.esize)
      out(k) == Gathered([l \in 1 .. p.lanes |-> ReadN(s, at(k, l - 1), p.esize)],
                         p.lanes, ByteBits * p.esize)
      moved == {VReg(i, k) : k \in 0 .. i.sh - 1}
      t == [s EXCEPT !.v = [x \in VRegs |-> IF x \in moved THEN out((x - i.rd) % 32)
                                                           ELSE @[x]]]
  IN IF ~readable THEN Fault(s) ELSE Done(simdAdvance(t, i, a))

opSIMDStoreMulti(s, i) ==
  LET a == s.r[i.rn]
      p == simdMultiParams(i)
      lane(k, l) == Low(Lsr(s.v[VReg(i, k)], ByteBits * p.esize * l), ByteBits * p.esize)
      \* the element that covers the j-th byte, and the lane it comes from
      byte(j) == LET n == j \div p.esize
                     k == IF i.ra = 1 THEN n \div p.lanes ELSE n % i.sh
                     l == IF i.ra = 1 THEN n % p.lanes ELSE n \div i.sh
                 IN Low(Lsr(lane(k, l), ByteBits * (j % p.esize)), ByteBits)
      t == checkWrite(s, a, p.total)
      stored == [c \in Cells |-> LET j == Low(c - a, XLEN)
                                 IN IF j < p.total THEN byte(j) ELSE s.mem[c]]
  IN Done(simdAdvance(IF t.fault THEN t ELSE [t EXCEPT !.mem = stored], i, a))

Exec(s, i, hit) ==
  CASE i.fn = "opLdrOff" -> opLdrOff(s, i, hit) [] i.fn = "opStrOff" -> opStrOff(s, i, hit)
    [] i.fn = "opLdrReg" -> opLdrReg(s, i, hit) [] i.fn = "opStrReg" -> opStrReg(s, i, hit)
    [] i.fn = "opLdp64Off" -> opLdp64Off(s, i, hit) [] i.fn = "opStp64Off" -> opStp64Off(s, i, hit)
    [] i.fn = "opLoad" -> opLoad(s, i) [] i.fn = "opStore" -> opStore(s, i)
    [] i.fn = "opVLoad" -> opVLoad(s, i) [] i.fn = "opVStore" -> opVStore(s, i)
    [] i.fn = "opLoadPair" -> opLoadPair(s, i) [] i.fn = "opStorePair" -> opStorePair(s, i)
    [] i.fn = "opVLoadPair" -> opVLoadPair(s, i) [] i.fn = "opVStorePair" -> opVStorePair(s, i)
    [] i.fn = "opLdxr" -> opLdxr(s, i) [] i.fn = "opStxr" -> opStxr(s, i)
    [] i.fn = "opLdxp" -> opLdxp(s, i) [] i.fn = "opStxp" -> opStxp(s, i)
    [] i.fn = "opClrex" -> opClrex(s, i) [] i.fn = "opDcZva" -> opDcZva(s, i)
    [] i.fn = "opSIMDLoadMulti" -> opSIMDLoadMulti(s, i)
    [] i.fn = "opSIMDStoreMulti" -> opSIMDStoreMulti(s, i)
    [] i.fn = "opNop" -> Done(s)
    [] OTHER -> Fault(s)                         \* opUndef: an error ends the run

-----------------------------------------------------------------------------
(* What an encoding can be: the decoder takes each field out of its bits, and *)
(* the registers it names are in use.                                         *)
Encoding(e) ==
  LET int(k) == {xr(k), xw(k)} \subseteq XRegs
      data(k) == IF e.vec THEN k \in VRegs ELSE int(k)
      base == xsp(e.rn) \in XRegs
  IN CASE e.class = "register" ->
            /\ e.size \in 0 .. 3 /\ e.opc \in 0 .. 3 /\ e.vec \in BOOLEAN /\ base /\ data(e.rt)
            /\ e.regOffset \in BOOLEAN /\ e.idx \in 0 .. 3
            /\ e.regOffset => e.option \in 0 .. 7 /\ e.s \in BOOLEAN /\ int(e.rm)
            /\ ~e.regOffset => e.imm \in Int
       [] e.class = "unsigned" ->
            /\ e.size \in 0 .. 3 /\ e.opc \in 0 .. 3 /\ e.vec \in BOOLEAN /\ base /\ data(e.rt)
            /\ e.imm \in Nat
       [] e.class = "literal" ->
            e.opc \in 0 .. 3 /\ e.vec \in BOOLEAN /\ e.imm \in Int /\ data(e.rt)
       [] e.class = "pair" ->
            /\ e.opc \in 0 .. 3 /\ {e.vec, e.l} \subseteq BOOLEAN /\ e.idx \in 0 .. 3
            /\ e.imm \in Int /\ base /\ data(e.rt) /\ data(e.rt2)
       [] e.class = "exclusive" ->
            /\ e.size \in 0 .. 3 /\ {e.o2, e.l, e.o1, e.o0} \subseteq BOOLEAN
            /\ base /\ int(e.rt) /\ int(e.rt2) /\ int(e.rs)
       [] e.class = "multi" ->
            /\ e.size \in 0 .. 3 /\ {e.q, e.l, e.post, e.b21} \subseteq BOOLEAN /\ e.opcode \in 0 .. 15
            /\ base /\ int(e.rm) /\ e.rt \in 0 .. 31 /\ \A k \in 0 .. 3 : (e.rt + k) % 32 \in VRegs
       [] e.class = "system" -> e.op \in {"clrex", "zva"} /\ int(e.rt)
       [] OTHER -> e.class = "atomic"

ASSUME ProgramsAssumption ==
  /\ XRegs \subseteq Nat /\ rZR \in XRegs /\ VRegs \subseteq 0 .. 31
  /\ \A p \in DOMAIN Programs : \A e \in Programs[p].insts : Encoding(e)
  /\ Bases \subseteq Word(XLEN) /\ Background \in [Cells -> Word(ByteBits)]

(* Pages divide the address space, and the widest access fits in one.         *)
ASSUME PagesAssumption ==
  /\ PageSize \in Nat /\ NumPages \in Nat
  /\ PageSize >= dczvaBytes
  /\ 2^XLEN % PageSize = 0
  /\ NumPages * PageSize <= 2^XLEN

(* Powers of two up to a vector register's are what they are.                 *)
ASSUME WordsAssumption ==
  /\ ByteBits \in Nat \ {0}
  /\ \A m \in 0 .. 2 * XLEN : 2^m \in Nat \ {0}
  /\ \A m \in 0 .. 2 * XLEN : \A n \in 0 .. 2 * XLEN - m : 2^(m + n) = 2^m * 2^n

-----------------------------------------------------------------------------
(* The machine.                                                              *)

FirstState(b) ==
  [r |-> [x \in XRegs |-> CASE x = 0 -> b [] x \in {rZR, rSink} -> 0
                            [] OTHER -> (37 * x + 11) % 2^XLEN],
   v |-> [x \in VRegs |-> (4099 * x + 9029) % 2^(2 * XLEN)],
   pc |-> 0, excl |-> NoMonitor, mem |-> Background, fault |-> FALSE]

Init ==
  /\ \E b \in Bases : cpu = FirstState(b)
  /\ prot \in Prots
  /\ prog \in DOMAIN Programs
  /\ last = Nothing

HotLoads == {"opLdrOff", "opLdrReg", "opLdp64Off"}
HotStores == {"opStrOff", "opStrReg", "opStp64Off"}

(* One instruction.  The TLB may know the page it starts on.                 *)
Step ==
  /\ ~cpu.fault /\ cpu.pc < Programs[prog].limit
  /\ \E e \in Programs[prog].insts, hit \in BOOLEAN :
       LET i == decodeLdSt(e, cpu.pc)
           kind == IF i.fn \in HotLoads THEN "R" ELSE "W"
       IN /\ hit => i.fn \in HotLoads \cup HotStores /\ guestPage(kind, addrFor(cpu, i))
          /\ cpu' = Exec(cpu, i, hit)
          /\ last' = [e |-> e, hit |-> hit]
  /\ UNCHANGED <<prot, prog>>

(* The run ended with an error; the host maps what was missing and resumes   *)
(* at the same instruction.                                                  *)
Mend ==
  /\ cpu.fault /\ \E p \in Pages : prot[p] # {"R", "W"}
  /\ cpu' = [cpu EXCEPT !.fault = FALSE]
  /\ prot' = [p \in Pages |-> {"R", "W"}]
  /\ last' = Nothing
  /\ UNCHANGED prog

Next == Step \/ Mend
Spec == Init /\ [][Next]_vars
=============================================================================
