---------------------------- MODULE AccessMeaning ----------------------------
(***************************************************************************)
(* What the loads, stores and exclusives of LoadStore mean in the           *)
(* architecture, byte by byte: which registers an encoding moves, which     *)
(* byte of memory each byte of them is, what happens to the base register   *)
(* and to the monitor, and when the access is not allowed.                  *)
(***************************************************************************)
EXTENDS LoadStore

Base(s, k) == IF k = 31 THEN s.r[rSP] ELSE s.r[k]
Prefetch(e) == \/ e.class \in {"register", "unsigned"} /\ ~e.vec /\ e.size = 3 /\ e.opc = 2
               \/ e.class = "literal" /\ ~e.vec /\ e.opc = 3

Allocated(e) ==
  CASE e.class \in {"register", "unsigned"} ->
         /\ e.opc >= 2 => IF e.vec THEN e.size = 0 ELSE e.size + e.opc <= 5 /\ (e.size = 2 => e.opc = 2)
         /\ e.class = "register" =>
              IF e.regOffset THEN e.idx = 2 /\ e.option \in {2, 3, 6, 7}
              ELSE /\ e.idx = 2 => ~e.vec
                   /\ Prefetch(e) => e.idx = 0
    [] e.class = "literal" -> e.vec => e.opc < 3
    [] e.class = "pair" -> e.opc < 3 /\ (~e.vec /\ e.opc = 1 => e.l /\ e.idx # 0)
    [] e.class = "multi" -> /\ e.opcode \in {0, 2, 4, 6, 7, 8, 10} /\ ~e.b21
                            /\ ~e.post => e.rm = 0
                            /\ e.opcode \in {0, 4, 8} => e.q \/ e.size < 3
    [] e.class = "exclusive" -> CASE e.o2 -> ~e.o1 /\ e.o0 /\ e.rs = 31 /\ e.rt2 = 31
                                  [] ~e.o2 /\ e.o1 -> e.size >= 2 /\ (e.l => e.rs = 31)
                                  [] OTHER -> e.rt2 = 31 /\ (e.l => e.rs = 31)
    [] OTHER -> e.class # "atomic"

(* Bytes of each register moved.                                             *)
AccessSize(e) ==
  CASE e.class \in {"register", "unsigned"} -> IF e.vec /\ e.opc >= 2 THEN 16 ELSE 2^e.size
    [] e.class = "exclusive" -> 2^e.size
    [] e.class = "multi" -> IF e.q THEN 16 ELSE 8
    [] e.class = "literal" -> IF e.vec THEN 4 * 2^e.opc ELSE IF e.opc = 1 THEN 8 ELSE 4
    [] OTHER -> IF e.vec THEN 4 * 2^e.opc ELSE IF e.opc = 2 THEN 8 ELSE 4

InVectors(e) == e.class = "multi" \/ (e.class # "exclusive" /\ e.vec)
Loads(e) ==
  CASE e.class \in {"register", "unsigned"} -> e.opc % 2 = 1 \/ (~e.vec /\ e.opc = 2)
    [] e.class = "literal" -> TRUE
    [] OTHER -> e.l

RegCount(e) == CASE e.opcode \in {0, 2} -> 4 [] e.opcode \in {4, 6} -> 3
                 [] e.opcode = 7 -> 1 [] OTHER -> 2
Moved(e) ==
  CASE e.class = "multi" -> [k \in 1 .. RegCount(e) |-> (e.rt + k - 1) % 32]
    [] e.class = "pair" -> <<e.rt, e.rt2>>
    [] e.class = "exclusive" /\ ~e.o2 /\ e.o1 -> <<e.rt, e.rt2>>
    [] OTHER -> <<e.rt>>
Total(e) == AccessSize(e) * Len(Moved(e))

(* The register, and the byte of it, that is the j-th byte in memory.         *)
Place(e, j) ==
  LET n == AccessSize(e)
      element == j \div 2^e.size
      at == element \div Len(Moved(e))
  IN IF e.class = "multi" /\ e.opcode \in {0, 4, 8}
     THEN <<(element % Len(Moved(e))) + 1, at * 2^e.size + (j % 2^e.size)>>
     ELSE <<(j \div n) + 1, j % n>>

PostIndexed(e) ==
  \/ e.class = "multi" /\ e.post
  \/ e.class \in {"register", "pair"} /\ e.idx = 1
Address(e, s) ==
  CASE e.class = "literal" -> Add(s.pc, 4 * e.imm)
    [] e.class = "unsigned" -> Add(Base(s, e.rn), e.imm * AccessSize(e))
    [] e.class = "pair" /\ ~PostIndexed(e) -> Add(Base(s, e.rn), e.imm * AccessSize(e))
    [] e.class = "register" /\ e.regOffset ->
         Add(Base(s, e.rn), (IF e.s THEN AccessSize(e) ELSE 1) * extend(s.r[e.rm], e.option))
    [] e.class = "register" /\ ~e.regOffset /\ ~PostIndexed(e) -> Add(Base(s, e.rn), e.imm)
    [] OTHER -> Base(s, e.rn)

(* The base register, written back or not; a load into it loses to the base.   *)
WritesBack(e) == \/ e.class = "multi" /\ e.post
                 \/ e.class \in {"register", "pair"} /\ e.idx \in {1, 3}
NewBase(e, s) ==
  CASE e.class = "multi" -> Add(Base(s, e.rn), IF e.rm = 31 THEN Total(e) ELSE s.r[e.rm])
    [] e.class = "register" -> Add(Base(s, e.rn), e.imm)
    [] OTHER -> Add(Base(s, e.rn), e.imm * AccessSize(e))

(* Sign extension of an integer load: its width, or XLEN for none.            *)
Extend(e, x) ==
  LET n == ByteBits * AccessSize(e)
  IN CASE e.class \in {"register", "unsigned"} /\ e.opc = 2 -> Low(Signed(x, n), XLEN)
       [] e.class \in {"register", "unsigned"} /\ e.opc = 3 -> Low(Signed(x, n), WLEN)
       [] e.class = "literal" /\ e.opc = 2 -> Low(Signed(x, n), XLEN)
       [] e.class = "pair" /\ e.opc = 1 -> Low(Signed(x, n), XLEN)
       [] OTHER -> x

StoresExclusive(e) == e.class = "exclusive" /\ ~e.o2 /\ ~e.l
LoadsExclusive(e) == e.class = "exclusive" /\ ~e.o2 /\ e.l
Succeeds(e, s) ==
  StoresExclusive(e) => s.excl.valid /\ s.excl.addr = Address(e, s) /\ s.excl.size = Total(e)

(* Some byte of the access lies where it is not allowed.                     *)
Blocked(e, s) ==
  LET kind == IF Loads(e) THEN "R" ELSE "W"
  IN ~Prefetch(e) /\ Succeeds(e, s)
     /\ \E j \in 0 .. Total(e) - 1 : ~guestPage(kind, Add(Address(e, s), j))

ByteOf(x, k) == Low(Lsr(x, ByteBits * k), ByteBits)

(* y is what the k-th register holds after a load: its bytes are those of     *)
(* memory, the bits above them as the encoding extends them.                  *)
Holds(e, s, k, y) ==
  LET x == Low(y, ByteBits * AccessSize(e))
  IN /\ y = IF InVectors(e) THEN x ELSE Extend(e, x)
     /\ \A j \in 0 .. Total(e) - 1 :
          Place(e, j)[1] = k => ByteOf(y, Place(e, j)[2]) = s.mem[Add(Address(e, s), j)]

Stored(e, s, j) ==
  LET reg == Moved(e)[Place(e, j)[1]]
  IN ByteOf(IF InVectors(e) THEN s.v[reg] ELSE s.r[reg], Place(e, j)[2])

(* What a register and a byte of memory are to be.  Of a pair load into one    *)
(* register either half may be left.                                          *)
Into(e, x) == {k \in DOMAIN Moved(e) : Loads(e) /\ Moved(e)[k] = x}

GeneralRight(e, s, x, y) ==
  IF WritesBack(e) /\ x = xsp(e.rn) THEN y = NewBase(e, s)
  ELSE IF StoresExclusive(e) /\ x = e.rs /\ x # rZR THEN y = IF Succeeds(e, s) THEN 0 ELSE 1
  ELSE IF ~InVectors(e) /\ Into(e, x) # {} /\ x # rZR THEN \E k \in Into(e, x) : Holds(e, s, k, y)
  ELSE y = s.r[x]

VectorRight(e, s, x, y) ==
  IF InVectors(e) /\ Into(e, x) # {} THEN \E k \in Into(e, x) : Holds(e, s, k, y) ELSE y = s.v[x]

ByteRight(e, s, c, y) ==
  LET j == Low(c - Address(e, s), XLEN)
  IN y = IF ~Loads(e) /\ Succeeds(e, s) /\ j < Total(e) THEN Stored(e, s, j) ELSE s.mem[c]

SameMonitor(e, s, t) ==
  CASE LoadsExclusive(e) -> t.excl.valid /\ t.excl.addr = Address(e, s) /\ t.excl.size = Total(e)
    [] StoresExclusive(e) -> ~t.excl.valid
    [] OTHER -> t.excl = s.excl

(* t is s after e; the slot that discards results is nobody's.                *)
Accessed(e, s, t) ==
  IF Prefetch(e) THEN t = [s EXCEPT !.pc = Add(s.pc, 4)]
  ELSE /\ \A x \in XRegs \ {rSink} : GeneralRight(e, s, x, t.r[x])
       /\ \A x \in VRegs : VectorRight(e, s, x, t.v[x])
       /\ \A c \in Cells : ByteRight(e, s, c, t.mem[c])
       /\ t.pc = Add(s.pc, 4) /\ SameMonitor(e, s, t)

ZeroedBlock(e, s) == s.r[e.rt] - (s.r[e.rt] % dczvaBytes)
SystemRight(e, s, t) ==
  LET block == {Add(ZeroedBlock(e, s), j) : j \in 0 .. dczvaBytes - 1}
  IN IF e.op = "clrex" THEN t = [s EXCEPT !.excl.valid = FALSE, !.pc = Add(s.pc, 4)]
     ELSE IF \E a \in block : ~guestPage("W", a) THEN t.fault
     ELSE t = [s EXCEPT !.mem = [c \in Cells |-> IF c \in block THEN 0 ELSE s.mem[c]],
                        !.pc = Add(s.pc, 4)]

AccessRight(e, s, t) ==
  IF e.class = "system" THEN SystemRight(e, s, t)
  ELSE IF ~Allocated(e) \/ Blocked(e, s) THEN t.fault
  ELSE ~t.fault /\ Accessed(e, s, t)

(* Whatever handler the decoder picked -- specialised or generic, with its     *)
(* page in the TLB or not, the access inside a page or across two -- a load,    *)
(* store or exclusive (ldst.go) faults exactly if one of its bytes is not      *)
(* accessible, and otherwise moves the bytes, extends, writes the base back    *)
(* and sets the monitor as the architecture says.                              *)
AccessesRight == [][~cpu.fault => AccessRight(last'.e, cpu, cpu')]_vars

(* A faulting instruction can be resumed: it leaves PC, memory, base and       *)
(* every other register as they were ("writeback is applied after the access   *)
(* so a fault leaves the base register untouched", ldst.go).  What the code     *)
(* does not keep is stated: a pair load that crosses into an unreadable page    *)
(* has written its first register, unless it buffers both, and a                *)
(* store-exclusive has given up the monitor.                                    *)
FaultKeepsState ==
  [][cpu'.fault =>
       LET i == decodeLdSt(last'.e, cpu.pc)
           half(fn) == i.fn = fn /\ PageOf(addrFor(cpu, i)) # PageOf(Add(addrFor(cpu, i), 2 * i.sz - 1))
       IN /\ cpu'.pc = cpu.pc /\ cpu'.mem = cpu.mem
          /\ \A x \in XRegs : cpu'.r[x] = cpu.r[x] \/ (half("opLdp64Off") /\ x = i.rd)
          /\ \A x \in VRegs : cpu'.v[x] = cpu.v[x] \/ (half("opVLoadPair") /\ x = i.rd)
          /\ cpu'.excl = cpu.excl \/ i.fn \in {"opStxr", "opStxp"}]_vars
=============================================================================
