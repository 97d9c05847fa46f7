----------------------------- MODULE MCGuestCode ------------------------------
(***************************************************************************)
(* Instances, for TLC, of the modules for guest code: how images are         *)
(* relocated and linked, and how instructions are decoded and executed.      *)
(* The load-store machine and the linker run; everything else is one job per *)
(* behaviour.                                                               *)
(***************************************************************************)
EXTENDS AccessMeaning, LinkerMeaning

CONSTANT LastBase   \* no image is loaded from here on

DP == INSTANCE Meaning
RM == INSTANCE RelocationMeaning
V2 == INSTANCE VectorMeaning WITH ByteBits <- 2   \* every lane size
V8 == INSTANCE VectorMeaning WITH ByteBits <- 8   \* byte lanes as they are

\* Floating point, which has no use for ByteBits: but for the cases the interpreter
\* is known to get wrong, and with nothing but the fused multiply-add counted in.
Wrong == {"fused", "integer", "invalid", "second", "rint", "sign", "across"}
FM == INSTANCE FloatMeaning WITH ByteBits <- 1, Aside <- Wrong
FX == INSTANCE FloatMeaning WITH ByteBits <- 1, Aside <- Wrong \ {"fused"}

VARIABLE job   \* what is compared with its meaning, or the machine

CLASS(c, rs) == {[class |-> c] @@ r : r \in rs}

\* Base X0 (or SP), data X1; X2 and XZR as the other register.
Register ==
  CLASS("register",
    [regOffset : {FALSE}, size : 0 .. 3, opc : 0 .. 3, vec : BOOLEAN, idx : 0 .. 3,
     imm : {-3}, rn : {0}, rt : {1}]
    \cup [regOffset : {TRUE}, size : 0 .. 3, opc : 0 .. 3, vec : {FALSE}, idx : {2},
          option : {2, 6, 7}, s : BOOLEAN, rm : {2}, rn : {0}, rt : {1}]
    \cup [regOffset : {TRUE}, size : {0, 3}, opc : 0 .. 3, vec : {TRUE}, idx : {2},
          option : {1, 7}, s : BOOLEAN, rm : {2}, rn : {0}, rt : {1}]
    \cup [regOffset : {FALSE}, size : {3}, opc : 0 .. 1, vec : {FALSE}, idx : 0 .. 3,
          imm : {4}, rn : {0, 31}, rt : {0, 31}])
Unsigned == CLASS("unsigned", [size : 0 .. 3, opc : 0 .. 3, vec : BOOLEAN, imm : {1},
                               rn : {0}, rt : {1}])
            \cup CLASS("unsigned", [size : 2 .. 3, opc : 0 .. 1, vec : {FALSE}, imm : {0},
                                    rn : {0, 31}, rt : {0, 31}])
Literal == CLASS("literal", [opc : 0 .. 3, vec : BOOLEAN, imm : {14, 30}, rt : {1}])
Pair == CLASS("pair", [opc : 0 .. 3, vec : BOOLEAN, l : BOOLEAN, idx : 0 .. 3, imm : {-1},
                       rn : {0}, rt : {1}, rt2 : {30}])
        \cup CLASS("pair", [opc : 2 .. 2, vec : {FALSE}, l : BOOLEAN, idx : 0 .. 3, imm : {0},
                            rn : {0, 31}, rt : {0, 1}, rt2 : {2, 31}])
Multi == CLASS("multi", [q : BOOLEAN, l : BOOLEAN, post : BOOLEAN, rm : {0, 2, 31}, b21 : {FALSE},
                         opcode : {0, 1, 2, 4, 6, 7, 8, 10}, size : {0, 3}, rn : {0}, rt : {30}])
Exclusive == CLASS("exclusive", [size : {0, 2, 3}, o2 : BOOLEAN, l : BOOLEAN, o1 : BOOLEAN,
                                 o0 : {TRUE}, rs : {2, 31}, rt2 : {30, 31}, rn : {0}, rt : {1}])
Sys == CLASS("system", [op : {"clrex", "zva"}, rt : {0}])

Locking == CLASS("exclusive", [size : 2 .. 3, o2 : {FALSE}, l : BOOLEAN, o1 : BOOLEAN, o0 : {TRUE},
                               rs : {2, 31}, rt2 : {30, 31}, rn : {0}, rt : {1}])
           \cup CLASS("unsigned", [size : {3}, opc : {0}, vec : {FALSE}, imm : {0, 1},
                                   rn : {0}, rt : {2}])
           \cup CLASS("system", [op : {"clrex"}, rt : {0}])

MCPrograms ==
  ("one" :> [insts |-> Register \cup Unsigned \cup Literal \cup Pair \cup Multi \cup Exclusive \cup Sys,
             limit |-> 4])
  @@ ("lock" :> [insts |-> Locking, limit |-> 12])

RW == {"R", "W"}
MCProts == {<<a, b>> : a \in {RW, {"R"}}, b \in {RW, {"R"}, {}}}
MCPageProts == {[p \in 0 .. 1 |-> t[p + 1]] : t \in MCProts}
MCBackground == [c \in 0 .. 127 |-> ((c * c + 3 * c) \div 4) % 2]

-----------------------------------------------------------------------------
(* Data processing: one encoding per job.                                    *)

Plain == [class |-> "machine", sf |-> TRUE, op |-> 0, opc |-> 0, sub |-> FALSE, s |-> FALSE,
          invert |-> FALSE, sh |-> 0, amt |-> 0, cond |-> 0, nzcv |-> 0, imm |-> 0, hw |-> 0,
          nbit |-> 0, immr |-> 0, imms |-> 0, rd |-> 3, rn |-> 0, rm |-> 1, ra |-> 2]
With(c, rs) == {[k \in DOMAIN Plain |-> IF k = "class" THEN c ELSE IF k \in DOMAIN x THEN x[k] ELSE Plain[k]]
                  : x \in rs}
AnyReg == {0, 31}

Jobs ==
  With("logical", [sf : BOOLEAN, opc : 0 .. 3, invert : BOOLEAN, sh : 0 .. 3, amt : {0, 1, 3, 7}, rn : {0}])
  \cup With("logical", [sf : BOOLEAN, opc : {1}, amt : {0}, rn : {31}, rd : AnyReg])
  \cup With("addsub", [sf : BOOLEAN, sub : BOOLEAN, s : BOOLEAN, sh : 0 .. 3, amt : {0, 1, 3, 5}])
  \cup With("addsub", [s : BOOLEAN, rn : AnyReg, rd : AnyReg])
  \cup With("addext", [sf : BOOLEAN, sub : BOOLEAN, s : BOOLEAN, sh : 0 .. 7, amt : {0, 2, 5}])
  \cup With("addext", [sub : BOOLEAN, s : BOOLEAN, sh : {3}, rn : AnyReg, rm : AnyReg, rd : AnyReg])
  \cup With("adc", [sf : BOOLEAN, sub : BOOLEAN, s : BOOLEAN])
  \cup With("ccmp", [sf : BOOLEAN, sub : BOOLEAN, invert : BOOLEAN, cond : 0 .. 15, nzcv : {5}, s : {TRUE}])
  \cup With("csel", [sf : BOOLEAN, opc : 0 .. 3, cond : {0, 3, 8, 11, 12, 14, 15}])
  \cup With("dp1", [sf : BOOLEAN, op : 0 .. 6]) \cup With("dp2", [sf : BOOLEAN, op : 0 .. 12])
  \cup With("dp3", [sf : BOOLEAN, op : 0 .. 13])
  \cup With("adr", [invert : BOOLEAN, imm : {0 - 3, 0, 2}])
  \cup With("addimm", [sf : BOOLEAN, sub : BOOLEAN, s : BOOLEAN, invert : BOOLEAN, imm : {3}, rn : AnyReg, rd : AnyReg])
  \cup With("logimm", [sf : BOOLEAN, opc : 0 .. 3, nbit : 0 .. 1, immr : 0 .. 7, imms : 0 .. 7, rd : {3}])
  \cup With("logimm", [opc : 0 .. 3, nbit : {1}, rd : {31}])
  \cup With("movewide", [sf : BOOLEAN, opc : 0 .. 3, hw : 0 .. 3, imm : {1, 2}])
  \cup With("bitfield", [sf : BOOLEAN, opc : 0 .. 3, nbit : 0 .. 1, immr : 0 .. 7, imms : 0 .. 7])
  \cup With("extract", [sf : BOOLEAN, nbit : 0 .. 1, imms : 0 .. 7])
  \cup With("b", [s : BOOLEAN, imm : {0 - 2, 5}])
  \cup With("cb", [sf : BOOLEAN, s : BOOLEAN, imm : {4}, rd : {0, 31}])
  \cup With("tb", [s : BOOLEAN, amt : {0, 7}, imm : {4}, rd : {0}])
  \cup With("bcond", [cond : 0 .. 15, imm : {4}])
  \cup With("br", [opc : 0 .. 2, rn : {0, 30}])

Operands == {0, 1, 2, 5, 7, 8, 9, 15, 16, 90, 127, 128, 163, 240, 247, 255}

-----------------------------------------------------------------------------
(* Vectors: one encoding per job, run on several register files.              *)

PlainVector == [class |-> "same", bits |-> 2, scalar |-> FALSE, u |-> 0, q |-> 1, size |-> 0, opcode |-> 0,
                imm4 |-> 0, imm5 |-> 0, cmode |-> 0, o2 |-> 0, imm8 |-> 0, pos |-> 0, len |-> 0,
                h |-> 0, l |-> 0, m |-> 0, rmlo |-> 1, rd |-> 2, rn |-> 0, rm |-> 1]
Vec(c, b, rs) == {[k \in DOMAIN PlainVector |-> IF k = "class" THEN c ELSE IF k = "bits" THEN b
                                              ELSE IF k \in DOMAIN x THEN x[k] ELSE PlainVector[k]] : x \in rs}
\* Both lengths, and the scalar form, whose encoding has Q set.
Shaped(rs) == {[q |-> 0] @@ x : x \in rs} \cup {[q |-> 1] @@ x : x \in rs}
              \cup {[q |-> 1, scalar |-> TRUE] @@ x : x \in rs}

Vectors == {"same", "diff", "misc", "across", "copy", "modimm", "fmov", "shift", "ext", "permute", "table", "indexed", "pair"}

VectorJobs ==
  Vec("same", 2, Shaped([u : 0 .. 1, size : 0 .. 3, opcode : 0 .. 23]))
  \cup Vec("same", 2, [u : 0 .. 1, opcode : {3, 15, 20}, rd : {0, 1}, q : {1}])
  \cup Vec("diff", 2, [u : 0 .. 1, size : 0 .. 3, opcode : 0 .. 15, q : 0 .. 1])
  \cup Vec("misc", 2, Shaped([u : 0 .. 1, size : 0 .. 3, opcode : (0 .. 11) \cup (18 .. 20)]))
  \cup Vec("across", 2, [u : 0 .. 1, size : 0 .. 3, opcode : {3, 10, 11, 26, 27}, q : 0 .. 1])
  \cup Vec("copy", 2, Shaped([u : 0 .. 1, imm5 : {0, 1, 2, 4, 8, 16, 15, 22, 28, 24, 31}, imm4 : {0, 1, 2, 3, 5, 7, 10}]))
  \cup Vec("copy", 2, [imm5 : {2, 8}, imm4 : {1, 3, 5, 7}, q : 0 .. 1, rn : {31}, rd : {31}])
  \cup Vec("modimm", 2, [u : 0 .. 1, cmode : 0 .. 14, imm8 : 1 .. 2, q : 0 .. 1])
  \cup Vec("shift", 2, Shaped([u : 0 .. 1, opcode : {0, 2, 4, 8, 10, 16, 17, 18, 20},
                               pos : {0, 1, 2, 3, 4, 5, 7, 8, 11, 15, 16, 17, 23, 30, 31}]))
  \cup Vec("ext", 2, [imm4 : 0 .. 15, q : 0 .. 1, size : 0 .. 1])
  \cup Vec("permute", 2, [opcode : 0 .. 7, size : 0 .. 3, q : 0 .. 1])
  \cup Vec("indexed", 2, Shaped([u : 0 .. 1, opcode : {0, 4, 8, 10}, size : 1 .. 2, h : 0 .. 1, l : 0 .. 1, m : 0 .. 1]))
  \cup Vec("pair", 2, [u : 0 .. 1, opcode : {27}, size : 0 .. 3])
  \cup Vec("same", 8, Shaped([u : 0 .. 1, opcode : 0 .. 23]))
  \cup Vec("diff", 8, [u : 0 .. 1, opcode : 0 .. 15, q : 0 .. 1])
  \cup Vec("misc", 8, Shaped([u : 0 .. 1, opcode : (0 .. 11) \cup (18 .. 20)]))
  \cup Vec("modimm", 8, [u : 0 .. 1, cmode : 14 .. 15, imm8 : {0, 64, 112, 128, 165, 255}, q : 0 .. 1, o2 : 0 .. 1])
  \cup Vec("fmov", 8, [u : 0 .. 1, m : 0 .. 1, size : 0 .. 3, imm5 : {0, 1}, imm8 : {0, 64, 112, 128, 165, 255}])
  \cup Vec("shift", 8, Shaped([u : 0 .. 1, opcode : {0, 2, 8, 10, 16, 17, 20}, pos : {7, 8, 9, 12, 15}]))
  \cup Vec("table", 8, [u : 0 .. 1, len : 0 .. 3, q : 0 .. 1, size : 0 .. 1, rn : {0, 31}])

\* Doublewords of bytes of two bits: 0, -1, the largest, the least, 1, and mixtures.
Double == <<<<0, 0, 0, 0, 0, 0, 0, 0>>, <<3, 3, 3, 3, 3, 3, 3, 3>>, <<3, 3, 3, 1, 3, 3, 3, 1>>,
            <<0, 0, 0, 2, 0, 0, 0, 2>>, <<1, 0, 0, 0, 1, 0, 0, 0>>, <<2, 1, 3, 0, 1, 3, 2, 1>>,
            <<1, 2, 0, 2, 3, 0, 1, 3>>, <<3, 1, 1, 2, 0, 2, 2, 0>>>>
Register2(a, b) == [k \in 0 .. 15 |-> IF k < 8 THEN Double[a][k + 1] ELSE Double[b][k - 7]]
States2 ==
  {[pc |-> 4, r |-> [k \in {0, 1, 2, 31, 33} |-> IF k = 31 THEN 0 ELSE 40961 - 1000 * k],
    v |-> [k \in {0, 1, 2, 17, 31} |-> CASE k = 0 -> Register2(x[1], x[3]) [] k = 1 -> Register2(x[2], x[4])
                                       [] k = 17 -> Register2(x[4], x[1]) [] OTHER -> Register2(6, 8)]]
     : x \in {<<3, 5, 3, 3>>, <<4, 2, 4, 4>>, <<4, 5, 2, 2>>, <<1, 4, 6, 7>>, <<7, 6, 8, 8>>, <<5, 1, 2, 3>>,
              <<3, 4, 4, 3>>, <<6, 1, 8, 7>>}}

Octets == <<0, 1, 127, 128, 129, 255, 7, 8, 9, 200, 248, 247, 249, 16, 85, 63>>
States8 ==
  {[pc |-> 4, r |-> [k \in {33} |-> 0],
    v |-> [k \in {0, 1, 2, 3, 31} |-> [j \in 0 .. 15 |-> Octets[((x * j * (k + 1) + j + k * x) % 16) + 1]]]]
     : x \in {0, 2, 3, 5, 6, 8}}

-----------------------------------------------------------------------------
(* Floating point: one encoding per job, run on operands of its formats.      *)

PlainFloat == [class |-> "fp1", m |-> 0, s |-> 0, ft |-> 0, opcode |-> 0, opcode2 |-> 0, op |-> 0, cond |-> 0, nzcv |-> 0,
               rmode |-> 0, scale |-> 0, o1 |-> 0, o0 |-> 0, scalar |-> FALSE, u |-> 0, q |-> 1, size |-> 0,
               h |-> 0, l |-> 0, hi |-> 0, rmlo |-> 1, rd |-> 2, rn |-> 0, rm |-> 1, ra |-> 3]
Float(c, rs) == {[k \in DOMAIN PlainFloat |-> IF k = "class" THEN c ELSE IF k \in DOMAIN x THEN x[k] ELSE PlainFloat[k]] : x \in rs}

FloatJobs ==
  Float("fp1", [ft : 0 .. 3, m : {0}, s : 0 .. 1, opcode : 0 .. 20] \cup [ft : 0 .. 1, m : {1}, opcode : 0 .. 15])
  \cup Float("fp2", [ft : 0 .. 3, m : 0 .. 1, opcode : 0 .. 15])
  \cup Float("fp3", [ft : 0 .. 3, m : 0 .. 1, s : 0 .. 1, o1 : 0 .. 1, o0 : 0 .. 1])
  \cup Float("fcmp", [ft : 0 .. 3, m : 0 .. 1, op : 0 .. 1, opcode2 : {0, 8, 16, 24, 1}])
  \cup Float("fccmp", [ft : 0 .. 3, m : 0 .. 1, cond : {0, 3, 10, 12, 15}, nzcv : {0, 9}])
  \cup Float("fcsel", [ft : 0 .. 3, m : 0 .. 1, cond : 0 .. 15])
  \cup Float("fpint", [ft : 0 .. 3, m : 0 .. 1, s : 0 .. 1, rmode : 0 .. 3, opcode : 0 .. 7]
                      \cup [ft : 0 .. 1, m : 0 .. 1, rmode : {0}, opcode : 0 .. 7, rn : {31}, rd : {31}])
  \cup Float("fpfixed", [ft : 0 .. 3, m : 0 .. 1, rmode : 0 .. 3, opcode : 0 .. 3, scale : {2, 4, 5, 7, 9}])
  \cup Float("fpsame", Shaped([u : 0 .. 1, size : 0 .. 3, opcode : 24 .. 31]))
  \cup Float("fpmisc", Shaped([u : 0 .. 1, size : 0 .. 3, opcode : 12 .. 31]))
  \cup Float("fppair", [u : 0 .. 1, size : 0 .. 3, opcode : 12 .. 15])
  \cup Float("fpacross", [u : 0 .. 1, size : 0 .. 3, opcode : 12 .. 15, q : 0 .. 1])
  \cup Float("fpindexed", Shaped([u : 0 .. 1, size : 1 .. 3, opcode : {1, 5, 9, 13}, h : 0 .. 1, l : 0 .. 1, hi : 0 .. 1]))

Numbers(ms) == [k \in 1 .. 2 * Len(ms) |-> FM!num(k % 2 = 0, ms[(k + 1) \div 2])]
Specials == <<FM!inf(FALSE), FM!inf(TRUE), FM!nan(FALSE, 8), FM!nan(TRUE, 10), FM!nan(FALSE, 2), FM!nan(TRUE, 6)>>
Halves == Numbers(<<0, 64, 128, 192, 384, 768, 1536>>) \o <<FM!inf(FALSE), FM!inf(TRUE), FM!nan(FALSE, 8), FM!nan(TRUE, 12), FM!nan(TRUE, 4)>>
Singles == Numbers(<<0, 16, 48, 80, 128, 224, 256, 320, 384, 640, 896, 3584, 7168, 24576, 262144, 458752>>) \o Specials
Doubles == Numbers(<<0, 1, 31, 32, 33, 95, 96, 97, 127, 129, 160, 161, 255, 256, 290, 382, 640, 1020, 1792, 3968, 65280, 130560, 131072, 262144, 458752, 491520, 524288, 1044480>>)
           \o Specials \o <<FM!nan(FALSE, 1), FM!nan(TRUE, 9)>>
\* For the reduction steps, whose results must not be subnormal.
Steps == Numbers(<<0, 128, 256, 384, 512, 640, 896, 98304, 262144, 458752>>) \o Specials
Integers == <<0, 1, 7, 9, 15, 16, 17, 31, 255, 256, 257, 259, 288, 289, 290, 291, 511, 512, 513, 514, 733, 735, 767, 769, 1022, 1023>>

FloatClasses == {"fp1", "fp2", "fp3", "fcmp", "fccmp", "fcsel", "fpint", "fpfixed", "fpsame", "fpmisc", "fppair",
                 "fpacross", "fpindexed"}

FloatStates(e) ==
  LET ft == IF e.class \in {"fpsame", "fpmisc", "fppair", "fpacross", "fpindexed"} THEN e.size % 2 ELSE e.ft
      steps == e.class = "fpsame" /\ e.opcode = 31 /\ e.u = 0
      of(f) == IF steps THEN Steps ELSE IF f = 0 THEN Singles ELSE IF f = 1 THEN Doubles ELSE Halves
      widen == e.class = "fpmisc" /\ e.opcode = 23
      narrow == e.class = "fpmisc" /\ e.opcode = 22
      from == of(IF widen THEN IF ft = 1 THEN 0 ELSE 3 ELSE ft)
      into == of(IF narrow THEN IF ft = 1 THEN 0 ELSE 3 ELSE ft)
      at(x, k) == x[(k % Len(x)) + 1]
      whole == e.class = "fpmisc" /\ e.opcode = 29
      integer(k) == FM!int(at(Integers, k) % (IF ft = 0 THEN 32 ELSE 1024))
      state(a, b, c) ==
        [pc |-> 4, nzcv |-> (5 * a + b) % 16, fpcr |-> (b \div 2) % 4, quietens |-> b % 2 = 0,
         r |-> [k \in {0, 2, 31, 33} |-> FM!int(IF k = 31 THEN 0 ELSE at(Integers, a + k))],
         v |-> [k \in {0, 1, 2, 3, 17, 31} |->
                 [l \in 0 .. 7 |-> CASE k = 0 -> IF whole THEN integer(a + l) ELSE at(from, a + l)
                                     [] k = 1 -> at(from, b + 3 * l) [] k = 17 -> at(from, a + b + l)
                                     [] k = 3 -> at(from, a + c) [] OTHER -> at(into, b + c + 5 * l)]]]
      one == e.class \in {"fp1", "fpint", "fpfixed", "fpmisc", "fcsel", "fpacross"}
  IN {state(a, b, c) : a \in 0 .. Len(from) - 1, b \in {k \in 0 .. Len(from) - 1 : CASE one -> k < 8 [] e.class = "fpindexed" -> k % 7 = 0
                                                                [] e.class \in {"fp3", "fpsame"} -> k % 3 = 0 [] OTHER -> TRUE},
                       c \in IF e.class = "fp3" THEN 0 .. 18 ELSE {5}}

-----------------------------------------------------------------------------
(* Relocation tables.                                                        *)

\* Streams of up to three bytes, and longer ones that do not end soon.
Streams == UNION {[1 .. n -> 0 .. 15] : n \in 1 .. 3} \cup UNION {[1 .. n -> {0, 7, 8, 12, 15}] : n \in 4 .. 5}

Group(f, n, x) == [flags |-> f, delta |-> 8, info |-> 0 - 13, addend |-> x,
                   entries |-> SubSeq(<<[d |-> 16, i |-> 35, a |-> 0 - 3], [d |-> 0 - 8, i |-> 3, a |-> 70]>>, 1, n)]
Packed == {[class |-> "aps2", groups |-> <<Group(f, 2, 9), Group(g, n, 0 - 2), Group(h, 1, 5)>>]
             : f \in 0 .. 15, g \in 0 .. 15, h \in {0, 8, 12}, n \in 1 .. 2}

RelrWords == {0, 8, 240, 1, 3, 131, 255}
Relr == {[class |-> "relr", words |-> w] : w \in UNION {[1 .. n -> RelrWords] : n \in 1 .. 3}}

MCImplicit == [a \in 0 .. 255 |-> (5 * a + 3) % 256]

\* One or two sections; the second segment's last word is file part only in half.
MCSegments == {[vaddr |-> 8, filesz |-> 24], [vaddr |-> 40, filesz |-> 44]}
Entries == <<[offset |-> 16, info |-> 35, addend |-> 9], [offset |-> 80, info |-> 17, addend |-> 250]>>
Sections == {[type |-> t, data |-> Entries] : t \in {"REL", "RELA"}}
            \cup {[type |-> t, groups |-> <<Group(f, 2, 9), Group(2, 1, 0)>>] : t \in {"ANDROID_REL", "ANDROID_RELA"}, f \in {2, 9}}
            \cup {[type |-> "RELR", data |-> <<24, 131, 72>>]}

RelocJobs == {[class |-> "image", sections |-> s] : s \in UNION {[1 .. n -> Sections] : n \in 1 .. 2}} \cup Packed \cup Relr \cup {[class |-> "sleb", bytes |-> b] : b \in Streams}

(* Every relocation table, plain, APS2 stream or RELR bitmap, expands to exactly *)
(* the relocations it stands for, with the addends of the file where it carries  *)
(* none, and a stream cut short or too long is refused, and the image with it     *)
(* (Parse, decodeAPS2, decodeRELR, decodeREL, implicitAddendFunc, sleb.next).     *)
RelocsDecoded ==
  CASE job.class = "aps2" -> RM!PackedRight(24, job.groups, MCImplicit)
    [] job.class = "image" -> RM!ImageRight(job.sections, MCSegments, MCImplicit)
    [] job.class = "relr" -> RM!BitmapsRight(job.words, MCImplicit)
    [] job.class = "sleb" -> RM!SlebRight(job.bytes)
    [] OTHER -> TRUE

-----------------------------------------------------------------------------
(* Images.  Two segments each: code, then data with the words to patch.       *)

Symbol(n, v, b) == [name |-> n, value |-> v, undef |-> FALSE, absolute |-> FALSE, bind |-> b, type |-> "FUNC"]
Import(n, b) == [Symbol(n, 0, b) EXCEPT !.undef = TRUE]
NullSymbol == Symbol("", 0, "LOCAL")
Rel(o, t, s, a) == [offset |-> o, type |-> t, sym |-> s, addend |-> a]
Image(syms, relocs) ==
  [segments |-> <<[page |-> 0, pages |-> 1, flags |-> {"R", "X"}, file |-> <<11, 12>>],
                  [page |-> 2, pages |-> 1, flags |-> {"R", "W"}, file |-> (8 :> 5) @@ (10 :> 6)]>>,
   syms |-> <<NullSymbol>> \o syms, relocs |-> relocs]

Libc == Image(<<Symbol("f", 1, "GLOBAL"), Symbol("g", 2, "WEAK"), [Symbol("LIBC", 7, "GLOBAL") EXCEPT !.absolute = TRUE],
                Import("malloc", "GLOBAL"), Import("h", "GLOBAL"), Import("k", "WEAK")>>,
              <<Rel(8, "RELATIVE", 0, 3), Rel(9, "GLOB_DAT", 5, 0), Rel(10, "JUMP_SLOT", 4, 0), Rel(11, "ABS64", 6, 0)>>)
App == Image(<<Symbol("f", 3, "GLOBAL"), Symbol("h", 2, "GLOBAL"), Import("g", "WEAK"), Import("malloc", "GLOBAL"),
               Symbol("g", 3, "LOCAL"), [Symbol("LIBC", 7, "GLOBAL") EXCEPT !.absolute = TRUE]>>,
             <<Rel(8, "ABS64", 1, 1), Rel(9, "GLOB_DAT", 3, 2), Rel(10, "JUMP_SLOT", 4, 0), Rel(11, "ABS64", 6, 0)>>)
User == Image(<<Import("k", "GLOBAL"), Import("h", "WEAK"), Import("f", "GLOBAL")>>,
              <<Rel(8, "JUMP_SLOT", 1, 0), Rel(9, "ABS64", 2, 0), Rel(10, "GLOB_DAT", 3, 1)>>)
\* These fail: an unknown relocation, a symbol out of range, a patch outside, a page shared.
Unknown == Image(<<Symbol("k", 1, "GLOBAL"), Symbol("f", 2, "GLOBAL"), Import("j", "GLOBAL")>>,
                 <<Rel(8, "JUMP_SLOT", 3, 0), Rel(9, "TLSDESC", 0, 0)>>)
OutOfRange == Image(<<Symbol("h", 1, "GLOBAL")>>, <<Rel(8, "GLOB_DAT", 4, 0)>>)
Outside == Image(<<Symbol("k", 0, "WEAK")>>, <<Rel(4, "RELATIVE", 0, 0)>>)
Sharing == [Image(<<Symbol("f", 1, "GLOBAL")>>, <<>>) EXCEPT !.segments[2].page = 0]

MCImages == {Libc, App, User, Unknown, OutOfRange, Outside, Sharing}

-----------------------------------------------------------------------------
Idle == [r |-> [x \in XRegs |-> 0], v |-> [x \in VRegs |-> 0], pc |-> 0, excl |-> NoMonitor,
         mem |-> Background, fault |-> FALSE]

Linking == [class |-> "link"]
Clrex == [Nothing EXCEPT !.e = [class |-> "system", op |-> "clrex", rt |-> 0]]   \* any that runs

MCInit ==
  /\ LinkInit
  /\ \/ job = Plain /\ Init
     \/ /\ job \in Jobs \cup VectorJobs \cup FloatJobs \cup RelocJobs \cup {Linking}
        /\ cpu = Idle /\ prot \in {[p \in Pages |-> {}]} /\ prog = "none"
        /\ last = IF job = Linking THEN Clrex ELSE Nothing
MCNext ==
  \/ job.class = "machine" /\ Next /\ UNCHANGED <<job, emu, load>>
  \/ job = Linking /\ LinkNext /\ (load.step # 0 \/ emu.nextBase < LastBase) /\ UNCHANGED <<vars, job>>
MCSpec == MCInit /\ [][MCNext]_<<vars, job, emu, load>>

(* Each data-processing, branch, integer vector and floating-point instruction *)
(* is decoded if and only if the architecture allocates it, and then computes  *)
(* the result, the flags, the destination and the next PC the architecture      *)
(* defines (dpreg.go, decode.go, vec.go and fp.go, whose masks, carries, lane    *)
(* loops, NaN rules and register-31 cases this compares with definitions on      *)
(* integers, bit sets and exact numbers).  Of the cases in Wrong it says nothing. *)
ComputesRight ==
  CASE job.class \in DP!Registers \cup DP!Immediates \cup DP!Branches -> DP!Faithful(job, Operands)
    [] job.class \in Vectors -> IF job.bits = 2 THEN V2!Faithful(job, States2) ELSE V8!Faithful(job, States8)
    [] job.class \in FloatClasses -> FM!Faithful(job, FloatStates(job))
    [] OTHER -> TRUE

-----------------------------------------------------------------------------
(* The fused multiply-add of singles by itself: operands, then the result.   *)

Fused == CHOOSE e \in Float("fp3", [ft : {0}]) : TRUE
FusedState(j) ==
  [pc |-> 4, v |-> [k \in 0 .. 3 |-> [l \in 0 .. 7 |-> CASE l > 0 \/ k = Fused.rd -> FX!Zero [] k = Fused.rn -> j.a
                                                        [] k = Fused.rm -> j.b [] OTHER -> j.c]]]

FusedInit ==
  /\ LinkInit /\ cpu = Idle /\ prot \in {[p \in Pages |-> {}]} /\ prog = "none" /\ last = Nothing
  /\ \E i, k, l \in DOMAIN Singles :
       job = [class |-> "operands", a |-> Singles[i], b |-> Singles[k], c |-> Singles[l]]
FusedNext ==
  /\ job.class = "operands"
  /\ LET out == FX!Exec(FusedState(job), FX!decode(Fused)).v[Fused.rd][0]
     IN job' = [job EXCEPT !.class = "fused"] @@ [result |-> out]
  /\ UNCHANGED <<vars, emu, load>>
FusedSpec == FusedInit /\ [][FusedNext]_<<vars, job, emu, load>>

(* "fma is a fused multiply-add: one rounding, as FMADD requires", of singles    *)
(* too, since "narrowing the result afterwards does not double-round" (fp.go).   *)
FusedRoundsOnce == job.class = "fused" => FX!First(Fused, FusedState(job), job.result)
=============================================================================
