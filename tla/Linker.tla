-------------------------------- MODULE Linker ---------------------------------
(***************************************************************************)
(* Loading modules: Apply and symValue of internal/loader/linker.go,        *)
(* LoadModule, resolveSymbol and makeStub of emulator/emulator.go.  A load   *)
(* goes through Apply's three loops, a segment or a relocation at a time, to  *)
(* its end or to its first error; what an error leaves behind stays, and the *)
(* host may load on.                                                         *)
(*                                                                         *)
(* Memory is a function of word addresses, a page is PageWords of them.     *)
(* An image has its segments in pages; words of the file not mentioned, and *)
(* the rest of the last page, are zero.                                     *)
(***************************************************************************)
EXTENDS Integers, Sequences

CONSTANTS
  Images,          \* the images the host may load
  HostNames,       \* hostByName: libc functions implemented by the host
  moduleBase, stubBase, stubSize,   \* in words
  PageWords, GapPages

VARIABLES
  emu,    \* the emulator's tables, the mapped memory and its protection
  load    \* the load under way: image, base and the next step of Apply

linkVars == <<emu, load>>

(* g where it is defined, and f elsewhere.                                    *)
Over(g, f) == [x \in DOMAIN g \cup DOMAIN f |-> IF x \in DOMAIN g THEN g[x] ELSE f[x]]

SvcRet == 0 - 1                        \* the word of a stub: svc; ret

emulator ==
  [nextBase |-> moduleBase, nextStub |-> stubBase, syms |-> <<>>, modules |-> <<>>,
   mem |-> [a \in stubBase .. stubBase + stubSize - 1 |-> 0],
   prot |-> [p \in {a \div PageWords : a \in stubBase .. stubBase + stubSize - 1} |-> {"R", "W", "X"}],
   stubs |-> <<>>, hostImpl |-> <<>>]

-----------------------------------------------------------------------------
(* Images.                                                                   *)

(* What Parse makes of a symbol table, whose first entry is the null symbol.  *)
exportable(s) == ~s.absolute /\ s.type # "TLS" /\ s.bind \in {"GLOBAL", "WEAK"}
Exported(img, n) == {k \in DOMAIN img.syms :
                       /\ img.syms[k].name = n /\ n # "" /\ ~img.syms[k].undef
                       /\ exportable(img.syms[k])}
LastOf(S) == CHOOSE k \in S : \A j \in S : j <= k
Exports(img) ==
  [n \in {img.syms[k].name : k \in {j \in DOMAIN img.syms : Exported(img, img.syms[j].name) # {}}} |->
     img.syms[LastOf(Exported(img, n))].value]

LoadSpan(img) == LET ends == {img.segments[k].page + img.segments[k].pages : k \in DOMAIN img.segments}
                 IN LastOf(ends \cup {0}) * PageWords

SegmentWords(base, s) == base + s.page * PageWords .. base + (s.page + s.pages) * PageWords - 1
SegmentPages(base, s) == {a \div PageWords : a \in SegmentWords(base, s)}

(* What is asked of an image: segments have pages, as the engine refuses to map  *)
(* none, and a relocation patches a word of the image's span, or of the gap      *)
(* behind it, that no other patches.                                          *)
ImagesAssumption ==
  \A img \in Images :
    /\ \A k \in DOMAIN img.segments : img.segments[k].page \in Nat /\ img.segments[k].pages \in Nat \ {0}
    /\ img.segments \in Seq({img.segments[k] : k \in DOMAIN img.segments})
    /\ img.relocs \in Seq({img.relocs[k] : k \in DOMAIN img.relocs})
    /\ img.syms \in Seq({img.syms[k] : k \in DOMAIN img.syms})
    /\ \A k \in DOMAIN img.syms : img.syms[k].value \in Int /\ img.syms[k].undef \in BOOLEAN
    /\ \A k \in DOMAIN img.relocs :
         LET r == img.relocs[k]
         IN /\ r.offset \in 0 .. LoadSpan(img) + GapPages * PageWords - 1
            /\ r.sym \in Nat /\ r.addend \in Int
            /\ \A j \in DOMAIN img.relocs : img.relocs[j].offset = r.offset => j = k
ASSUME ImagesWellFormed == ImagesAssumption
ASSUME AreasAssumption ==
  /\ moduleBase \in Nat /\ stubBase \in Nat /\ stubSize \in Nat
  /\ PageWords \in Nat \ {0} /\ GapPages \in Nat

-----------------------------------------------------------------------------
(* Symbols.  An operator's result is the emulator afterwards, an address and   *)
(* whether there was no error.                                               *)

makeStub(e, name) ==
  LET a == e.nextStub
      mem == IF a \in DOMAIN e.mem THEN [e.mem EXCEPT ![a] = SvcRet] ELSE e.mem
  IN [e EXCEPT !.nextStub = a + 1, !.mem = mem, !.stubs = Over([x \in {a} |-> name], @)]

Bound(e, addr) == [e |-> e, val |-> addr, ok |-> TRUE]

(* Mutant: an unresolved weak reference gets a stub too.                      *)
resolveAll(e, name, weak) ==
  IF name \in HostNames THEN LET f == makeStub(e, name)
                             IN Bound([f EXCEPT !.hostImpl = Over([x \in {e.nextStub} |-> name], @)], e.nextStub)
  ELSE IF name \in DOMAIN e.syms THEN Bound(e, e.syms[name])
  ELSE Bound(makeStub(e, name), e.nextStub)

resolveSymbol(e, name, weak) ==
  IF name \in HostNames THEN LET f == makeStub(e, name)
                             IN Bound([f EXCEPT !.hostImpl = Over([x \in {e.nextStub} |-> name], @)], e.nextStub)
  ELSE IF name \in DOMAIN e.syms THEN Bound(e, e.syms[name])
  ELSE IF weak THEN [Bound(e, 0) EXCEPT !.ok = FALSE]
  ELSE Bound(makeStub(e, name), e.nextStub)

symValue(e, img, base, sym) ==
  LET s == img.syms[sym + 1]
      found == resolveSymbol(e, s.name, s.bind = "WEAK")
  IN IF sym >= Len(img.syms) THEN [Bound(e, 0) EXCEPT !.ok = FALSE]
     ELSE IF ~s.undef THEN Bound(e, IF s.absolute THEN s.value ELSE base + s.value)
     ELSE IF s.bind = "WEAK" THEN [found EXCEPT !.ok = TRUE] ELSE found

put64(e, a, x) == IF a \in DOMAIN e.mem THEN Bound([e EXCEPT !.mem[a] = x], a)
                  ELSE [Bound(e, a) EXCEPT !.ok = FALSE]

relocate(e, img, base, r) ==
  LET v == symValue(e, img, base, r.sym)
  IN IF r.type = "RELATIVE" THEN put64(e, base + r.offset, base + r.addend)
     ELSE IF r.type \notin {"GLOB_DAT", "JUMP_SLOT", "ABS64"} THEN [Bound(e, 0) EXCEPT !.ok = FALSE]
     ELSE IF v.ok THEN put64(v.e, base + r.offset, v.val + r.addend) ELSE v

-----------------------------------------------------------------------------
(* A load.                                                                   *)

NoLoad == [step |-> 0]

LinkInit == emu = emulator /\ load = NoLoad

LoadModule(img) ==
  /\ load.step = 0
  /\ emu' = [emu EXCEPT !.nextBase = @ + LoadSpan(img) + GapPages * PageWords]
  /\ load' = [img |-> img, base |-> emu.nextBase, step |-> 1]

(* The steps of Apply: a segment each, a relocation each, a segment each.      *)
Mapping == load.step # 0 /\ load.step <= Len(load.img.segments)
Relocating == /\ load.step > Len(load.img.segments)
              /\ load.step <= Len(load.img.segments) + Len(load.img.relocs)
Protecting == /\ load.step > Len(load.img.segments) + Len(load.img.relocs)
              /\ load.step <= 2 * Len(load.img.segments) + Len(load.img.relocs)
Applied == load.step = 2 * Len(load.img.segments) + Len(load.img.relocs) + 1

GoOn == load' = [load EXCEPT !.step = @ + 1]
Fail == load' = NoLoad

mapSegment(e, base, s) ==
  [e EXCEPT !.prot = Over([p \in SegmentPages(base, s) |-> {"R", "W", "X"}], @),
            !.mem = Over([a \in SegmentWords(base, s) |->
                            IF a - base \in DOMAIN s.file THEN s.file[a - base] ELSE 0], @)]

ApplyMap ==
  /\ Mapping
  /\ LET s == load.img.segments[load.step]
     IN \/ /\ SegmentPages(load.base, s) \cap DOMAIN emu.prot # {}
           /\ Fail /\ UNCHANGED emu
        \/ /\ SegmentPages(load.base, s) \cap DOMAIN emu.prot = {}
           /\ emu' = mapSegment(emu, load.base, s) /\ GoOn

ApplyReloc ==
  /\ load.step # 0 /\ Relocating
  /\ LET done == relocate(emu, load.img, load.base, load.img.relocs[load.step - Len(load.img.segments)])
     IN emu' = done.e /\ IF done.ok THEN GoOn ELSE Fail

protectSegment(e, base, s) ==
  [e EXCEPT !.prot = [p \in DOMAIN @ |-> IF p \in SegmentPages(base, s) THEN s.flags ELSE @[p]]]

ApplyProtect ==
  /\ load.step # 0 /\ Protecting
  /\ emu' = protectSegment(emu, load.base,
                           load.img.segments[load.step - Len(load.img.segments) - Len(load.img.relocs)])
  /\ GoOn

(* The exports are entered once linking has succeeded; the first of a name     *)
(* stays.                                                                     *)
Enter(e, img, base) ==
  [e EXCEPT !.syms = Over(@, [n \in DOMAIN Exports(img) |-> base + Exports(img)[n]]),
            !.modules = Append(@, [base |-> base, img |-> img])]

EnterExports ==
  /\ load.step # 0 /\ Applied
  /\ emu' = Enter(emu, load.img, load.base)
  /\ load' = NoLoad

LinkNext == (\E img \in Images : LoadModule(img)) \/ ApplyMap \/ ApplyReloc \/ ApplyProtect \/ EnterExports
LinkSpec == LinkInit /\ [][LinkNext]_linkVars
=============================================================================
