----------------------------- MODULE LinkerMeaning -----------------------------
(***************************************************************************)
(* What loading images must come to: which definition each reference of each *)
(* loaded module is bound to, what its memory holds, and that an image that   *)
(* is being loaded or failed to load has bound nobody.                       *)
(***************************************************************************)
EXTENDS Linker

(* The loaded modules that define a name, those loaded before the i-th.        *)
Definers(e, n, i) == {j \in 1 .. i - 1 : n \in DOMAIN Exports(e.modules[j].img)}
Definition(e, n, j) == e.modules[j].base + Exports(e.modules[j].img)[n]
FirstDefinition(e, n, i, v) ==
  \E j \in Definers(e, n, i) : v = Definition(e, n, j) /\ \A k \in Definers(e, n, i) : j <= k

(* v is what a reference to symbol s stands for in the image that is the i-th    *)
(* module: its own definition, a host function, the first definition loaded       *)
(* before it, null if weak, and else a stub of that name.                       *)
BoundTo(e, base, i, s, v) ==
  LET stubOf(n) == v \in DOMAIN e.stubs /\ e.stubs[v] = n
  IN IF ~s.undef THEN v = (IF s.absolute THEN 0 ELSE base) + s.value
     ELSE IF s.name \in HostNames
     THEN stubOf(s.name) /\ v \in DOMAIN e.hostImpl /\ e.hostImpl[v] = s.name
     ELSE IF Definers(e, s.name, i) # {} THEN FirstDefinition(e, s.name, i, v)
     ELSE IF s.bind = "WEAK" THEN v = 0
     ELSE stubOf(s.name) /\ v \notin DOMAIN e.hostImpl

RelocRight(e, base, i, img, r) ==
  LET now == e.mem[base + r.offset]
  IN IF r.type = "RELATIVE" THEN now = base + r.addend
     ELSE BoundTo(e, base, i, img.syms[r.sym + 1], now - r.addend)

(* A segment holds its file where no relocation patched it, with its rights.     *)
Patched(img) == {img.relocs[k].offset : k \in DOMAIN img.relocs}
FileWord(s, a) == IF a \in DOMAIN s.file THEN s.file[a] ELSE 0
SegmentRight(e, base, img, s) ==
  /\ \A a \in SegmentWords(0, s) \ Patched(img) : e.mem[base + a] = FileWord(s, a)
  /\ \A p \in SegmentPages(base, s) : e.prot[p] = s.flags

ModuleRight(e, i) ==
  LET m == e.modules[i]
  IN /\ \A k \in DOMAIN m.img.relocs : RelocRight(e, m.base, i, m.img, m.img.relocs[k])
     /\ \A k \in DOMAIN m.img.segments : SegmentRight(e, m.base, m.img, m.img.segments[k])

PagesOf(m) == UNION {SegmentPages(m.base, m.img.segments[k]) : k \in DOMAIN m.img.segments}

(* A symbol the host or a later module looks up belongs to a loaded module, the *)
(* first that defines it; each stub traps and names one import.                 *)
TablesRight(e) ==
  LET n == Len(e.modules) + 1
  IN /\ DOMAIN e.syms = UNION {DOMAIN Exports(e.modules[j].img) : j \in DOMAIN e.modules}
     /\ \A x \in DOMAIN e.syms : FirstDefinition(e, x, n, e.syms[x])
     /\ \A i, j \in DOMAIN e.modules : i # j => PagesOf(e.modules[i]) \cap PagesOf(e.modules[j]) = {}
     /\ \A a \in DOMAIN e.stubs : a < e.nextStub /\ (a \in DOMAIN e.mem => e.mem[a] = SvcRet)

(* The modules have not grown into the stubs, nor the stubs into the modules:    *)
(* the two grow upwards, 0x4e000000 bytes apart in the code.                    *)
Apart(e) == \/ e.nextBase <= stubBase
            \/ e.nextStub <= moduleBase /\ stubBase + stubSize <= moduleBase

(* Whatever images were loaded and failed to load before, every reference of     *)
(* every loaded module is bound to its own definition, to the host's function,    *)
(* to the first module loaded before it that defines the name, to null if it is    *)
(* weak, or to a stub; no image that failed half way, or is not yet loaded, has    *)
(* bound anybody, and no load has touched the memory of another, as long as the    *)
(* modules and the stubs have not run into each other (Apply, resolveSymbol,       *)
(* LoadModule).                                                               *)
LinksRight == Apart(emu) => TablesRight(emu) /\ \A i \in DOMAIN emu.modules : ModuleRight(emu, i)
=============================================================================
