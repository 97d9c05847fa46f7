----------------------------- MODULE LinkerProofs ------------------------------
(***************************************************************************)
(* The linker, for any images, in any number and any order, good and bad.    *)
(*                                                                         *)
(* An image under way is a module in part: PartRight says what is right once *)
(* so many segments are mapped, relocations done and segments protected.      *)
(* Each step of a load adds to the part of its own image (Mapped, Patches,    *)
(* Protects), and disturbs the part of no other, because it extends the        *)
(* tables (Extends), and writes either to the stubs or between the base of its *)
(* own image and the next base (PartStays).                                  *)
(***************************************************************************)
EXTENDS LinkerMeaning, WellFoundedInduction, TLAPS

(* A set with 0 that is closed under successor has every number.               *)
LEMMA SetInduction ==
  ASSUME NEW S, 0 \in S, \A n \in Nat : n \in S => n + 1 \in S
  PROVE  Nat \subseteq S
<1> DEFINE R == OpToRel(<, Nat)
           T == Nat \ S
<1> SUFFICES ASSUME T # {} PROVE FALSE
  OBVIOUS
<1>1. PICK x \in T : \A y \in T : ~ (<<y, x>> \in R)
  <2>1. IsWellFoundedOn(R, Nat)
    BY NatLessThanWellFounded
  <2>2. T \subseteq Nat
    OBVIOUS
  <2> HIDE DEF R, T
  <2> QED
    BY <2>1, <2>2, WFMin
<1>2. x # 0
  OBVIOUS
<1>3. x - 1 \in Nat /\ x - 1 \notin S
  BY <1>2
<1>4. <<x - 1, x>> \in R
  BY <1>3 DEF OpToRel
<1> QED
  BY <1>1, <1>3, <1>4

(* A bounded set of numbers has a last.                                       *)
LEMMA LastIsLast ==
  ASSUME NEW n \in Nat, NEW S \in SUBSET (0 .. n), S # {}
  PROVE  LastOf(S) \in S /\ \A j \in S : j <= LastOf(S)
<1> DEFINE HasLast(A) == \E k \in A : \A j \in A : j <= k
           T == {m \in Nat : \A A \in SUBSET (0 .. m) : A # {} => HasLast(A)}
<1>1. 0 \in T
  <2>1. \A A \in SUBSET (0 .. 0) : A # {} => 0 \in A /\ \A j \in A : j <= 0
    <3> SUFFICES ASSUME NEW A \in SUBSET (0 .. 0), A # {}
                 PROVE  0 \in A /\ \A j \in A : j <= 0
      OBVIOUS
    <3>1. PICK x \in A : TRUE
      OBVIOUS
    <3>2. \A j \in A : j = 0
      OBVIOUS
    <3> QED
      BY <3>1, <3>2
  <2> QED
    BY <2>1
<1>2. ASSUME NEW m \in Nat, m \in T
      PROVE  m + 1 \in T
  <2> SUFFICES ASSUME NEW A \in SUBSET (0 .. m + 1), A # {}
               PROVE  HasLast(A)
    OBVIOUS
  <2>1. CASE m + 1 \in A
    <3>1. \A j \in A : j <= m + 1
      OBVIOUS
    <3> QED
      BY <2>1, <3>1
  <2>2. CASE m + 1 \notin A
    <3>1. A \in SUBSET (0 .. m)
      BY <2>2
    <3> QED
      BY <1>2, <3>1
  <2> QED
    BY <2>1, <2>2
<1>3. Nat \subseteq T
  <2> HIDE DEF T
  <2> QED
    BY <1>1, <1>2, SetInduction
<1> QED
  BY <1>3 DEF LastOf

(* The numbers of a finite list have a bound.                                  *)
LEMMA ListBounded ==
  ASSUME NEW n \in Nat, NEW f, \A k \in 1 .. n : f[k] \in Nat
  PROVE  \E b \in Nat : \A k \in 1 .. n : f[k] <= b
<1> DEFINE Bounded(m) == \E b \in Nat : \A k \in 1 .. m : f[k] <= b
           T == {m \in Nat : m <= n => Bounded(m)}
<1>1. 0 \in T
  OBVIOUS
<1>2. ASSUME NEW m \in Nat, m \in T
      PROVE  m + 1 \in T
  <2> SUFFICES ASSUME m + 1 <= n
               PROVE  Bounded(m + 1)
    OBVIOUS
  <2>1. PICK b \in Nat : \A k \in 1 .. m : f[k] <= b
    BY <1>2
  <2> DEFINE c == b + f[m + 1]
  <2>2. f[m + 1] \in Nat /\ c \in Nat
    OBVIOUS
  <2>3. \A k \in 1 .. m + 1 : f[k] <= c
    <3> SUFFICES ASSUME NEW k \in 1 .. m + 1 PROVE f[k] <= c
      OBVIOUS
    <3>1. CASE k = m + 1
      BY <3>1, <2>2
    <3>2. CASE k # m + 1
      <4>1. k \in 1 .. m /\ f[k] \in Nat
        BY <3>2
      <4> QED
        BY <4>1, <2>1, <2>2
    <3> QED
      BY <3>1, <3>2
  <2> QED
    BY <2>2, <2>3
<1>3. Nat \subseteq T
  <2> HIDE DEF T
  <2> QED
    BY <1>1, <1>2, SetInduction
<1>4. n \in T
  <2> HIDE DEF T
  <2> QED
    BY <1>3
<1> QED
  BY <1>4

-----------------------------------------------------------------------------
(* Images.                                                                   *)

Room(base, img) == base + LoadSpan(img) + GapPages * PageWords

(* What an image is asked to be, by the lengths of its lists.                *)
LEMMA ImageShape ==
  ASSUME NEW img \in Images
  PROVE  /\ Len(img.segments) \in Nat /\ DOMAIN img.segments = 1 .. Len(img.segments)
         /\ Len(img.relocs) \in Nat /\ DOMAIN img.relocs = 1 .. Len(img.relocs)
         /\ Len(img.syms) \in Nat /\ DOMAIN img.syms = 1 .. Len(img.syms)
         /\ \A k \in DOMAIN img.segments : img.segments[k].page \in Nat /\ img.segments[k].pages \in Nat
         /\ \A k \in DOMAIN img.syms : img.syms[k].value \in Int /\ img.syms[k].undef \in BOOLEAN
         /\ \A k \in DOMAIN img.relocs :
              LET r == img.relocs[k]
              IN /\ r.offset \in 0 .. LoadSpan(img) + GapPages * PageWords - 1
                 /\ r.sym \in Nat /\ r.addend \in Int
                 /\ \A j \in DOMAIN img.relocs : img.relocs[j].offset = r.offset => j = k
<1>1. ImagesAssumption
  BY ImagesWellFormed
<1>2. /\ img.segments \in Seq({img.segments[k] : k \in DOMAIN img.segments})
      /\ img.relocs \in Seq({img.relocs[k] : k \in DOMAIN img.relocs})
      /\ img.syms \in Seq({img.syms[k] : k \in DOMAIN img.syms})
  BY <1>1 DEF ImagesAssumption
<1>3. ASSUME NEW S, NEW s \in Seq(S)
      PROVE  Len(s) \in Nat /\ DOMAIN s = 1 .. Len(s)
  OBVIOUS
<1> QED
  BY <1>1, <1>2, <1>3 DEF ImagesAssumption

(* A segment lies within its image's span.                                     *)
LEMMA SegmentInside ==
  ASSUME NEW img \in Images, NEW b \in Nat
  PROVE  /\ LoadSpan(img) \in Nat /\ GapPages * PageWords \in Nat /\ Room(b, img) \in Nat
         /\ b + LoadSpan(img) <= Room(b, img) /\ b <= Room(b, img)
         /\ \A k \in DOMAIN img.segments :
              /\ SegmentWords(b, img.segments[k]) \subseteq b .. b + LoadSpan(img) - 1
              /\ \A a \in SegmentWords(0, img.segments[k]) : a \in Nat /\ b + a \in SegmentWords(b, img.segments[k])
<1> DEFINE f == [k \in DOMAIN img.segments |-> img.segments[k].page + img.segments[k].pages]
           ends == {img.segments[k].page + img.segments[k].pages : k \in DOMAIN img.segments}
           top == LastOf(ends \cup {0})
<1>1. \A k \in 1 .. Len(img.segments) : f[k] \in Nat
  BY ImageShape
<1>2. PICK m \in Nat : \A k \in 1 .. Len(img.segments) : f[k] <= m
  <2> HIDE DEF f
  <2>1. Len(img.segments) \in Nat
    BY ImageShape
  <2> QED
    BY <1>1, <2>1, ListBounded
<1>3. ends \cup {0} \in SUBSET (0 .. m)
  <2>1. \A k \in DOMAIN img.segments : img.segments[k].page + img.segments[k].pages \in 0 .. m
    <3>1. DOMAIN img.segments = 1 .. Len(img.segments)
      BY ImageShape
    <3>2. \A k \in DOMAIN img.segments : f[k] = img.segments[k].page + img.segments[k].pages
      OBVIOUS
    <3> HIDE DEF f
    <3> QED
      BY <1>1, <1>2, <3>1, <3>2
  <2> QED
    BY <2>1
<1>4. top \in ends \cup {0} /\ \A j \in ends \cup {0} : j <= top
  <2> HIDE DEF ends
  <2> QED
    BY <1>3, LastIsLast
<1>5. top \in Nat /\ \A k \in DOMAIN img.segments : img.segments[k].page + img.segments[k].pages <= top
  BY <1>3, <1>4
<1>6. LoadSpan(img) = top * PageWords
  BY DEF LoadSpan
<1> HIDE DEF top
<1>7. LoadSpan(img) \in Nat /\ GapPages * PageWords \in Nat
  BY <1>5, <1>6, AreasAssumption
<1>8. ASSUME NEW k \in DOMAIN img.segments
      PROVE  /\ SegmentWords(b, img.segments[k]) \subseteq b .. b + LoadSpan(img) - 1
             /\ \A a \in SegmentWords(0, img.segments[k]) : a \in Nat /\ b + a \in SegmentWords(b, img.segments[k])
  <2> DEFINE lo == img.segments[k].page * PageWords
             hi == (img.segments[k].page + img.segments[k].pages) * PageWords
  <2>1. lo \in Nat /\ hi \in Nat
    BY ImageShape, AreasAssumption
  <2>2. hi <= top * PageWords
    <3>1. ASSUME NEW x \in Nat, NEW y \in Nat, NEW z \in Nat, x <= y PROVE x * z <= y * z
      <4>1. PICK d \in Nat : y = x + d
        BY <3>1, y - x \in Nat, y = x + (y - x)
      <4>2. y * z = x * z + d * z /\ d * z \in Nat /\ x * z \in Nat
        BY <4>1
      <4> QED
        BY <4>2
    <3> QED
      BY <1>5, <3>1, ImageShape, AreasAssumption
  <2>3. /\ SegmentWords(b, img.segments[k]) = b + lo .. b + hi - 1
        /\ SegmentWords(0, img.segments[k]) = 0 + lo .. 0 + hi - 1
    BY DEF SegmentWords
  <2> HIDE DEF lo, hi
  <2> QED
    BY <2>1, <2>2, <2>3, <1>6, <1>7
<1> QED
  <2> DEFINE gap == GapPages * PageWords
  <2>1. Room(b, img) = b + LoadSpan(img) + gap
    BY DEF Room
  <2> HIDE DEF gap
  <2> QED
    BY <1>7, <1>8, <2>1 DEF gap

(* A relocation patches a word of its image's room.                          *)
LEMMA PatchInside ==
  ASSUME NEW img \in Images, NEW b \in Nat, NEW k \in DOMAIN img.relocs
  PROVE  b + img.relocs[k].offset \in b .. Room(b, img) - 1
<1> DEFINE gap == GapPages * PageWords
           o == img.relocs[k].offset
<1>1. o \in 0 .. LoadSpan(img) + gap - 1 /\ LoadSpan(img) \in Nat /\ gap \in Nat
  BY ImageShape, SegmentInside
<1>2. Room(b, img) = b + LoadSpan(img) + gap
  BY DEF Room
<1> HIDE DEF gap, o
<1> QED
  BY <1>1, <1>2 DEF o

(* What an image exports is an address in it.                                  *)
LEMMA ExportsAreAddresses ==
  ASSUME NEW img \in Images, NEW n \in DOMAIN Exports(img)
  PROVE  Exports(img)[n] \in Int
<1>1. PICK k \in DOMAIN img.syms : n = img.syms[k].name /\ Exported(img, n) # {}
  BY DEF Exports
<1>2. Exported(img, n) \in SUBSET (0 .. Len(img.syms)) /\ Len(img.syms) \in Nat
  <2>1. DOMAIN img.syms = 1 .. Len(img.syms) /\ Len(img.syms) \in Nat
    BY ImageShape
  <2>2. Exported(img, n) \subseteq DOMAIN img.syms
    BY DEF Exported
  <2> QED
    BY <2>1, <2>2
<1>3. LastOf(Exported(img, n)) \in Exported(img, n)
  BY <1>1, <1>2, LastIsLast
<1>4. LastOf(Exported(img, n)) \in DOMAIN img.syms
  BY <1>3 DEF Exported
<1>5. Exports(img)[n] = img.syms[LastOf(Exported(img, n))].value
  BY DEF Exports
<1> QED
  BY <1>4, <1>5, ImageShape

-----------------------------------------------------------------------------
(* An emulator that grew from another binds what that one bound.              *)

Extends(e, f) ==
  /\ \A i \in DOMAIN e.modules : i \in DOMAIN f.modules /\ f.modules[i] = e.modules[i]
  /\ \A a \in DOMAIN e.stubs :
       /\ a \in DOMAIN f.stubs /\ f.stubs[a] = e.stubs[a]
       /\ a \in DOMAIN f.hostImpl <=> a \in DOMAIN e.hostImpl
       /\ a \in DOMAIN e.hostImpl => f.hostImpl[a] = e.hostImpl[a]

(* A later module defines nothing for an earlier one.                        *)
LEMMA DefinersStay ==
  ASSUME NEW e, NEW f, Extends(e, f), NEW i \in Nat, 1 .. i - 1 \subseteq DOMAIN e.modules, NEW n
  PROVE  /\ Definers(f, n, i) = Definers(e, n, i)
         /\ \A j \in Definers(e, n, i) : Definition(f, n, j) = Definition(e, n, j)
         /\ \A v : FirstDefinition(e, n, i, v) <=> FirstDefinition(f, n, i, v)
<1>1. \A j \in 1 .. i - 1 : f.modules[j] = e.modules[j]
  BY DEF Extends
<1>2. Definers(f, n, i) = Definers(e, n, i)
  BY <1>1 DEF Definers
<1>3. \A j \in Definers(e, n, i) : Definition(f, n, j) = Definition(e, n, j)
  BY <1>1 DEF Definers, Definition
<1> QED
  BY <1>2, <1>3 DEF FirstDefinition

(* A reference stays bound to what it was.                                   *)
LEMMA BoundStays ==
  ASSUME NEW e, NEW f, Extends(e, f), NEW i \in Nat, 1 .. i - 1 \subseteq DOMAIN e.modules,
         NEW b, NEW s, NEW v, BoundTo(e, b, i, s, v)
  PROVE  BoundTo(f, b, i, s, v)
<1>1. /\ Definers(f, s.name, i) = Definers(e, s.name, i)
      /\ FirstDefinition(e, s.name, i, v) => FirstDefinition(f, s.name, i, v)
  BY DefinersStay
<1>2. v \in DOMAIN e.stubs => /\ v \in DOMAIN f.stubs /\ f.stubs[v] = e.stubs[v]
                              /\ v \in DOMAIN f.hostImpl <=> v \in DOMAIN e.hostImpl
                              /\ v \in DOMAIN e.hostImpl => f.hostImpl[v] = e.hostImpl[v]
  BY DEF Extends
<1>3. CASE ~s.undef
  BY <1>3 DEF BoundTo
<1>4. CASE s.undef /\ s.name \in HostNames
  BY <1>2, <1>4 DEF BoundTo
<1>5. CASE s.undef /\ s.name \notin HostNames /\ Definers(e, s.name, i) # {}
  BY <1>1, <1>5 DEF BoundTo
<1>6. CASE s.undef /\ s.name \notin HostNames /\ Definers(e, s.name, i) = {}
  BY <1>1, <1>2, <1>6 DEF BoundTo
<1> QED
  BY <1>3, <1>4, <1>5, <1>6

(* An image that has ns segments mapped, nr relocations done and np segments    *)
(* protected, as the i-th module.                                            *)
PatchedBy(img, n) == {img.relocs[k].offset : k \in 1 .. n}
PartRight(e, b, i, img, ns, nr, np) ==
  /\ \A k \in 1 .. nr : /\ b + img.relocs[k].offset \in DOMAIN e.mem
                        /\ RelocRight(e, b, i, img, img.relocs[k])
  /\ \A k \in 1 .. ns : \A a \in SegmentWords(0, img.segments[k]) \ PatchedBy(img, nr) :
       e.mem[b + a] = FileWord(img.segments[k], a)
  /\ \A k \in 1 .. np : \A p \in SegmentPages(b, img.segments[k]) : e.prot[p] = img.segments[k].flags

(* Its segments are mapped, in pages of their own.                             *)
Placed(e, b, img, ns) ==
  /\ \A k \in 1 .. ns : /\ SegmentWords(b, img.segments[k]) \subseteq DOMAIN e.mem
                        /\ SegmentPages(b, img.segments[k]) \subseteq DOMAIN e.prot
  /\ \A j, k \in 1 .. ns : j # k => SegmentPages(b, img.segments[j]) \cap SegmentPages(b, img.segments[k]) = {}

(* What was right of an image stays so if its memory is left alone.          *)
LEMMA PartStays ==
  ASSUME NEW e, NEW f, Extends(e, f), NEW i \in Nat, 1 .. i - 1 \subseteq DOMAIN e.modules,
         NEW img \in Images, NEW b \in Nat,
         NEW ns \in 0 .. Len(img.segments), NEW nr \in 0 .. Len(img.relocs), NEW np \in 0 .. Len(img.segments),
         Placed(e, b, img, ns), PartRight(e, b, i, img, ns, nr, np),
         \A a \in DOMAIN e.mem : a \in b .. Room(b, img) - 1 => a \in DOMAIN f.mem /\ f.mem[a] = e.mem[a],
         \A k \in 1 .. np : \A p \in SegmentPages(b, img.segments[k]) : f.prot[p] = e.prot[p]
  PROVE  PartRight(f, b, i, img, ns, nr, np)
<1>1. ASSUME NEW k \in 1 .. nr
      PROVE  /\ b + img.relocs[k].offset \in DOMAIN f.mem
             /\ RelocRight(f, b, i, img, img.relocs[k])
  <2>1. k \in DOMAIN img.relocs
    BY ImageShape
  <2>2. b + img.relocs[k].offset \in b .. Room(b, img) - 1
    BY <2>1, PatchInside
  <2>3. b + img.relocs[k].offset \in DOMAIN e.mem /\ RelocRight(e, b, i, img, img.relocs[k])
    BY DEF PartRight
  <2>4. /\ b + img.relocs[k].offset \in DOMAIN f.mem
        /\ f.mem[b + img.relocs[k].offset] = e.mem[b + img.relocs[k].offset]
    BY <2>2, <2>3
  <2> QED
    BY <2>3, <2>4, BoundStays DEF RelocRight
<1>2. ASSUME NEW k \in 1 .. ns, NEW a \in SegmentWords(0, img.segments[k]) \ PatchedBy(img, nr)
      PROVE  f.mem[b + a] = FileWord(img.segments[k], a)
  <2>1. k \in DOMAIN img.segments
    BY ImageShape
  <2>2. b + a \in SegmentWords(b, img.segments[k]) /\ b + a \in b .. Room(b, img) - 1
    <3>1. /\ LoadSpan(img) \in Nat /\ Room(b, img) \in Nat /\ b + LoadSpan(img) <= Room(b, img)
          /\ SegmentWords(b, img.segments[k]) \subseteq b .. b + LoadSpan(img) - 1
      BY <2>1, SegmentInside
    <3>2. b + a \in SegmentWords(b, img.segments[k])
      BY <2>1, SegmentInside
    <3>3. b + a \in b .. b + LoadSpan(img) - 1
      BY <3>1, <3>2
    <3> QED
      BY <3>1, <3>2, <3>3
  <2>3. b + a \in DOMAIN e.mem
    BY <2>2 DEF Placed
  <2> QED
    BY <2>2, <2>3 DEF PartRight
<1>3. \A k \in 1 .. np : \A p \in SegmentPages(b, img.segments[k]) : f.prot[p] = img.segments[k].flags
  BY DEF PartRight
<1> QED
  BY <1>1, <1>2, <1>3 DEF PartRight

-----------------------------------------------------------------------------
(* The invariant, of an emulator and the load under way in it.                *)

IsEmu(e) == e = [nextBase |-> e.nextBase, nextStub |-> e.nextStub, syms |-> e.syms, modules |-> e.modules,
                 mem |-> e.mem, prot |-> e.prot, stubs |-> e.stubs, hostImpl |-> e.hostImpl]

Sane(e) ==
  /\ IsEmu(e)
  /\ e.nextBase \in Nat /\ moduleBase <= e.nextBase /\ e.nextStub \in Nat /\ stubBase <= e.nextStub
  /\ DOMAIN e.stubs \subseteq stubBase .. e.nextStub - 1 /\ DOMAIN e.hostImpl \subseteq DOMAIN e.stubs
  /\ \A a \in DOMAIN e.mem : a \div PageWords \in DOMAIN e.prot

Module == [base : Nat, img : Images]

(* The loaded modules lie between moduleBase and limit, mapped, in pages of their own. *)
Modules(e, limit) ==
  /\ e.modules \in Seq(Module)
  /\ \A i \in DOMAIN e.modules :
       LET m == e.modules[i]
       IN moduleBase <= m.base /\ Room(m.base, m.img) <= limit /\ Placed(e, m.base, m.img, Len(m.img.segments))
  /\ \A i, j \in DOMAIN e.modules : i # j => PagesOf(e.modules[i]) \cap PagesOf(e.modules[j]) = {}

(* What a load has done.                                                      *)
Mapped(l) == IF l.step <= Len(l.img.segments) THEN l.step - 1 ELSE Len(l.img.segments)
Patches(l) ==
  IF l.step <= Len(l.img.segments) THEN 0
  ELSE IF l.step <= Len(l.img.segments) + Len(l.img.relocs) THEN l.step - Len(l.img.segments) - 1
  ELSE Len(l.img.relocs)
Protected(l) ==
  IF l.step <= Len(l.img.segments) + Len(l.img.relocs) THEN 0
  ELSE l.step - Len(l.img.segments) - Len(l.img.relocs) - 1

IsLoad(e, l) ==
  /\ l = [img |-> l.img, base |-> l.base, step |-> l.step]
  /\ l.img \in Images /\ l.base \in Nat /\ moduleBase <= l.base /\ e.nextBase = Room(l.base, l.img)
  /\ l.step \in 1 .. 2 * Len(l.img.segments) + Len(l.img.relocs) + 1

UnderWay(e, l) ==
  /\ IsLoad(e, l)
  /\ Placed(e, l.base, l.img, Mapped(l))
  /\ \A k \in 1 .. Mapped(l) : \A i \in DOMAIN e.modules :
       SegmentPages(l.base, l.img.segments[k]) \cap PagesOf(e.modules[i]) = {}

SymbolsRight(e) ==
  /\ DOMAIN e.syms = UNION {DOMAIN Exports(e.modules[j].img) : j \in DOMAIN e.modules}
  /\ \A x \in DOMAIN e.syms : FirstDefinition(e, x, Len(e.modules) + 1, e.syms[x])
StubsTrap(e) == \A a \in DOMAIN e.stubs : a \in DOMAIN e.mem => e.mem[a] = SvcRet
PartsRight(e) ==
  \A i \in DOMAIN e.modules :
    LET m == e.modules[i]
    IN PartRight(e, m.base, i, m.img, Len(m.img.segments), Len(m.img.relocs), Len(m.img.segments))

Contents(e, l) ==
  /\ StubsTrap(e) /\ PartsRight(e)
  /\ l.step # 0 => PartRight(e, l.base, Len(e.modules) + 1, l.img, Mapped(l), Patches(l), Protected(l))

Loaded(e, l) ==
  /\ Sane(e)
  /\ Modules(e, IF l.step = 0 THEN e.nextBase ELSE l.base)
  /\ l = NoLoad \/ UnderWay(e, l)
  /\ SymbolsRight(e)
  /\ Apart(e) => Contents(e, l)

LinkInv == Loaded(emu, load)

-----------------------------------------------------------------------------
(* What is kept when an emulator e becomes f.                                *)

LEMMA ModuleShape ==
  ASSUME NEW e, e.modules \in Seq(Module)
  PROVE  /\ Len(e.modules) \in Nat /\ DOMAIN e.modules = 1 .. Len(e.modules)
         /\ \A i \in DOMAIN e.modules :
              /\ e.modules[i].base \in Nat /\ e.modules[i].img \in Images
              /\ i \in Nat /\ 1 .. i - 1 \subseteq DOMAIN e.modules
<1>1. Len(e.modules) \in Nat /\ DOMAIN e.modules = 1 .. Len(e.modules)
  OBVIOUS
<1>2. \A i \in 1 .. Len(e.modules) : e.modules[i] \in Module
  OBVIOUS
<1>3. \A i \in 1 .. Len(e.modules) : e.modules[i].base \in Nat /\ e.modules[i].img \in Images
  BY <1>2 DEF Module
<1> QED
  BY <1>1, <1>3

(* What is mapped stays mapped.                                              *)
LEMMA PlacedStays ==
  ASSUME NEW e, NEW f, DOMAIN e.mem \subseteq DOMAIN f.mem, DOMAIN e.prot \subseteq DOMAIN f.prot,
         NEW b, NEW img, NEW ns, Placed(e, b, img, ns)
  PROVE  Placed(f, b, img, ns)
BY DEF Placed

(* The modules stay where they are when more is mapped.                      *)
LEMMA ModulesStay ==
  ASSUME NEW e, NEW f, DOMAIN e.mem \subseteq DOMAIN f.mem, DOMAIN e.prot \subseteq DOMAIN f.prot,
         f.modules = e.modules, NEW limit \in Nat, NEW more \in Nat, limit <= more, Modules(e, limit)
  PROVE  Modules(f, more)
<1>1. ASSUME NEW i \in DOMAIN e.modules
      PROVE  LET m == e.modules[i]
             IN moduleBase <= m.base /\ Room(m.base, m.img) <= more /\ Placed(f, m.base, m.img, Len(m.img.segments))
  <2> DEFINE m == e.modules[i]
  <2>1. moduleBase <= m.base /\ Room(m.base, m.img) <= limit /\ Placed(e, m.base, m.img, Len(m.img.segments))
    BY DEF Modules
  <2>2. m.base \in Nat /\ m.img \in Images
    BY ModuleShape DEF Modules
  <2>3. Room(m.base, m.img) \in Nat
    BY <2>2, SegmentInside
  <2>4. Placed(f, m.base, m.img, Len(m.img.segments))
    BY <2>1, PlacedStays
  <2> QED
    BY <2>1, <2>3, <2>4
<1> QED
  BY <1>1 DEF Modules

(* The symbol table speaks of the modules only.                              *)
LEMMA SymbolsStay ==
  ASSUME NEW e, NEW f, f.modules = e.modules, f.syms = e.syms, SymbolsRight(e)
  PROVE  SymbolsRight(f)
<1>1. \A x, v : FirstDefinition(e, x, Len(e.modules) + 1, v) <=> FirstDefinition(f, x, Len(f.modules) + 1, v)
  BY DEF FirstDefinition, Definers, Definition
<1> QED
  BY <1>1 DEF SymbolsRight

(* What is loaded is not disturbed below limit.                                *)
LEMMA PartsStay ==
  ASSUME NEW e, NEW f, Extends(e, f), f.modules = e.modules, NEW limit \in Nat, Modules(e, limit), PartsRight(e),
         \A a \in DOMAIN e.mem : a \in moduleBase .. limit - 1 => a \in DOMAIN f.mem /\ f.mem[a] = e.mem[a],
         \A i \in DOMAIN e.modules : \A p \in PagesOf(e.modules[i]) : f.prot[p] = e.prot[p]
  PROVE  PartsRight(f)
<1>1. ASSUME NEW i \in DOMAIN e.modules
      PROVE  LET m == e.modules[i]
             IN PartRight(f, m.base, i, m.img, Len(m.img.segments), Len(m.img.relocs), Len(m.img.segments))
  <2> DEFINE m == e.modules[i]
             n == Len(m.img.segments)
             r == Len(m.img.relocs)
  <2>1. /\ moduleBase <= m.base /\ Room(m.base, m.img) <= limit /\ Placed(e, m.base, m.img, n)
        /\ m.base \in Nat /\ m.img \in Images
        /\ i \in Nat /\ 1 .. i - 1 \subseteq DOMAIN e.modules
    <3>1. m.base \in Nat /\ m.img \in Images /\ i \in Nat /\ 1 .. i - 1 \subseteq DOMAIN e.modules
      BY ModuleShape DEF Modules
    <3> QED
      BY <3>1 DEF Modules
  <2>2. Room(m.base, m.img) \in Nat
    BY <2>1, SegmentInside
  <2>3. \A a \in DOMAIN e.mem : a \in m.base .. Room(m.base, m.img) - 1 => a \in DOMAIN f.mem /\ f.mem[a] = e.mem[a]
    BY <2>1, <2>2, AreasAssumption
  <2>4. \A k \in 1 .. n : \A p \in SegmentPages(m.base, m.img.segments[k]) : f.prot[p] = e.prot[p]
    <3>1. DOMAIN m.img.segments = 1 .. n
      BY <2>1, ImageShape
    <3> QED
      BY <3>1 DEF PagesOf
  <2>5. PartRight(e, m.base, i, m.img, n, r, n)
    BY DEF PartsRight
  <2>6. n \in 0 .. n /\ r \in 0 .. r
    BY <2>1, ImageShape
  <2> HIDE DEF m
  <2> QED
    BY <2>1, <2>3, <2>4, <2>5, <2>6, PartStays DEF m
<1> QED
  BY <1>1 DEF PartsRight

(* Giving up a load leaves what was loaded before.                             *)
LEMMA GivenUp ==
  ASSUME NEW e, NEW l, Loaded(e, l)
  PROVE  Loaded(e, NoLoad)
<1>1. CASE l = NoLoad
  BY <1>1
<1>2. CASE l # NoLoad
  <2>1. IsLoad(e, l)
    BY <1>2 DEF Loaded, UnderWay
  <2>2. l.step # 0 /\ l.base \in Nat /\ e.nextBase = Room(l.base, l.img) /\ l.img \in Images
    BY <2>1 DEF IsLoad
  <2>3. e.nextBase \in Nat /\ l.base <= e.nextBase
    BY <2>2, SegmentInside
  <2>4. Modules(e, l.base)
    BY <2>2 DEF Loaded
  <2>5. Modules(e, e.nextBase)
    BY <2>2, <2>3, <2>4, ModulesStay
  <2>6. NoLoad.step = 0
    BY DEF NoLoad
  <2> QED
    BY <2>5, <2>6 DEF Loaded, Contents
<1> QED
  BY <1>1, <1>2

-----------------------------------------------------------------------------
(* The steps of a load.                                                      *)

Step(l) == [l EXCEPT !.step = @ + 1]

(* How far each of Apply's loops has come, before and after a step.            *)
LEMMA Progress ==
  ASSUME NEW e, NEW l, IsLoad(e, l)
  PROVE  LET s == Len(l.img.segments)
             r == Len(l.img.relocs)
         IN /\ s \in Nat /\ r \in Nat /\ l.step \in Nat /\ l.step # 0
            /\ Mapped(l) \in 0 .. s /\ Patches(l) \in 0 .. r /\ Protected(l) \in 0 .. s
            /\ l.step = 1 => Mapped(l) = 0 /\ Patches(l) = 0 /\ Protected(l) = 0
            /\ l.step <= s => /\ Mapped(l) = l.step - 1 /\ Patches(l) = 0 /\ Protected(l) = 0
                              /\ Mapped(Step(l)) = l.step /\ Patches(Step(l)) = 0 /\ Protected(Step(l)) = 0
            /\ l.step > s /\ l.step <= s + r =>
                 /\ Mapped(l) = s /\ Patches(l) = l.step - s - 1 /\ Protected(l) = 0
                 /\ Mapped(Step(l)) = s /\ Patches(Step(l)) = l.step - s /\ Protected(Step(l)) = 0
            /\ l.step > s + r /\ l.step <= 2 * s + r =>
                 /\ Mapped(l) = s /\ Patches(l) = r /\ Protected(l) = l.step - s - r - 1
                 /\ Mapped(Step(l)) = s /\ Patches(Step(l)) = r /\ Protected(Step(l)) = l.step - s - r
            /\ l.step = 2 * s + r + 1 => Mapped(l) = s /\ Patches(l) = r /\ Protected(l) = s
            /\ l.step <= 2 * s + r => IsLoad(e, Step(l))
            /\ Step(l).img = l.img /\ Step(l).base = l.base /\ Step(l).step = l.step + 1
<1> DEFINE s == Len(l.img.segments)
           r == Len(l.img.relocs)
           n == l.step
           m == Step(l)
<1>1. s \in Nat /\ r \in Nat
  BY ImageShape DEF IsLoad
<1>2. n \in 1 .. 2 * s + r + 1
  BY DEF IsLoad
<1>3. m = [img |-> l.img, base |-> l.base, step |-> n + 1]
  BY DEF IsLoad, Step
<1>4. m.img = l.img /\ m.base = l.base /\ m.step = n + 1
  BY <1>3
<1> HIDE DEF m
<1>5. /\ Mapped(l) = IF n <= s THEN n - 1 ELSE s
      /\ Patches(l) = IF n <= s THEN 0 ELSE IF n <= s + r THEN n - s - 1 ELSE r
      /\ Protected(l) = IF n <= s + r THEN 0 ELSE n - s - r - 1
  BY DEF Mapped, Patches, Protected
<1>6. /\ Mapped(m) = IF n + 1 <= s THEN n + 1 - 1 ELSE s
      /\ Patches(m) = IF n + 1 <= s THEN 0 ELSE IF n + 1 <= s + r THEN n + 1 - s - 1 ELSE r
      /\ Protected(m) = IF n + 1 <= s + r THEN 0 ELSE n + 1 - s - r - 1
  <2>1. Len(m.img.segments) = s /\ Len(m.img.relocs) = r /\ m.step = n + 1
    BY <1>4
  <2> HIDE DEF s, r, n
  <2>2. Mapped(m) = IF n + 1 <= s THEN n + 1 - 1 ELSE s
    BY <1>1, <1>2, <2>1 DEF Mapped
  <2>3. Patches(m) = IF n + 1 <= s THEN 0 ELSE IF n + 1 <= s + r THEN n + 1 - s - 1 ELSE r
    BY <1>1, <1>2, <2>1 DEF Patches
  <2>4. Protected(m) = IF n + 1 <= s + r THEN 0 ELSE n + 1 - s - r - 1
    BY <1>1, <1>2, <2>1 DEF Protected
  <2> QED
    BY <2>2, <2>3, <2>4
<1>7. n <= 2 * s + r => IsLoad(e, m)
  <2>1. n <= 2 * s + r => n + 1 \in 1 .. 2 * s + r + 1
    <3> HIDE DEF s, r, n
    <3> QED
      BY <1>1, <1>2
  <2> QED
    BY <1>3, <1>4, <2>1 DEF IsLoad
<1> HIDE DEF s, r, n, m
<1>8. Mapped(l) \in 0 .. s /\ Patches(l) \in 0 .. r /\ Protected(l) \in 0 .. s
  BY <1>1, <1>2, <1>5
<1>9. n = 1 => Mapped(l) = 0 /\ Patches(l) = 0 /\ Protected(l) = 0
  BY <1>1, <1>2, <1>5
<1>10. n <= s => /\ Mapped(l) = n - 1 /\ Patches(l) = 0 /\ Protected(l) = 0
                 /\ Mapped(m) = n /\ Patches(m) = 0 /\ Protected(m) = 0
  BY <1>1, <1>2, <1>5, <1>6
<1>11. n > s /\ n <= s + r => /\ Mapped(l) = s /\ Patches(l) = n - s - 1 /\ Protected(l) = 0
                             /\ Mapped(m) = s /\ Patches(m) = n - s /\ Protected(m) = 0
  BY <1>1, <1>2, <1>5, <1>6
<1>12. n > s + r /\ n <= 2 * s + r => /\ Mapped(l) = s /\ Patches(l) = r /\ Protected(l) = n - s - r - 1
                                     /\ Mapped(m) = s /\ Patches(m) = r /\ Protected(m) = n - s - r
  BY <1>1, <1>2, <1>5, <1>6
<1>13. n = 2 * s + r + 1 => Mapped(l) = s /\ Patches(l) = r /\ Protected(l) = s
  BY <1>1, <1>2, <1>5
<1>14. n \in Nat /\ n # 0
  BY <1>1, <1>2
<1> QED
  BY <1>1, <1>4, <1>7, <1>8, <1>9, <1>10, <1>11, <1>12, <1>13, <1>14 DEF s, r, n, m

(* A load takes its base and the room behind it.                             *)
LEMMA Begins ==
  ASSUME NEW e, Loaded(e, NoLoad), NEW img \in Images, NEW f, NEW l,
         f = [e EXCEPT !.nextBase = @ + LoadSpan(img) + GapPages * PageWords],
         l = [img |-> img, base |-> e.nextBase, step |-> 1]
  PROVE  Loaded(f, l)
<1>1. /\ f.nextBase = Room(e.nextBase, img) /\ f.nextStub = e.nextStub /\ f.syms = e.syms
      /\ f.modules = e.modules /\ f.mem = e.mem /\ f.prot = e.prot /\ f.stubs = e.stubs
      /\ f.hostImpl = e.hostImpl /\ IsEmu(f)
  BY DEF Loaded, Sane, IsEmu, Room
<1>2. e.nextBase \in Nat /\ moduleBase <= e.nextBase /\ Sane(e)
  BY DEF Loaded, Sane
<1>3. f.nextBase \in Nat /\ e.nextBase <= f.nextBase
  BY <1>1, <1>2, SegmentInside
<1>4. l.img = img /\ l.base = e.nextBase /\ l.step = 1
  OBVIOUS
<1>5. Sane(f)
  BY <1>1, <1>2, <1>3, AreasAssumption DEF Sane
<1>6. Modules(f, l.base)
  <2>1. Modules(e, e.nextBase)
    BY DEF Loaded, NoLoad
  <2>2. /\ DOMAIN e.mem \subseteq DOMAIN f.mem /\ DOMAIN e.prot \subseteq DOMAIN f.prot
        /\ f.modules = e.modules /\ e.nextBase \in Nat /\ e.nextBase <= e.nextBase
    BY <1>1, <1>2
  <2>3. Modules(f, e.nextBase)
    BY <2>1, <2>2, ModulesStay
  <2> QED
    BY <1>4, <2>3
<1>7. IsLoad(f, l)
  <2>1. 1 \in 1 .. 2 * Len(img.segments) + Len(img.relocs) + 1
    <3> DEFINE n == Len(img.segments)
               r == Len(img.relocs)
    <3>1. n \in Nat /\ r \in Nat
      BY ImageShape
    <3> HIDE DEF n, r
    <3>2. 1 \in 1 .. 2 * n + r + 1
      BY <3>1
    <3> QED
      BY <3>2 DEF n, r
  <2> QED
    BY <1>1, <1>2, <1>4, <2>1 DEF IsLoad
<1>8. Mapped(l) = 0 /\ Patches(l) = 0 /\ Protected(l) = 0
  BY <1>4, <1>7, Progress
<1>9. UnderWay(f, l)
  BY <1>7, <1>8 DEF UnderWay, Placed
<1>11. SymbolsRight(f)
  BY <1>1, SymbolsStay DEF Loaded
<1>10. ASSUME Apart(f)
       PROVE  Contents(f, l)
  <2>1. Apart(e)
    BY <1>1, <1>2, <1>3, <1>10, AreasAssumption DEF Apart
  <2>2. Contents(e, NoLoad)
    BY <2>1 DEF Loaded
  <2>4. StubsTrap(f)
    BY <1>1, <2>2 DEF Contents, StubsTrap
  <2>5. PartsRight(f)
    <3>1. Extends(e, f)
      BY <1>1 DEF Extends
    <3>2. Modules(e, e.nextBase)
      BY DEF Loaded, NoLoad
    <3> QED
      BY <1>1, <1>2, <2>2, <3>1, <3>2, PartsStay DEF Contents
  <2>6. PartRight(f, l.base, Len(f.modules) + 1, l.img, 0, 0, 0)
    BY DEF PartRight
  <2> QED
    BY <1>8, <2>4, <2>5, <2>6 DEF Contents
<1> QED
  BY <1>4, <1>5, <1>6, <1>9, <1>10, <1>11 DEF Loaded

(* A segment is mapped into pages nobody had, so every word mapped before stays. *)
LEMMA Maps ==
  ASSUME NEW e, NEW l, Loaded(e, l), l.step # 0, l.step <= Len(l.img.segments), NEW f,
         f = mapSegment(e, l.base, l.img.segments[l.step]),
         SegmentPages(l.base, l.img.segments[l.step]) \cap DOMAIN e.prot = {}
  PROVE  Loaded(f, Step(l))
<1> DEFINE n == l.step
           s == l.img.segments[n]
           W == SegmentWords(l.base, s)
           P == SegmentPages(l.base, s)
           m == Step(l)
<1>1. Sane(e) /\ Modules(e, l.base) /\ UnderWay(e, l) /\ IsLoad(e, l)
  <2>1. l # NoLoad
    BY DEF NoLoad
  <2>2. UnderWay(e, l)
    BY <2>1 DEF Loaded
  <2> QED
    BY <2>2 DEF Loaded, UnderWay
<1>2. /\ f.nextBase = e.nextBase /\ f.nextStub = e.nextStub /\ f.syms = e.syms /\ f.modules = e.modules
      /\ f.stubs = e.stubs /\ f.hostImpl = e.hostImpl /\ IsEmu(f)
      /\ f.mem = Over([a \in W |-> IF a - l.base \in DOMAIN s.file THEN s.file[a - l.base] ELSE 0], e.mem)
      /\ f.prot = Over([p \in P |-> {"R", "W", "X"}], e.prot)
  BY <1>1 DEF Sane, IsEmu, mapSegment
<1>3. /\ l.img \in Images /\ l.base \in Nat /\ moduleBase <= l.base /\ e.nextBase = Room(l.base, l.img)
      /\ n \in DOMAIN l.img.segments /\ n \in 1 .. Len(l.img.segments) /\ Len(l.img.segments) \in Nat
      /\ Len(l.img.relocs) \in Nat
  BY <1>1, ImageShape DEF IsLoad
<1>4. /\ Mapped(l) = n - 1 /\ Patches(l) = 0 /\ Protected(l) = 0
      /\ Mapped(m) = n /\ Patches(m) = 0 /\ Protected(m) = 0
      /\ m.img = l.img /\ m.base = l.base /\ m.step = n + 1
      /\ n <= 2 * Len(l.img.segments) + Len(l.img.relocs) => IsLoad(e, m)
  BY <1>1, Progress
<1> HIDE DEF m, W, P
<1>5. P = {a \div PageWords : a \in W}
  BY DEF P, W, SegmentPages
<1>6. P \cap DOMAIN e.prot = {}
  BY DEF P
<1>7. DOMAIN f.mem = W \cup DOMAIN e.mem /\ DOMAIN f.prot = P \cup DOMAIN e.prot
  BY <1>2 DEF Over
<1>8. \A a \in DOMAIN e.mem : a \notin W
  <2>1. \A a \in DOMAIN e.mem : a \div PageWords \in DOMAIN e.prot
    BY <1>1 DEF Sane
  <2> QED
    BY <1>5, <1>6, <2>1
<1>9. \A a \in DOMAIN e.mem : a \in DOMAIN f.mem /\ f.mem[a] = e.mem[a]
  BY <1>2, <1>7, <1>8 DEF Over
<1>10. \A p \in DOMAIN e.prot : p \in DOMAIN f.prot /\ f.prot[p] = e.prot[p]
  BY <1>2, <1>6, <1>7 DEF Over
<1>11. Sane(f)
  <2>1. \A a \in DOMAIN f.mem : a \div PageWords \in DOMAIN f.prot
    BY <1>1, <1>5, <1>7 DEF Sane
  <2> QED
    BY <1>1, <1>2, <2>1 DEF Sane
<1>12. Modules(f, l.base)
  <2>1. DOMAIN e.mem \subseteq DOMAIN f.mem /\ DOMAIN e.prot \subseteq DOMAIN f.prot /\ l.base <= l.base
    BY <1>3, <1>7
  <2> QED
    BY <1>1, <1>2, <1>3, <2>1, ModulesStay
<1>13. \A i \in DOMAIN e.modules : PagesOf(e.modules[i]) \subseteq DOMAIN e.prot
  <2>1. ASSUME NEW i \in DOMAIN e.modules, NEW k \in DOMAIN e.modules[i].img.segments
        PROVE  SegmentPages(e.modules[i].base, e.modules[i].img.segments[k]) \subseteq DOMAIN e.prot
    <3>1. e.modules[i].img \in Images
      BY <1>1, ModuleShape DEF Modules
    <3>2. k \in 1 .. Len(e.modules[i].img.segments)
      BY <3>1, ImageShape
    <3>3. Placed(e, e.modules[i].base, e.modules[i].img, Len(e.modules[i].img.segments))
      BY <1>1 DEF Modules
    <3> QED
      BY <3>2, <3>3 DEF Placed
  <2> QED
    BY <2>1 DEF PagesOf
<1>14. UnderWay(f, m)
  <2>1. IsLoad(f, m)
    <3>1. n <= 2 * Len(l.img.segments) + Len(l.img.relocs)
      <4> DEFINE S == Len(l.img.segments)
                 R == Len(l.img.relocs)
      <4>1. n \in 1 .. S /\ S \in Nat /\ R \in Nat
        BY <1>3
      <4> HIDE DEF S, R, n
      <4>2. n <= 2 * S + R
        BY <4>1
      <4> QED
        BY <4>2 DEF S, R
    <3> QED
      BY <1>2, <1>4, <3>1 DEF IsLoad
  <2>2. Placed(e, l.base, l.img, n - 1)
    BY <1>1, <1>4 DEF UnderWay
  <2>3. ASSUME NEW k \in 1 .. n
        PROVE  /\ SegmentWords(l.base, l.img.segments[k]) \subseteq DOMAIN f.mem
               /\ SegmentPages(l.base, l.img.segments[k]) \subseteq DOMAIN f.prot
               /\ k # n => SegmentPages(l.base, l.img.segments[k]) \cap P = {}
    <3>1. CASE k = n
      BY <3>1, <1>7 DEF W, P
    <3>2. CASE k # n
      <4>1. k \in 1 .. n - 1
        BY <3>2, <1>3
      <4>2. /\ SegmentWords(l.base, l.img.segments[k]) \subseteq DOMAIN e.mem
            /\ SegmentPages(l.base, l.img.segments[k]) \subseteq DOMAIN e.prot
        BY <2>2, <4>1 DEF Placed
      <4> QED
        BY <1>6, <1>7, <4>2
    <3> QED
      BY <3>1, <3>2
  <2>4. ASSUME NEW j \in 1 .. n, NEW k \in 1 .. n, j # k
        PROVE  SegmentPages(l.base, l.img.segments[j]) \cap SegmentPages(l.base, l.img.segments[k]) = {}
    <3>1. CASE j = n
      BY <2>3, <2>4, <3>1 DEF P
    <3>2. CASE k = n
      BY <2>3, <2>4, <3>2 DEF P
    <3>3. CASE j # n /\ k # n
      <4>1. j \in 1 .. n - 1 /\ k \in 1 .. n - 1
        BY <3>3, <1>3
      <4> QED
        BY <2>2, <2>4, <4>1 DEF Placed
    <3> QED
      BY <3>1, <3>2, <3>3
  <2>5. ASSUME NEW k \in 1 .. n, NEW i \in DOMAIN e.modules
        PROVE  SegmentPages(l.base, l.img.segments[k]) \cap PagesOf(e.modules[i]) = {}
    <3>1. CASE k = n
      BY <1>6, <1>13, <3>1 DEF P
    <3>2. CASE k # n
      <4>1. k \in 1 .. Mapped(l)
        BY <3>2, <1>3, <1>4
      <4> QED
        BY <1>1, <4>1 DEF UnderWay
    <3> QED
      BY <3>1, <3>2
  <2>6. Placed(f, l.base, l.img, n)
    BY <2>3, <2>4 DEF Placed
  <2> QED
    BY <1>2, <1>4, <2>1, <2>5, <2>6 DEF UnderWay
<1>16. SymbolsRight(f)
  BY <1>2, SymbolsStay DEF Loaded
<1>15. ASSUME Apart(f)
       PROVE  Contents(f, m)
  <2>1. Apart(e) /\ Contents(e, l)
    BY <1>2, <1>15 DEF Apart, Loaded
  <2>3. Extends(e, f)
    BY <1>2 DEF Extends
  <2>4. PartsRight(f)
    <3>1. \A i \in DOMAIN e.modules : \A p \in PagesOf(e.modules[i]) : f.prot[p] = e.prot[p]
      BY <1>10, <1>13
    <3>2. PartsRight(e)
      BY <2>1 DEF Contents
    <3>3. \A a \in DOMAIN e.mem : a \in moduleBase .. l.base - 1 => a \in DOMAIN f.mem /\ f.mem[a] = e.mem[a]
      BY <1>9
    <3>4. Modules(e, l.base) /\ f.modules = e.modules /\ l.base \in Nat
      BY <1>1, <1>2, <1>3
    <3> QED
      BY <2>3, <3>1, <3>2, <3>3, <3>4, PartsStay
  <2>5. StubsTrap(f)
    <3> SUFFICES ASSUME NEW a \in DOMAIN f.stubs, a \in DOMAIN f.mem
                 PROVE  f.mem[a] = SvcRet
      BY DEF StubsTrap
    <3>1. a \in stubBase .. e.nextStub - 1
      BY <1>1, <1>2 DEF Sane
    <3>2. a \notin W
      <4>1. /\ W \subseteq l.base .. l.base + LoadSpan(l.img) - 1 /\ l.base + LoadSpan(l.img) <= e.nextBase
            /\ LoadSpan(l.img) \in Nat
        BY <1>3, SegmentInside DEF W
      <4>2. e.nextBase \in Nat /\ e.nextStub \in Nat
        BY <1>1 DEF Sane
      <4> QED
        BY <1>3, <2>1, <3>1, <4>1, <4>2, AreasAssumption DEF Apart
    <3>3. a \in DOMAIN e.mem /\ a \in DOMAIN e.stubs
      BY <1>2, <1>7, <3>2
    <3> QED
      BY <1>9, <2>1, <3>3 DEF Contents, StubsTrap
  <2>6. PartRight(f, l.base, Len(f.modules) + 1, l.img, n, 0, 0)
    <3>1. PartRight(e, l.base, Len(e.modules) + 1, l.img, n - 1, 0, 0)
      BY <1>4, <2>1 DEF Contents
    <3>2. ASSUME NEW k \in 1 .. n, NEW a \in SegmentWords(0, l.img.segments[k]) \ PatchedBy(l.img, 0)
          PROVE  f.mem[l.base + a] = FileWord(l.img.segments[k], a)
      <4>1. a \in Nat /\ l.base + a \in SegmentWords(l.base, l.img.segments[k])
        <5>1. k \in DOMAIN l.img.segments
          BY <1>3, ImageShape
        <5> QED
          BY <1>3, <5>1, SegmentInside
      <4>2. CASE k = n
        <5>1. l.base + a \in W /\ (l.base + a) - l.base = a
          BY <1>3, <4>1, <4>2 DEF W
        <5>2. f.mem[l.base + a] = IF (l.base + a) - l.base \in DOMAIN s.file THEN s.file[(l.base + a) - l.base] ELSE 0
          <6> DEFINE g == [x \in W |-> IF x - l.base \in DOMAIN s.file THEN s.file[x - l.base] ELSE 0]
                     w == l.base + a
          <6>1. g[w] = IF w - l.base \in DOMAIN s.file THEN s.file[w - l.base] ELSE 0
            BY <5>1
          <6>2. w \in W /\ DOMAIN g = W /\ f.mem = Over(g, e.mem)
            BY <1>2, <5>1
          <6> HIDE DEF g, w
          <6>3. f.mem[w] = g[w]
            BY <6>2 DEF Over
          <6> QED
            BY <6>1, <6>3 DEF w
        <5> QED
          BY <4>2, <5>1, <5>2 DEF FileWord
      <4>3. CASE k # n
        <5>1. k \in 1 .. n - 1
          BY <4>3, <1>3
        <5>2. Placed(e, l.base, l.img, n - 1)
          BY <1>1, <1>4 DEF UnderWay
        <5>3. l.base + a \in DOMAIN e.mem
          BY <4>1, <5>1, <5>2 DEF Placed
        <5> QED
          BY <1>9, <3>1, <5>1, <5>3 DEF PartRight
      <4> QED
        BY <4>2, <4>3
    <3> QED
      BY <3>2 DEF PartRight
  <2> QED
    BY <1>4, <2>4, <2>5, <2>6 DEF Contents
<1> QED
  <2>1. m.step # 0
    BY <1>3, <1>4
  <2> QED
    BY <1>4, <1>11, <1>12, <1>14, <1>15, <1>16, <2>1 DEF Loaded, m

-----------------------------------------------------------------------------
(* Symbols.  Looking one up makes at most one stub.                           *)

Grown(e, f) ==
  /\ IsEmu(f) /\ f.nextBase = e.nextBase /\ f.syms = e.syms /\ f.modules = e.modules /\ f.prot = e.prot
  /\ DOMAIN f.mem = DOMAIN e.mem /\ Extends(e, f)
  /\ \/ f = e
     \/ /\ f.nextStub = e.nextStub + 1
        /\ DOMAIN f.stubs = DOMAIN e.stubs \cup {e.nextStub}
        /\ DOMAIN f.hostImpl \subseteq DOMAIN e.hostImpl \cup {e.nextStub}
        /\ \A a \in DOMAIN e.mem : f.mem[a] = IF a = e.nextStub THEN SvcRet ELSE e.mem[a]

(* A lookup that makes no stub.                                              *)
LEMMA StaysSame ==
  ASSUME NEW e, Sane(e)
  PROVE  Grown(e, e)
BY DEF Grown, Extends, Sane

hostStub(e, name) ==
  [makeStub(e, name) EXCEPT !.hostImpl = Over([x \in {e.nextStub} |-> name], @)]

LEMMA StubGrows ==
  ASSUME NEW e, Sane(e), NEW name
  PROVE  LET f == makeStub(e, name)
             h == hostStub(e, name)
         IN /\ Grown(e, f) /\ f.stubs[e.nextStub] = name /\ e.nextStub \notin DOMAIN f.hostImpl
            /\ Grown(e, h) /\ h.stubs[e.nextStub] = name
            /\ e.nextStub \in DOMAIN h.hostImpl /\ h.hostImpl[e.nextStub] = name
            /\ e.nextStub \in DOMAIN f.stubs /\ e.nextStub \in DOMAIN h.stubs
<1> DEFINE f == makeStub(e, name)
           h == hostStub(e, name)
           a == e.nextStub
<1>1. a \in Nat /\ a \notin DOMAIN e.stubs /\ a \notin DOMAIN e.hostImpl
  <2>1. a \in Nat /\ stubBase \in Nat
    BY AreasAssumption DEF Sane
  <2>2. a \notin stubBase .. a - 1
    BY <2>1
  <2> QED
    BY <2>1, <2>2 DEF Sane
<1>2. /\ f.nextBase = e.nextBase /\ f.syms = e.syms /\ f.modules = e.modules /\ f.prot = e.prot
      /\ f.nextStub = a + 1 /\ f.hostImpl = e.hostImpl /\ f.stubs = Over([x \in {a} |-> name], e.stubs)
      /\ f.mem = IF a \in DOMAIN e.mem THEN [e.mem EXCEPT ![a] = SvcRet] ELSE e.mem
      /\ IsEmu(f)
  <2>1. f = [e EXCEPT !.nextStub = a + 1, !.mem = IF a \in DOMAIN e.mem THEN [e.mem EXCEPT ![a] = SvcRet] ELSE e.mem,
                      !.stubs = Over([x \in {a} |-> name], @)]
    BY DEF makeStub
  <2> HIDE DEF f
  <2> QED
    BY <2>1 DEF Sane, IsEmu
<1>3. /\ h.nextBase = e.nextBase /\ h.syms = e.syms /\ h.modules = e.modules /\ h.prot = e.prot
      /\ h.nextStub = a + 1 /\ h.stubs = f.stubs /\ h.mem = f.mem
      /\ h.hostImpl = Over([x \in {a} |-> name], e.hostImpl) /\ IsEmu(h)
  <2>1. h = [f EXCEPT !.hostImpl = Over([x \in {a} |-> name], @)]
    BY DEF hostStub
  <2> HIDE DEF f, h
  <2> QED
    BY <1>2, <2>1 DEF IsEmu
<1> HIDE DEF a, f, h
<1>4. /\ DOMAIN f.mem = DOMAIN e.mem
      /\ \A x \in DOMAIN e.mem : f.mem[x] = IF x = a THEN SvcRet ELSE e.mem[x]
  BY <1>2
<1>5. /\ DOMAIN f.stubs = DOMAIN e.stubs \cup {a} /\ f.stubs[a] = name
      /\ \A x \in DOMAIN e.stubs : f.stubs[x] = e.stubs[x]
  BY <1>1, <1>2 DEF Over
<1>6. /\ DOMAIN h.hostImpl = DOMAIN e.hostImpl \cup {a} /\ h.hostImpl[a] = name
      /\ \A x \in DOMAIN e.hostImpl : h.hostImpl[x] = e.hostImpl[x]
  BY <1>1, <1>3 DEF Over
<1>7. Extends(e, f)
  BY <1>2, <1>5 DEF Extends
<1>8. Extends(e, h)
  BY <1>1, <1>3, <1>5, <1>6 DEF Extends
<1>9. Grown(e, f)
  BY <1>2, <1>4, <1>5, <1>7 DEF Grown, a
<1>10. Grown(e, h)
  BY <1>3, <1>4, <1>5, <1>6, <1>8 DEF Grown, a
<1> QED
  BY <1>1, <1>2, <1>3, <1>5, <1>6, <1>9, <1>10 DEF a, f, h

(* What symValue answers is what the symbol stands for.                        *)
LEMMA Resolves ==
  ASSUME NEW e, Sane(e), SymbolsRight(e), e.modules \in Seq(Module), NEW name, NEW weak \in BOOLEAN,
         NEW v, v = resolveSymbol(e, name, weak)
  PROVE  /\ Grown(e, v.e) /\ v.ok \in BOOLEAN /\ v.val \in Int
         /\ ~v.ok => weak /\ v.e = e /\ v.val = 0
         /\ \A b, s : s.undef /\ s.name = name /\ (weak <=> s.bind = "WEAK") =>
                BoundTo(v.e, b, Len(e.modules) + 1, s, v.val)
<1> DEFINE f == makeStub(e, name)
           h == hostStub(e, name)
           i == Len(e.modules) + 1
<1>1. e.nextStub \in Int
  BY DEF Sane
<1>2. /\ Grown(e, f) /\ f.stubs[e.nextStub] = name /\ e.nextStub \notin DOMAIN f.hostImpl
      /\ Grown(e, h) /\ h.stubs[e.nextStub] = name
      /\ e.nextStub \in DOMAIN h.hostImpl /\ h.hostImpl[e.nextStub] = name
      /\ e.nextStub \in DOMAIN f.stubs /\ e.nextStub \in DOMAIN h.stubs
  BY StubGrows
<1>3. i \in Nat /\ DOMAIN e.modules = 1 .. i - 1 /\ i - 1 \in Nat
  BY ModuleShape
<1>4. name \in DOMAIN e.syms <=> Definers(e, name, i) # {}
  BY <1>3 DEF SymbolsRight, Definers
<1> HIDE DEF f, h, i
<1>5. CASE name \in HostNames
  <2>1. v = Bound(h, e.nextStub)
    BY <1>5 DEF resolveSymbol, hostStub, h
  <2>2. v.e = h /\ v.val = e.nextStub /\ v.ok
    BY <2>1 DEF Bound
  <2> QED
    BY <1>1, <1>2, <1>5, <2>2 DEF BoundTo
<1>6. CASE name \notin HostNames /\ name \in DOMAIN e.syms
  <2>1. v = Bound(e, e.syms[name])
    BY <1>6 DEF resolveSymbol
  <2>2. v.e = e /\ v.val = e.syms[name] /\ v.ok
    BY <2>1 DEF Bound
  <2>3. FirstDefinition(e, name, i, e.syms[name])
    BY <1>6 DEF SymbolsRight, i
  <2>4. e.syms[name] \in Int
    <3>1. PICK j \in Definers(e, name, i) : e.syms[name] = Definition(e, name, j)
      BY <2>3 DEF FirstDefinition
    <3>2. j \in DOMAIN e.modules /\ name \in DOMAIN Exports(e.modules[j].img)
      BY <1>3 DEF Definers
    <3>3. e.modules[j].base \in Nat /\ e.modules[j].img \in Images
      BY <3>2, ModuleShape
    <3> QED
      BY <3>1, <3>2, <3>3, ExportsAreAddresses DEF Definition
  <2> QED
    BY <1>4, <1>6, <2>2, <2>3, <2>4, StaysSame DEF BoundTo, i
<1>7. CASE name \notin HostNames /\ name \notin DOMAIN e.syms /\ weak
  <2>1. v = [Bound(e, 0) EXCEPT !.ok = FALSE]
    BY <1>7 DEF resolveSymbol
  <2>2. v.e = e /\ v.val = 0 /\ v.ok = FALSE
    BY <2>1 DEF Bound
  <2>3. ASSUME NEW b, NEW s, s.undef, s.name = name, weak <=> s.bind = "WEAK"
        PROVE  BoundTo(v.e, b, i, s, v.val)
    <3>1. s.bind = "WEAK" /\ Definers(e, s.name, i) = {} /\ s.name \notin HostNames
      BY <1>4, <1>7, <2>3
    <3> QED
      BY <2>2, <2>3, <3>1 DEF BoundTo
  <2>4. Grown(e, v.e)
    BY <2>2, StaysSame
  <2>5. \A b, s : s.undef /\ s.name = name /\ (weak <=> s.bind = "WEAK") =>
          BoundTo(v.e, b, Len(e.modules) + 1, s, v.val)
    BY <2>3 DEF i
  <2>6. v.val \in Int
    BY <2>2
  <2>7. v.ok \in BOOLEAN /\ (~v.ok => weak /\ v.e = e /\ v.val = 0)
    BY <1>7, <2>2, Zenon
  <2> QED
    BY <2>4, <2>5, <2>6, <2>7
<1>8. CASE name \notin HostNames /\ name \notin DOMAIN e.syms /\ ~weak
  <2>1. v = Bound(f, e.nextStub)
    BY <1>8 DEF resolveSymbol, f
  <2>2. v.e = f /\ v.val = e.nextStub /\ v.ok
    BY <2>1 DEF Bound
  <2>3. Definers(f, name, i) = {}
    <3>1. f.modules = e.modules
      BY <1>2 DEF Grown
    <3> QED
      BY <1>4, <1>8, <3>1 DEF Definers
  <2> QED
    BY <1>1, <1>2, <1>8, <2>2, <2>3 DEF BoundTo, i
<1> QED
  BY <1>5, <1>6, <1>7, <1>8

LEMMA Valued ==
  ASSUME NEW e, Sane(e), SymbolsRight(e), e.modules \in Seq(Module), NEW img \in Images, NEW b \in Nat,
         NEW sym \in Nat, NEW v, v = symValue(e, img, b, sym)
  PROVE  /\ Grown(e, v.e)
         /\ v.ok => /\ v.val \in Int
                    /\ BoundTo(v.e, b, Len(e.modules) + 1, img.syms[sym + 1], v.val)
<1> DEFINE s == img.syms[sym + 1]
           weak == s.bind = "WEAK"
           found == resolveSymbol(e, s.name, weak)
<1>1. CASE sym >= Len(img.syms)
  <2>1. v = [Bound(e, 0) EXCEPT !.ok = FALSE]
    BY <1>1 DEF symValue
  <2>2. v.e = e /\ v.ok = FALSE
    BY <2>1 DEF Bound
  <2> QED
    BY <2>2, StaysSame
<1>2. CASE sym < Len(img.syms)
  <2>1. s.value \in Int /\ s.undef \in BOOLEAN
    <3>1. sym + 1 \in DOMAIN img.syms
      BY <1>2, ImageShape
    <3> QED
      BY <3>1, ImageShape
  <2>2. ~(sym >= Len(img.syms))
    BY <1>2, ImageShape
  <2>3. CASE ~s.undef
    <3>1. v = Bound(e, IF s.absolute THEN s.value ELSE b + s.value)
      BY <2>2, <2>3 DEF symValue
    <3> HIDE DEF s
    <3>2. v.e = e /\ v.ok /\ v.val = IF s.absolute THEN s.value ELSE b + s.value
      BY <3>1 DEF Bound
    <3>3. v.val \in Int /\ v.val = (IF s.absolute THEN 0 ELSE b) + s.value
      BY <2>1, <3>2
    <3>4. BoundTo(v.e, b, Len(e.modules) + 1, s, v.val)
      BY <2>3, <3>3 DEF BoundTo
    <3> QED
      BY <3>2, <3>3, <3>4, StaysSame DEF s
  <2>4. CASE s.undef
    <3>1. v = IF weak THEN [found EXCEPT !.ok = TRUE] ELSE found
      BY <2>2, <2>4 DEF symValue
    <3>2. found = [e |-> found.e, val |-> found.val, ok |-> found.ok]
      BY DEF resolveSymbol, Bound
    <3>3. /\ Grown(e, found.e) /\ found.val \in Int
          /\ BoundTo(found.e, b, Len(e.modules) + 1, s, found.val)
      <4>1. weak \in BOOLEAN
        OBVIOUS
      <4>2. /\ Grown(e, found.e) /\ found.val \in Int
            /\ \A c, t : t.undef /\ t.name = s.name /\ (weak <=> t.bind = "WEAK") =>
                   BoundTo(found.e, c, Len(e.modules) + 1, t, found.val)
        <5>1. ASSUME NEW n, NEW w \in BOOLEAN, NEW u, u = resolveSymbol(e, n, w)
              PROVE  /\ Grown(e, u.e) /\ u.val \in Int
                     /\ \A c, t : t.undef /\ t.name = n /\ (w <=> t.bind = "WEAK") =>
                            BoundTo(u.e, c, Len(e.modules) + 1, t, u.val)
          BY <5>1, Resolves
        <5> QED
          BY <4>1, <5>1
      <4> QED
        BY <2>4, <4>2
    <3> HIDE DEF found, s
    <3>4. v.e = found.e /\ v.val = found.val
      BY <3>1, <3>2
    <3> QED
      BY <3>3, <3>4 DEF s
  <2> QED
    BY <2>1, <2>3, <2>4
<1> QED
  BY <1>1, <1>2, ImageShape

(* A stub made on the way disturbs nothing.                                   *)
LEMMA GrownKeeps ==
  ASSUME NEW e, NEW l, Loaded(e, l), l.step # 0, NEW f, Grown(e, f)
  PROVE  Loaded(f, l)
<1>1. Sane(e) /\ Modules(e, l.base) /\ UnderWay(e, l) /\ IsLoad(e, l)
  <2>1. l # NoLoad
    BY DEF NoLoad
  <2>2. UnderWay(e, l)
    BY <2>1 DEF Loaded
  <2> QED
    BY <2>2 DEF Loaded, UnderWay
<1>2. CASE f = e
  BY <1>2
<1>3. CASE /\ f.nextStub = e.nextStub + 1
           /\ DOMAIN f.stubs = DOMAIN e.stubs \cup {e.nextStub}
           /\ DOMAIN f.hostImpl \subseteq DOMAIN e.hostImpl \cup {e.nextStub}
           /\ \A a \in DOMAIN e.mem : f.mem[a] = IF a = e.nextStub THEN SvcRet ELSE e.mem[a]
  <2>1. /\ f.nextBase = e.nextBase /\ f.syms = e.syms /\ f.modules = e.modules /\ f.prot = e.prot
        /\ DOMAIN f.mem = DOMAIN e.mem /\ Extends(e, f) /\ IsEmu(f)
    BY DEF Grown
  <2>2. /\ l.img \in Images /\ l.base \in Nat /\ moduleBase <= l.base /\ e.nextBase = Room(l.base, l.img)
        /\ e.nextStub \in Nat /\ stubBase <= e.nextStub /\ e.nextBase \in Nat /\ l.base <= e.nextBase
    BY <1>1, SegmentInside DEF IsLoad, Sane
  <2>3. Sane(f)
    <3>1. DOMAIN f.stubs \subseteq stubBase .. f.nextStub - 1
      BY <1>1, <1>3, <2>2, AreasAssumption DEF Sane
    <3>2. DOMAIN f.hostImpl \subseteq DOMAIN f.stubs
      BY <1>1, <1>3 DEF Sane
    <3> QED
      BY <1>1, <1>3, <2>1, <2>2, <3>1, <3>2, AreasAssumption DEF Sane
  <2>4. Modules(f, l.base)
    <3>1. DOMAIN e.mem \subseteq DOMAIN f.mem /\ DOMAIN e.prot \subseteq DOMAIN f.prot /\ l.base <= l.base
      BY <2>1, <2>2
    <3> QED
      BY <1>1, <2>1, <2>2, <3>1, ModulesStay
  <2>5. UnderWay(f, l)
    <3>1. IsLoad(f, l)
      BY <1>1, <2>1 DEF IsLoad
    <3>2. Placed(f, l.base, l.img, Mapped(l))
      BY <1>1, <2>1 DEF Placed, UnderWay
    <3> QED
      BY <1>1, <2>1, <3>1, <3>2 DEF UnderWay
  <2>7. SymbolsRight(f)
    BY <2>1, SymbolsStay DEF Loaded
  <2>6. ASSUME Apart(f)
        PROVE  Contents(f, l)
    <3>1. Apart(e) /\ e.nextStub \notin moduleBase .. e.nextBase - 1
      BY <1>3, <2>1, <2>2, <2>6, AreasAssumption DEF Apart
    <3>2. Contents(e, l)
      BY <3>1 DEF Loaded
    <3>4. StubsTrap(f)
      BY <1>3, <2>1, <3>2 DEF Contents, StubsTrap
    <3>5. \A a \in DOMAIN e.mem : a \in moduleBase .. e.nextBase - 1 => a \in DOMAIN f.mem /\ f.mem[a] = e.mem[a]
      BY <1>3, <2>1, <3>1
    <3>6. PartsRight(f)
      <4>1. PartsRight(e)
        BY <3>2 DEF Contents
      <4>2. \A a \in DOMAIN e.mem : a \in moduleBase .. l.base - 1 => a \in DOMAIN f.mem /\ f.mem[a] = e.mem[a]
        BY <2>2, <3>5, AreasAssumption
      <4>3. \A i \in DOMAIN e.modules : \A p \in PagesOf(e.modules[i]) : f.prot[p] = e.prot[p]
        BY <2>1
      <4>4. Modules(e, l.base) /\ f.modules = e.modules /\ l.base \in Nat /\ Extends(e, f)
        BY <1>1, <2>1, <2>2
      <4> QED
        BY <4>1, <4>2, <4>3, <4>4, PartsStay
    <3>7. PartRight(f, l.base, Len(f.modules) + 1, l.img, Mapped(l), Patches(l), Protected(l))
      <4>1. PartRight(e, l.base, Len(e.modules) + 1, l.img, Mapped(l), Patches(l), Protected(l))
        BY <3>2 DEF Contents
      <4>2. \A a \in DOMAIN e.mem : a \in l.base .. Room(l.base, l.img) - 1 => a \in DOMAIN f.mem /\ f.mem[a] = e.mem[a]
        BY <2>2, <3>5, AreasAssumption
      <4>3. \A k \in 1 .. Protected(l) : \A p \in SegmentPages(l.base, l.img.segments[k]) : f.prot[p] = e.prot[p]
        BY <2>1
      <4>4. /\ Mapped(l) \in 0 .. Len(l.img.segments) /\ Patches(l) \in 0 .. Len(l.img.relocs)
            /\ Protected(l) \in 0 .. Len(l.img.segments)
        BY <1>1, Progress
      <4>5. Placed(e, l.base, l.img, Mapped(l))
        BY <1>1 DEF UnderWay
      <4> DEFINE i == Len(e.modules) + 1
      <4>6. i \in Nat /\ 1 .. i - 1 \subseteq DOMAIN e.modules
        BY <1>1, ModuleShape DEF Modules
      <4>7. PartRight(f, l.base, i, l.img, Mapped(l), Patches(l), Protected(l))
        <5> HIDE DEF i
        <5>1. PartRight(e, l.base, i, l.img, Mapped(l), Patches(l), Protected(l))
          BY <4>1 DEF i
        <5> QED
          BY <2>1, <2>2, <5>1, <4>2, <4>3, <4>4, <4>5, <4>6, PartStays
      <4> QED
        BY <2>1, <4>7
    <3> QED
      BY <3>4, <3>6, <3>7 DEF Contents
  <2> QED
    BY <2>3, <2>4, <2>5, <2>6, <2>7 DEF Loaded
<1> QED
  BY <1>2, <1>3 DEF Grown

(* r is the next relocation to do.                                            *)
AtReloc(l, r) ==
  /\ l.step > Len(l.img.segments) /\ l.step <= Len(l.img.segments) + Len(l.img.relocs)
  /\ r = l.img.relocs[l.step - Len(l.img.segments)]

(* x is what relocation r of the image being loaded is to write.                *)
Fits(e, l, r, x) ==
  IF r.type = "RELATIVE" THEN x = l.base + r.addend
  ELSE BoundTo(e, l.base, Len(e.modules) + 1, l.img.syms[r.sym + 1], x - r.addend)

(* The k-th relocation patches its own word.                                  *)
patched(e, a, x) == [e EXCEPT !.mem[a] = x]

(* A relocation's word holds its value, and no other part is touched.        *)
LEMMA Patching ==
  ASSUME NEW e, NEW l, Loaded(e, l), l.step # 0,
         NEW r, AtReloc(l, r),
         l.base + r.offset \in DOMAIN e.mem, NEW x, NEW f, f = patched(e, l.base + r.offset, x),
         Apart(e) => Fits(e, l, r, x)
  PROVE  Loaded(f, Step(l))
<1> DEFINE s == Len(l.img.segments)
           n == Len(l.img.relocs)
           k == l.step - s
           a == l.base + r.offset
           m == Step(l)
           i == Len(e.modules) + 1
<1>1. Sane(e) /\ Modules(e, l.base) /\ UnderWay(e, l) /\ IsLoad(e, l)
  <2>1. l # NoLoad
    BY DEF NoLoad
  <2>2. UnderWay(e, l)
    BY <2>1 DEF Loaded
  <2> QED
    BY <2>2 DEF Loaded, UnderWay
<1>2. /\ l.img \in Images /\ l.base \in Nat /\ moduleBase <= l.base /\ e.nextBase = Room(l.base, l.img)
      /\ s \in Nat /\ n \in Nat /\ l.step \in Nat
      /\ DOMAIN l.img.segments = 1 .. s /\ DOMAIN l.img.relocs = 1 .. n
  BY <1>1, ImageShape DEF IsLoad
<1>3. k \in 1 .. n /\ k \in DOMAIN l.img.relocs /\ r = l.img.relocs[k]
  <2>1. l.step > s /\ l.step <= s + n /\ DOMAIN l.img.relocs = 1 .. n /\ r = l.img.relocs[k]
    BY <1>2, ImageShape DEF AtReloc
  <2> HIDE DEF s, n
  <2>2. k \in 1 .. n
    BY <1>2, <2>1
  <2> HIDE DEF k
  <2> QED
    BY <2>1, <2>2
<1>4. /\ Mapped(l) = s /\ Patches(l) = k - 1 /\ Protected(l) = 0
      /\ Mapped(m) = s /\ Patches(m) = k /\ Protected(m) = 0
      /\ m.img = l.img /\ m.base = l.base /\ m.step = l.step + 1 /\ IsLoad(e, m)
  <2>1. l.step <= 2 * s + n
    <3>1. l.step <= s + n
      BY DEF AtReloc
    <3> HIDE DEF s, n
    <3> QED
      BY <1>2, <3>1
  <2>2. l.step - s - 1 = k - 1
    BY <1>2
  <2> QED
    BY <1>1, <2>1, <2>2, Progress DEF AtReloc
<1>5. a \in DOMAIN e.mem /\ a \in l.base .. Room(l.base, l.img) - 1
  BY <1>2, <1>3, PatchInside
<1>6. /\ f.nextBase = e.nextBase /\ f.nextStub = e.nextStub /\ f.syms = e.syms /\ f.modules = e.modules
      /\ f.stubs = e.stubs /\ f.hostImpl = e.hostImpl /\ IsEmu(f) /\ f.prot = e.prot
  BY <1>1 DEF Sane, IsEmu, patched
<1> HIDE DEF a, m, k, i, s, n
<1>7. DOMAIN f.mem = DOMAIN e.mem /\ f.mem[a] = x /\ \A c \in DOMAIN e.mem : c # a => f.mem[c] = e.mem[c]
  <2>1. f.mem = [e.mem EXCEPT ![a] = x]
    BY <1>1 DEF Sane, IsEmu, patched, a
  <2> QED
    BY <1>5, <2>1
<1>8. Sane(f)
  BY <1>1, <1>6, <1>7 DEF Sane
<1>9. Modules(f, l.base)
  <2>1. DOMAIN e.mem \subseteq DOMAIN f.mem /\ DOMAIN e.prot \subseteq DOMAIN f.prot
    BY <1>6, <1>7
  <2>2. l.base <= l.base
    BY <1>2
  <2> QED
    BY <1>1, <1>2, <1>6, <2>1, <2>2, ModulesStay
<1>10. UnderWay(f, m)
  <2>1. IsLoad(f, m)
    BY <1>4, <1>6 DEF IsLoad
  <2>2. Placed(f, l.base, l.img, s)
    BY <1>1, <1>4, <1>6, <1>7 DEF Placed, UnderWay
  <2> QED
    BY <1>1, <1>4, <1>6, <2>1, <2>2 DEF UnderWay
<1>12. SymbolsRight(f)
  BY <1>6, SymbolsStay DEF Loaded
<1>11. ASSUME Apart(f)
       PROVE  Contents(f, m)
  <2>1. Apart(e)
    BY <1>6, <1>11 DEF Apart
  <2>2. Contents(e, l)
    BY <2>1 DEF Loaded
  <2>4. Extends(e, f)
    BY <1>6 DEF Extends
  <2>5. e.nextBase \in Nat /\ e.nextStub \in Nat /\ moduleBase \in Nat /\ stubBase \in Nat
    BY <1>1, AreasAssumption DEF Sane
  <2>6. StubsTrap(f)
    <3> SUFFICES ASSUME NEW c \in DOMAIN f.stubs, c \in DOMAIN f.mem
                 PROVE  f.mem[c] = SvcRet
      BY DEF StubsTrap
    <3>1. c \in stubBase .. e.nextStub - 1
      BY <1>1, <1>6 DEF Sane
    <3>2. c # a
      BY <1>2, <1>5, <2>1, <2>5, <3>1 DEF Apart
    <3> QED
      BY <1>6, <1>7, <2>2, <3>2 DEF Contents, StubsTrap
  <2>7. PartsRight(f)
    <3>1. PartsRight(e)
      BY <2>2 DEF Contents
    <3>2. \A c \in DOMAIN e.mem : c \in moduleBase .. l.base - 1 => c \in DOMAIN f.mem /\ f.mem[c] = e.mem[c]
      BY <1>2, <1>5, <1>7, <2>5
    <3>3. \A j \in DOMAIN e.modules : \A p \in PagesOf(e.modules[j]) : f.prot[p] = e.prot[p]
      BY <1>6
    <3>4. Modules(e, l.base) /\ f.modules = e.modules /\ l.base \in Nat
      BY <1>1, <1>2, <1>6
    <3> QED
      BY <2>4, <3>1, <3>2, <3>3, <3>4, PartsStay
  <2>8. PartRight(f, l.base, i, l.img, s, k, 0)
    <3>1. PartRight(e, l.base, i, l.img, s, k - 1, 0)
      BY <1>4, <2>2 DEF Contents, i
    <3>2. i \in Nat /\ 1 .. i - 1 \subseteq DOMAIN e.modules
      BY <1>1, ModuleShape DEF Modules, i
    <3>3. ASSUME NEW j \in 1 .. k
          PROVE  /\ l.base + l.img.relocs[j].offset \in DOMAIN f.mem
                 /\ RelocRight(f, l.base, i, l.img, l.img.relocs[j])
      <4>1. CASE j = k
        <5>1. l.base + l.img.relocs[j].offset = a /\ l.img.relocs[j] = r
          BY <1>3, <4>1 DEF a
        <5>2. r.type # "RELATIVE" => BoundTo(f, l.base, i, l.img.syms[r.sym + 1], x - r.addend)
          <6>1. r.type # "RELATIVE" => BoundTo(e, l.base, i, l.img.syms[r.sym + 1], x - r.addend)
            BY <2>1 DEF Fits, i
          <6> QED
            BY <2>4, <3>2, <6>1, BoundStays
        <5>3. r.type = "RELATIVE" => x = l.base + r.addend
          BY <2>1 DEF Fits
        <5>4. l.base + r.offset = a
          BY DEF a
        <5>5. RelocRight(f, l.base, i, l.img, r)
          BY <1>7, <5>2, <5>3, <5>4 DEF RelocRight
        <5> QED
          BY <1>5, <1>7, <5>1, <5>5
      <4>2. CASE j # k
        <5>1. j \in 1 .. k - 1 /\ j \in DOMAIN l.img.relocs
          BY <1>2, <1>3, <4>2, ImageShape
        <5>2. l.img.relocs[j].offset # r.offset /\ l.img.relocs[j].offset \in Int /\ r.offset \in Int
          BY <1>2, <1>3, <4>2, <5>1, ImageShape
        <5>3. l.base + l.img.relocs[j].offset # a
          BY <1>2, <5>2 DEF a
        <5>4. /\ l.base + l.img.relocs[j].offset \in DOMAIN e.mem
              /\ RelocRight(e, l.base, i, l.img, l.img.relocs[j])
          BY <3>1, <5>1 DEF PartRight
        <5>5. f.mem[l.base + l.img.relocs[j].offset] = e.mem[l.base + l.img.relocs[j].offset]
          BY <1>7, <5>3, <5>4
        <5> QED
          BY <1>7, <2>4, <3>2, <5>4, <5>5, BoundStays DEF RelocRight
      <4> QED
        BY <4>1, <4>2
    <3>4. ASSUME NEW j \in 1 .. s, NEW c \in SegmentWords(0, l.img.segments[j]) \ PatchedBy(l.img, k)
          PROVE  f.mem[l.base + c] = FileWord(l.img.segments[j], c)
      <4>1. c \in Nat /\ l.base + c \in SegmentWords(l.base, l.img.segments[j])
        <5>1. j \in DOMAIN l.img.segments
          BY <1>2, ImageShape
        <5> QED
          BY <1>2, <5>1, SegmentInside
      <4>2. l.base + c \in DOMAIN e.mem
        <5>1. Placed(e, l.base, l.img, s)
          BY <1>1, <1>4 DEF UnderWay
        <5> QED
          BY <4>1, <5>1 DEF Placed
      <4>3. c # r.offset /\ r.offset \in Int
        BY <1>2, <1>3, <3>4, ImageShape DEF PatchedBy
      <4>4. l.base + c # a
        BY <1>2, <4>1, <4>3 DEF a
      <4>5. c \notin PatchedBy(l.img, k - 1)
        BY <1>3, <3>4 DEF PatchedBy
      <4>6. e.mem[l.base + c] = FileWord(l.img.segments[j], c)
        BY <3>1, <4>5 DEF PartRight
      <4> QED
        BY <1>7, <4>2, <4>4, <4>6
    <3> QED
      BY <3>3, <3>4 DEF PartRight
  <2>9. PartRight(f, m.base, Len(f.modules) + 1, m.img, Mapped(m), Patches(m), Protected(m))
    BY <1>4, <1>6, <2>8 DEF i
  <2> QED
    BY <2>6, <2>7, <2>9 DEF Contents
<1> QED
  <2>1. m.step # 0
    BY <1>2, <1>4
  <2> QED
    BY <1>4, <1>8, <1>9, <1>10, <1>11, <1>12, <2>1 DEF Loaded, m

(* Relocating goes on with the word patched, or gives the load up.              *)
LEMMA Relocates ==
  ASSUME NEW e, NEW l, Loaded(e, l), l.step # 0, NEW r, AtReloc(l, r), r.sym \in Nat, r.addend \in Int,
         NEW d, d = relocate(e, l.img, l.base, r)
  PROVE  d.ok \in BOOLEAN /\ (d.ok => Loaded(d.e, Step(l))) /\ Loaded(d.e, NoLoad)
<1> DEFINE a == l.base + r.offset
           v == symValue(e, l.img, l.base, r.sym)
<1>1. Sane(e) /\ Modules(e, l.base) /\ IsLoad(e, l) /\ SymbolsRight(e)
  <2>1. l # NoLoad
    BY DEF NoLoad
  <2>2. UnderWay(e, l)
    BY <2>1 DEF Loaded
  <2> QED
    BY <2>2 DEF Loaded, UnderWay
<1>2. l.img \in Images /\ l.base \in Nat /\ e.modules \in Seq(Module)
  BY <1>1 DEF IsLoad, Modules
<1>3. ASSUME NEW g, NEW x, Loaded(g, l), Fits(g, l, r, x), NEW w, w = put64(g, a, x)
      PROVE  w.ok \in BOOLEAN /\ (w.ok => Loaded(w.e, Step(l))) /\ Loaded(w.e, NoLoad)
  <2>1. CASE a \in DOMAIN g.mem
    <3>1. w = Bound(patched(g, a, x), a)
      BY <1>3, <2>1 DEF put64, patched
    <3>2. w.e = patched(g, a, x) /\ w.ok = TRUE
      BY <3>1 DEF Bound
    <3>3. Loaded(w.e, Step(l))
      BY <1>3, <2>1, <3>2, Patching
    <3>4. Loaded(w.e, NoLoad)
      BY <3>3, GivenUp
    <3> QED
      BY <3>2, <3>3, <3>4, Zenon
  <2>2. CASE a \notin DOMAIN g.mem
    <3>1. w = [Bound(g, a) EXCEPT !.ok = FALSE]
      BY <1>3, <2>2 DEF put64
    <3>2. w.e = g /\ w.ok = FALSE
      BY <3>1 DEF Bound
    <3>3. Loaded(w.e, NoLoad)
      BY <1>3, <3>2, GivenUp
    <3> QED
      BY <3>2, <3>3, Zenon
  <2> QED
    BY <2>1, <2>2
<1>4. CASE r.type = "RELATIVE"
  <2>1. d = put64(e, a, l.base + r.addend)
    BY <1>4 DEF relocate
  <2>2. Fits(e, l, r, l.base + r.addend)
    BY <1>4 DEF Fits
  <2> HIDE DEF a
  <2> QED
    BY <1>3, <2>1, <2>2
<1>5. CASE r.type \notin {"RELATIVE", "GLOB_DAT", "JUMP_SLOT", "ABS64"}
  <2>1. d = [Bound(e, 0) EXCEPT !.ok = FALSE]
    BY <1>5 DEF relocate
  <2>2. d.e = e /\ d.ok = FALSE
    BY <2>1 DEF Bound
  <2>3. Loaded(d.e, NoLoad)
    BY <2>2, GivenUp
  <2> QED
    BY <2>2, <2>3, Zenon
<1>6. CASE r.type \in {"GLOB_DAT", "JUMP_SLOT", "ABS64"}
  <2>1. d = IF v.ok THEN put64(v.e, a, v.val + r.addend) ELSE v
    BY <1>6 DEF relocate
  <2>2. /\ Grown(e, v.e)
        /\ v.ok => /\ v.val \in Int
                   /\ BoundTo(v.e, l.base, Len(e.modules) + 1, l.img.syms[r.sym + 1], v.val)
    BY <1>1, <1>2, Valued
  <2>3. v.ok \in BOOLEAN
    BY DEF symValue, resolveSymbol, Bound
  <2> HIDE DEF a, v
  <2>4. Loaded(v.e, l)
    BY <2>2, GrownKeeps
  <2>5. CASE v.ok
    <3>1. Fits(v.e, l, r, v.val + r.addend)
      <4>2. v.e.modules = e.modules
        BY <2>2 DEF Grown
      <4>3. (v.val + r.addend) - r.addend = v.val
        BY <2>2, <2>5
      <4> QED
        BY <1>6, <2>2, <2>5, <4>2, <4>3 DEF Fits
    <3> QED
      BY <1>3, <2>1, <2>4, <2>5, <3>1
  <2>6. CASE ~v.ok
    <3>1. d = v
      BY <2>1, <2>6
    <3>2. Loaded(v.e, NoLoad)
      BY <2>4, GivenUp
    <3> QED
      BY <2>3, <2>6, <3>1, <3>2, Zenon
  <2> QED
    BY <2>3, <2>5, <2>6
<1> QED
  BY <1>4, <1>5, <1>6

-----------------------------------------------------------------------------
(* The last loop, and the tables.                                            *)

(* s is the next segment to protect.                                          *)
AtProtect(l, s) ==
  /\ l.step > Len(l.img.segments) + Len(l.img.relocs) /\ l.step <= 2 * Len(l.img.segments) + Len(l.img.relocs)
  /\ s = l.img.segments[l.step - Len(l.img.segments) - Len(l.img.relocs)]

(* A segment gets its rights, and no other page does.                        *)
LEMMA Protects ==
  ASSUME NEW e, NEW l, Loaded(e, l), l.step # 0, NEW s, AtProtect(l, s),
         NEW f, f = protectSegment(e, l.base, s)
  PROVE  Loaded(f, Step(l))
<1> DEFINE S == Len(l.img.segments)
           R == Len(l.img.relocs)
           k == l.step - S - R
           P == SegmentPages(l.base, s)
           m == Step(l)
           i == Len(e.modules) + 1
<1>1. Sane(e) /\ Modules(e, l.base) /\ UnderWay(e, l) /\ IsLoad(e, l)
  <2>1. l # NoLoad
    BY DEF NoLoad
  <2>2. UnderWay(e, l)
    BY <2>1 DEF Loaded
  <2> QED
    BY <2>2 DEF Loaded, UnderWay
<1>2. /\ l.img \in Images /\ l.base \in Nat /\ moduleBase <= l.base /\ e.nextBase = Room(l.base, l.img)
      /\ S \in Nat /\ R \in Nat /\ l.step \in Nat /\ DOMAIN l.img.segments = 1 .. S
  BY <1>1, ImageShape DEF IsLoad
<1>3. k \in 1 .. S /\ s = l.img.segments[k] /\ l.step > S + R /\ l.step <= 2 * S + R
  <2>1. l.step > S + R /\ l.step <= 2 * S + R /\ s = l.img.segments[k]
    BY DEF AtProtect
  <2> HIDE DEF S, R
  <2>2. k \in 1 .. S
    BY <1>2, <2>1
  <2> HIDE DEF k
  <2> QED
    BY <2>1, <2>2
<1>4. /\ Mapped(l) = S /\ Patches(l) = R /\ Protected(l) = k - 1
      /\ Mapped(m) = S /\ Patches(m) = R /\ Protected(m) = k
      /\ m.img = l.img /\ m.base = l.base /\ m.step = l.step + 1 /\ IsLoad(e, m)
  <2>1. l.step - S - R - 1 = k - 1
    BY <1>2
  <2> QED
    BY <1>1, <1>3, <2>1, Progress
<1>5. /\ f.nextBase = e.nextBase /\ f.nextStub = e.nextStub /\ f.syms = e.syms /\ f.modules = e.modules
      /\ f.stubs = e.stubs /\ f.hostImpl = e.hostImpl /\ IsEmu(f) /\ f.mem = e.mem
  BY <1>1 DEF Sane, IsEmu, protectSegment
<1> HIDE DEF S, R, k, P, m, i
<1>6. DOMAIN f.prot = DOMAIN e.prot /\ \A p \in DOMAIN e.prot : f.prot[p] = IF p \in P THEN s.flags ELSE e.prot[p]
  <2>1. f.prot = [p \in DOMAIN e.prot |-> IF p \in P THEN s.flags ELSE e.prot[p]]
    BY <1>1 DEF Sane, IsEmu, protectSegment, P
  <2> QED
    BY <2>1
<1>7. Placed(e, l.base, l.img, S)
  BY <1>1, <1>4 DEF UnderWay
<1>8. Sane(f)
  BY <1>1, <1>5, <1>6 DEF Sane
<1>9. Modules(f, l.base)
  <2>1. DOMAIN e.mem \subseteq DOMAIN f.mem /\ DOMAIN e.prot \subseteq DOMAIN f.prot
    BY <1>5, <1>6
  <2>2. l.base <= l.base
    BY <1>2
  <2> QED
    BY <1>1, <1>2, <1>5, <2>1, <2>2, ModulesStay
<1>10. UnderWay(f, m)
  <2>1. IsLoad(f, m)
    BY <1>4, <1>5 DEF IsLoad
  <2>2. Placed(f, l.base, l.img, S)
    BY <1>5, <1>6, <1>7 DEF Placed
  <2> QED
    BY <1>1, <1>4, <1>5, <2>1, <2>2 DEF UnderWay
<1>11. SymbolsRight(f)
  BY <1>5, SymbolsStay DEF Loaded
<1>12. ASSUME Apart(f)
       PROVE  Contents(f, m)
  <2>1. Contents(e, l)
    BY <1>5, <1>12 DEF Apart, Loaded
  <2>2. Extends(e, f)
    BY <1>5 DEF Extends
  <2>3. StubsTrap(f)
    BY <1>5, <2>1 DEF Contents, StubsTrap
  <2>4. PartsRight(f)
    <3>1. PartsRight(e)
      BY <2>1 DEF Contents
    <3>2. \A c \in DOMAIN e.mem : c \in moduleBase .. l.base - 1 => c \in DOMAIN f.mem /\ f.mem[c] = e.mem[c]
      BY <1>5
    <3>3. \A j \in DOMAIN e.modules : \A p \in PagesOf(e.modules[j]) : f.prot[p] = e.prot[p]
      <4> SUFFICES ASSUME NEW j \in DOMAIN e.modules, NEW p \in PagesOf(e.modules[j])
                   PROVE  f.prot[p] = e.prot[p]
        OBVIOUS
      <4>1. p \notin P
        <5>1. k \in 1 .. Mapped(l)
          BY <1>3, <1>4
        <5>2. P \cap PagesOf(e.modules[j]) = {}
          BY <1>1, <1>3, <5>1 DEF UnderWay, P
        <5> QED
          BY <5>2
      <4>2. p \in DOMAIN e.prot
        <5>1. PICK q \in DOMAIN e.modules[j].img.segments :
                p \in SegmentPages(e.modules[j].base, e.modules[j].img.segments[q])
          BY DEF PagesOf
        <5>2. e.modules[j].img \in Images
          BY <1>1, ModuleShape DEF Modules
        <5>3. q \in 1 .. Len(e.modules[j].img.segments)
          BY <5>1, <5>2, ImageShape
        <5>4. Placed(e, e.modules[j].base, e.modules[j].img, Len(e.modules[j].img.segments))
          BY <1>1 DEF Modules
        <5> QED
          BY <5>1, <5>3, <5>4 DEF Placed
      <4> QED
        BY <1>6, <4>1, <4>2
    <3>4. Modules(e, l.base) /\ f.modules = e.modules /\ l.base \in Nat
      BY <1>1, <1>2, <1>5
    <3> QED
      BY <2>2, <3>1, <3>2, <3>3, <3>4, PartsStay
  <2>5. PartRight(f, l.base, i, l.img, S, R, k)
    <3>1. PartRight(e, l.base, i, l.img, S, R, k - 1)
      BY <1>4, <2>1 DEF Contents, i
    <3>2. ASSUME NEW j \in 1 .. k, NEW p \in SegmentPages(l.base, l.img.segments[j])
          PROVE  f.prot[p] = l.img.segments[j].flags
      <4>1. j \in 1 .. S
        BY <1>2, <1>3
      <4>2. p \in DOMAIN e.prot
        BY <1>7, <4>1 DEF Placed
      <4>3. CASE j = k
        BY <1>3, <1>6, <4>2, <4>3 DEF P
      <4>4. CASE j # k
        <5>1. SegmentPages(l.base, l.img.segments[j]) \cap SegmentPages(l.base, l.img.segments[k]) = {}
          BY <1>3, <1>7, <4>1, <4>4 DEF Placed
        <5>2. p \notin P
          BY <1>3, <5>1 DEF P
        <5>3. j \in 1 .. k - 1
          BY <1>3, <4>1, <4>4
        <5>4. e.prot[p] = l.img.segments[j].flags
          BY <3>1, <5>3 DEF PartRight
        <5> QED
          BY <1>6, <4>2, <5>2, <5>4
      <4> QED
        BY <4>3, <4>4
    <3>3. i \in Nat /\ 1 .. i - 1 \subseteq DOMAIN e.modules
      BY <1>1, ModuleShape DEF Modules, i
    <3>4. PartRight(f, l.base, i, l.img, S, R, 0)
      <4>1. PartRight(e, l.base, i, l.img, S, R, 0)
        BY <3>1 DEF PartRight
      <4>2. S \in 0 .. S /\ R \in 0 .. R /\ 0 \in 0 .. S
        BY <1>2
      <4>3. \A a \in DOMAIN e.mem : a \in l.base .. Room(l.base, l.img) - 1 => a \in DOMAIN f.mem /\ f.mem[a] = e.mem[a]
        BY <1>5
      <4>4. \A j \in 1 .. 0 : \A p \in SegmentPages(l.base, l.img.segments[j]) : f.prot[p] = e.prot[p]
        OBVIOUS
      <4> QED
        BY <1>2, <1>7, <2>2, <3>3, <4>1, <4>2, <4>3, <4>4, PartStays DEF S, R
    <3> QED
      BY <3>2, <3>4 DEF PartRight
  <2>6. PartRight(f, m.base, Len(f.modules) + 1, m.img, Mapped(m), Patches(m), Protected(m))
    BY <1>4, <1>5, <2>5 DEF i
  <2> QED
    BY <2>3, <2>4, <2>6 DEF Contents
<1> QED
  <2>1. m.step # 0
    BY <1>2, <1>4
  <2> QED
    BY <1>4, <1>8, <1>9, <1>10, <1>11, <1>12, <2>1 DEF Loaded, m

(* A list one longer.                                                         *)
LEMMA Grows ==
  ASSUME NEW s, NEW S, s \in Seq(S), NEW x \in S, NEW t, t = Append(s, x)
  PROVE  /\ t \in Seq(S) /\ Len(s) \in Nat /\ Len(t) = Len(s) + 1
         /\ DOMAIN s = 1 .. Len(s) /\ DOMAIN t = 1 .. Len(s) + 1
         /\ t[Len(s) + 1] = x
         /\ \A i \in 1 .. Len(s) : t[i] = s[i]
OBVIOUS

(* The image becomes the last module, with its part complete.                   *)
LEMMA Enters ==
  ASSUME NEW e, NEW l, Loaded(e, l), l.step # 0,
         l.step = 2 * Len(l.img.segments) + Len(l.img.relocs) + 1,
         NEW f, f = Enter(e, l.img, l.base)
  PROVE  Loaded(f, NoLoad)
<1> DEFINE S == Len(l.img.segments)
           R == Len(l.img.relocs)
           n == Len(e.modules)
           m == [base |-> l.base, img |-> l.img]
           X == Exports(l.img)
<1>1. Sane(e) /\ Modules(e, l.base) /\ UnderWay(e, l) /\ IsLoad(e, l)
  <2>1. l # NoLoad
    <3>1. NoLoad.step = 0
      BY DEF NoLoad
    <3> QED
      BY <3>1
  <2>2. UnderWay(e, l)
    BY <2>1 DEF Loaded
  <2> QED
    BY <2>2 DEF Loaded, UnderWay
<1>2. /\ l.img \in Images /\ l.base \in Nat /\ moduleBase <= l.base /\ e.nextBase = Room(l.base, l.img)
      /\ S \in Nat /\ R \in Nat /\ DOMAIN l.img.segments = 1 .. S
  BY <1>1, ImageShape DEF IsLoad
<1>3. Mapped(l) = S /\ Patches(l) = R /\ Protected(l) = S
  BY <1>1, Progress
<1>4. /\ f.nextBase = e.nextBase /\ f.nextStub = e.nextStub /\ f.mem = e.mem /\ f.prot = e.prot
      /\ f.stubs = e.stubs /\ f.hostImpl = e.hostImpl /\ IsEmu(f)
      /\ f.modules = Append(e.modules, m)
      /\ f.syms = Over(e.syms, [x \in DOMAIN X |-> l.base + X[x]])
  BY <1>1 DEF Sane, IsEmu, Enter
<1>5. DOMAIN f.syms = DOMAIN e.syms \cup DOMAIN X
  BY <1>4 DEF Over
<1>6. \A x \in DOMAIN f.syms : f.syms[x] = IF x \in DOMAIN e.syms THEN e.syms[x] ELSE l.base + X[x]
  <2> SUFFICES ASSUME NEW x \in DOMAIN f.syms
               PROVE  f.syms[x] = IF x \in DOMAIN e.syms THEN e.syms[x] ELSE l.base + X[x]
    OBVIOUS
  <2> DEFINE N == [y \in DOMAIN X |-> l.base + X[y]]
  <2>1. f.syms[x] = IF x \in DOMAIN e.syms THEN e.syms[x] ELSE N[x]
    BY <1>4 DEF Over
  <2>2. x \notin DOMAIN e.syms => x \in DOMAIN X
    BY <1>5
  <2> QED
    BY <2>1, <2>2
<1>7. m.base = l.base /\ m.img = l.img /\ m \in Module
  BY <1>2 DEF Module
<1> HIDE DEF S, R, m, X
<1>8. /\ f.modules \in Seq(Module) /\ n \in Nat /\ Len(f.modules) = n + 1
      /\ DOMAIN e.modules = 1 .. n /\ DOMAIN f.modules = 1 .. n + 1
      /\ f.modules[n + 1] = m /\ \A i \in 1 .. n : f.modules[i] = e.modules[i]
  <2>1. e.modules \in Seq(Module)
    BY <1>1 DEF Modules
  <2> QED
    BY <1>4, <1>7, <2>1, Grows
<1> HIDE DEF n
<1>9. Extends(e, f)
  <2>1. \A i \in 1 .. n : i \in 1 .. n + 1
    BY <1>8
  <2> QED
    BY <1>4, <1>8, <2>1 DEF Extends
<1>10. Sane(f)
  BY <1>1, <1>4 DEF Sane
<1>11. Modules(f, f.nextBase)
  <2>1. ASSUME NEW i \in DOMAIN f.modules
        PROVE  LET w == f.modules[i]
               IN moduleBase <= w.base /\ Room(w.base, w.img) <= f.nextBase /\ Placed(f, w.base, w.img, Len(w.img.segments))
    <3>1. CASE i = n + 1
      <4>1. f.modules[i].base = l.base /\ f.modules[i].img = l.img
        BY <1>7, <1>8, <3>1
      <4>2. Room(l.base, l.img) \in Nat
        BY <1>2, SegmentInside
      <4>3. Placed(e, l.base, l.img, S)
        BY <1>1, <1>3 DEF UnderWay
      <4>4. Placed(f, l.base, l.img, S)
        BY <1>4, <4>3, PlacedStays
      <4> QED
        BY <1>2, <1>4, <4>1, <4>2, <4>4 DEF S
    <3>2. CASE i # n + 1
      <4>1. i \in 1 .. n
        BY <1>8, <3>2
      <4>3. f.modules[i] = e.modules[i] /\ i \in DOMAIN e.modules
        BY <1>8, <4>1
      <4> DEFINE w == e.modules[i]
      <4>4. moduleBase <= w.base /\ Room(w.base, w.img) <= l.base /\ Placed(e, w.base, w.img, Len(w.img.segments))
        BY <1>1, <4>3 DEF Modules
      <4>5. w.base \in Nat /\ w.img \in Images
        BY <1>1, <4>3, ModuleShape DEF Modules
      <4>6. Room(w.base, w.img) \in Nat /\ l.base <= e.nextBase /\ e.nextBase \in Nat
        BY <1>2, <4>5, SegmentInside
      <4>7. Placed(f, w.base, w.img, Len(w.img.segments))
        BY <1>4, <4>4, PlacedStays
      <4> HIDE DEF w
      <4>8. Room(w.base, w.img) <= f.nextBase
        BY <1>2, <1>4, <4>4, <4>6
      <4>9. f.modules[i] = w
        BY <4>3 DEF w
      <4> QED
        BY <4>4, <4>7, <4>8, <4>9
    <3> QED
      BY <3>1, <3>2
  <2>2. ASSUME NEW i \in DOMAIN f.modules, NEW j \in DOMAIN f.modules, i # j
        PROVE  PagesOf(f.modules[i]) \cap PagesOf(f.modules[j]) = {}
    <3>1. \A k \in 1 .. n : PagesOf(m) \cap PagesOf(e.modules[k]) = {}
      <4>1. PagesOf(m) = UNION {SegmentPages(l.base, l.img.segments[k]) : k \in 1 .. S}
        BY <1>2, <1>7 DEF PagesOf
      <4>2. \A k \in 1 .. S : \A q \in 1 .. n :
              SegmentPages(l.base, l.img.segments[k]) \cap PagesOf(e.modules[q]) = {}
        BY <1>1, <1>3, <1>8 DEF UnderWay
      <4> QED
        BY <4>1, <4>2
    <3>2. \A p, q \in 1 .. n : p # q => PagesOf(e.modules[p]) \cap PagesOf(e.modules[q]) = {}
      BY <1>1, <1>8 DEF Modules
    <3>3. i \in 1 .. n \/ i = n + 1
      BY <1>8
    <3>4. j \in 1 .. n \/ j = n + 1
      BY <1>8
    <3> QED
      BY <1>8, <2>2, <3>1, <3>2, <3>3, <3>4
  <2> QED
    BY <1>8, <2>1, <2>2 DEF Modules
<1>12. SymbolsRight(f)
  <2>1. SymbolsRight(e)
    BY DEF Loaded
  <2>2. DOMAIN f.syms = UNION {DOMAIN Exports(f.modules[j].img) : j \in DOMAIN f.modules}
    <3>1. DOMAIN e.syms = UNION {DOMAIN Exports(e.modules[j].img) : j \in 1 .. n}
      BY <1>8, <2>1 DEF SymbolsRight
    <3>2. \A j \in 1 .. n : Exports(f.modules[j].img) = Exports(e.modules[j].img)
      BY <1>8
    <3>3. Exports(f.modules[n + 1].img) = X
      BY <1>7, <1>8 DEF X
    <3>4. \A j : j \in 1 .. n + 1 <=> j \in 1 .. n \/ j = n + 1
      BY <1>8
    <3>5. DOMAIN f.modules = 1 .. n + 1
      BY <1>8
    <3> QED
      BY <1>5, <3>1, <3>2, <3>3, <3>4, <3>5
  <2>3. ASSUME NEW x \in DOMAIN f.syms
        PROVE  FirstDefinition(f, x, n + 2, f.syms[x])
    <3>1. 1 .. (n + 1) - 1 = 1 .. n /\ 1 .. (n + 2) - 1 = 1 .. n + 1
      BY <1>8
    <3>2. Definers(e, x, n + 1) = {j \in 1 .. n : x \in DOMAIN Exports(e.modules[j].img)}
      BY <3>1 DEF Definers
    <3>3. Definers(f, x, n + 2) = {j \in 1 .. n + 1 : x \in DOMAIN Exports(f.modules[j].img)}
      BY <3>1 DEF Definers
    <3>4. \A k \in Definers(f, x, n + 2) : k \in Definers(e, x, n + 1) \/ k = n + 1
      <4>1. \A k \in 1 .. n + 1 : k \in 1 .. n \/ k = n + 1
        BY <1>8
      <4> QED
        BY <1>8, <3>2, <3>3, <4>1
    <3>5. CASE x \in DOMAIN e.syms
      <4>1. FirstDefinition(e, x, n + 1, e.syms[x])
        BY <2>1, <3>5 DEF SymbolsRight, n
      <4>2. PICK j \in Definers(e, x, n + 1) :
              e.syms[x] = Definition(e, x, j) /\ \A k \in Definers(e, x, n + 1) : j <= k
        BY <4>1 DEF FirstDefinition
      <4>3. j \in 1 .. n /\ j \in 1 .. n + 1 /\ j <= n + 1
        BY <1>8, <3>2
      <4>4. j \in Definers(f, x, n + 2)
        BY <1>8, <3>2, <3>3, <4>3
      <4>5. Definition(f, x, j) = Definition(e, x, j)
        BY <1>8, <4>3 DEF Definition
      <4>6. f.syms[x] = e.syms[x]
        BY <1>6, <3>5
      <4>7. \A k \in Definers(f, x, n + 2) : j <= k
        BY <3>4, <4>2, <4>3
      <4> QED
        BY <4>2, <4>4, <4>5, <4>6, <4>7 DEF FirstDefinition
    <3>6. CASE x \notin DOMAIN e.syms
      <4>1. Definers(e, x, n + 1) = {}
        BY <1>8, <2>1, <3>2, <3>6 DEF SymbolsRight
      <4>2. x \in DOMAIN X
        BY <1>5, <3>6
      <4>3. n + 1 \in 1 .. n + 1 /\ n + 1 <= n + 1
        BY <1>8
      <4>4. n + 1 \in Definers(f, x, n + 2)
        BY <1>7, <1>8, <3>3, <4>2, <4>3 DEF X
      <4>5. f.syms[x] = Definition(f, x, n + 1)
        BY <1>6, <1>7, <1>8, <3>6 DEF Definition, X
      <4>6. \A k \in Definers(f, x, n + 2) : n + 1 <= k
        BY <3>4, <4>1, <4>3
      <4> QED
        BY <4>4, <4>5, <4>6 DEF FirstDefinition
    <3> QED
      BY <3>5, <3>6
  <2>4. Len(f.modules) + 1 = n + 2
    BY <1>8
  <2> QED
    BY <2>2, <2>3, <2>4 DEF SymbolsRight
<1>13. ASSUME Apart(f)
       PROVE  Contents(f, NoLoad)
  <2>1. Contents(e, l)
    BY <1>4, <1>13 DEF Apart, Loaded
  <2>2. StubsTrap(f)
    BY <1>4, <2>1 DEF Contents, StubsTrap
  <2>3. ASSUME NEW b \in Nat, NEW img \in Images, NEW i \in 1 .. n + 1,
               Placed(e, b, img, Len(img.segments)),
               PartRight(e, b, i, img, Len(img.segments), Len(img.relocs), Len(img.segments))
        PROVE  PartRight(f, b, i, img, Len(img.segments), Len(img.relocs), Len(img.segments))
    <3>1. i \in Nat /\ 1 .. i - 1 \subseteq DOMAIN e.modules
      BY <1>8
    <3>2. Len(img.segments) \in 0 .. Len(img.segments) /\ Len(img.relocs) \in 0 .. Len(img.relocs)
      BY ImageShape
    <3>3. \A a \in DOMAIN e.mem : a \in b .. Room(b, img) - 1 => a \in DOMAIN f.mem /\ f.mem[a] = e.mem[a]
      BY <1>4
    <3>4. \A k \in 1 .. Len(img.segments) : \A p \in SegmentPages(b, img.segments[k]) : f.prot[p] = e.prot[p]
      BY <1>4
    <3> QED
      BY <1>9, <2>3, <3>1, <3>2, <3>3, <3>4, PartStays
  <2>4. ASSUME NEW i \in DOMAIN f.modules
        PROVE  LET w == f.modules[i]
               IN PartRight(f, w.base, i, w.img, Len(w.img.segments), Len(w.img.relocs), Len(w.img.segments))
    <3>1. CASE i = n + 1
      <4>1. f.modules[i].base = l.base /\ f.modules[i].img = l.img
        BY <1>7, <1>8, <3>1
      <4>2. PartRight(e, l.base, i, l.img, S, R, S)
        BY <1>3, <2>1, <3>1 DEF Contents, n
      <4>3. Placed(e, l.base, l.img, S)
        BY <1>1, <1>3 DEF UnderWay
      <4>4. i \in 1 .. n + 1
        BY <1>8
      <4> QED
        BY <1>2, <2>3, <4>1, <4>2, <4>3, <4>4 DEF S, R
    <3>2. CASE i # n + 1
      <4>1. i \in 1 .. n /\ i \in 1 .. n + 1
        BY <1>8, <3>2
      <4>2. f.modules[i] = e.modules[i] /\ i \in DOMAIN e.modules
        BY <1>8, <4>1
      <4> DEFINE w == e.modules[i]
      <4>3. w.base \in Nat /\ w.img \in Images
        BY <1>1, <4>2, ModuleShape DEF Modules
      <4>4. Placed(e, w.base, w.img, Len(w.img.segments))
        BY <1>1, <4>2 DEF Modules
      <4>5. PartRight(e, w.base, i, w.img, Len(w.img.segments), Len(w.img.relocs), Len(w.img.segments))
        BY <2>1, <4>2 DEF Contents, PartsRight
      <4> HIDE DEF w
      <4>6. PartRight(f, w.base, i, w.img, Len(w.img.segments), Len(w.img.relocs), Len(w.img.segments))
        BY <2>3, <4>1, <4>3, <4>4, <4>5
      <4>7. f.modules[i] = w
        BY <4>2 DEF w
      <4> QED
        BY <4>6, <4>7
    <3> QED
      BY <3>1, <3>2
  <2>5. PartsRight(f)
    BY <2>4 DEF PartsRight
  <2> QED
    BY <2>2, <2>5 DEF Contents, NoLoad
<1> QED
  BY <1>10, <1>11, <1>12, <1>13 DEF Loaded, NoLoad

-----------------------------------------------------------------------------
(* The specification.                                                        *)

(* At first nothing is loaded, and the stubs' memory is mapped.                 *)
LEMMA Starts == Loaded(emulator, NoLoad)
<1> DEFINE e == emulator
           area == stubBase .. stubBase + stubSize - 1
<1>1. /\ e.nextBase = moduleBase /\ e.nextStub = stubBase /\ e.syms = <<>> /\ e.modules = <<>>
      /\ e.stubs = <<>> /\ e.hostImpl = <<>> /\ IsEmu(e)
      /\ e.mem = [a \in area |-> 0] /\ e.prot = [p \in {a \div PageWords : a \in area} |-> {"R", "W", "X"}]
  BY DEF emulator, IsEmu
<1> HIDE DEF e
<1>2. DOMAIN e.mem = area /\ DOMAIN e.prot = {a \div PageWords : a \in area}
  BY <1>1
<1>3. /\ DOMAIN e.stubs = {} /\ DOMAIN e.hostImpl = {} /\ DOMAIN e.syms = {} /\ DOMAIN e.modules = {}
      /\ Len(e.modules) = 0 /\ e.modules \in Seq(Module)
  BY <1>1
<1>4. Sane(e)
  <2>1. \A a \in DOMAIN e.mem : a \div PageWords \in DOMAIN e.prot
    BY <1>2
  <2> QED
    BY <1>1, <1>3, <2>1, AreasAssumption DEF Sane
<1>5. Modules(e, e.nextBase)
  BY <1>3 DEF Modules
<1>6. SymbolsRight(e)
  BY <1>3 DEF SymbolsRight
<1>7. Contents(e, NoLoad)
  BY <1>3 DEF Contents, StubsTrap, PartsRight, NoLoad
<1>8. NoLoad.step = 0
  BY DEF NoLoad
<1> QED
  BY <1>4, <1>5, <1>6, <1>7, <1>8 DEF Loaded, e

(* A load under way is one.                                                   *)
LEMMA LoadShape ==
  ASSUME NEW e, NEW l, Loaded(e, l)
  PROVE  (l.step = 0 => l = NoLoad) /\ (l.step # 0 => IsLoad(e, l))
<1>1. l = NoLoad \/ IsLoad(e, l)
  BY DEF Loaded, UnderWay
<1>2. NoLoad.step = 0
  BY DEF NoLoad
<1>3. CASE l = NoLoad
  BY <1>2, <1>3
<1>4. CASE IsLoad(e, l)
  BY <1>4, Progress
<1> QED
  BY <1>1, <1>3, <1>4

(* Every step keeps the invariant.                                           *)
LEMMA NextKeeps ==
  ASSUME LinkInv, [LinkNext]_linkVars
  PROVE  LinkInv'
<1> USE DEF LinkInv
<1>1. ASSUME NEW img \in Images, LoadModule(img)
      PROVE  Loaded(emu', load')
  <2>1. load = NoLoad
    BY <1>1, LoadShape DEF LoadModule
  <2>2. Loaded(emu, NoLoad)
    BY <2>1
  <2>3. /\ emu' = [emu EXCEPT !.nextBase = @ + LoadSpan(img) + GapPages * PageWords]
        /\ load' = [img |-> img, base |-> emu.nextBase, step |-> 1]
    BY <1>1 DEF LoadModule
  <2> QED
    BY <2>2, <2>3, Begins
<1>2. ASSUME ApplyMap
      PROVE  Loaded(emu', load')
  <2> DEFINE s == load.img.segments[load.step]
  <2>1. load.step # 0 /\ load.step <= Len(load.img.segments)
    BY <1>2 DEF ApplyMap, Mapping
  <2>2. CASE SegmentPages(load.base, s) \cap DOMAIN emu.prot # {}
    <3>1. emu' = emu /\ load' = NoLoad
      BY <1>2, <2>2 DEF ApplyMap, Fail
    <3> QED
      BY <3>1, GivenUp
  <2>3. CASE SegmentPages(load.base, s) \cap DOMAIN emu.prot = {}
    <3>1. emu' = mapSegment(emu, load.base, s) /\ load' = Step(load)
      BY <1>2, <2>3 DEF ApplyMap, GoOn, Step
    <3> QED
      BY <2>1, <2>3, <3>1, Maps
  <2> QED
    BY <2>2, <2>3
<1>3. ASSUME ApplyReloc
      PROVE  Loaded(emu', load')
  <2> DEFINE k == load.step - Len(load.img.segments)
             r == load.img.relocs[k]
             d == relocate(emu, load.img, load.base, r)
  <2>1. load.step # 0 /\ IsLoad(emu, load)
    BY <1>3, LoadShape DEF ApplyReloc
  <2>2. AtReloc(load, r)
    BY <1>3 DEF ApplyReloc, Relocating, AtReloc
  <2>3. k \in DOMAIN load.img.relocs /\ load.img \in Images
    <3>1. load.img \in Images
      BY <2>1 DEF IsLoad
    <3> DEFINE S == Len(load.img.segments)
               R == Len(load.img.relocs)
    <3>2. S \in Nat /\ R \in Nat /\ load.step \in Nat
      BY <2>1, Progress
    <3>3. load.step > S /\ load.step <= S + R
      BY <1>3 DEF ApplyReloc, Relocating
    <3>4. DOMAIN load.img.relocs = 1 .. R
      BY <3>1, ImageShape
    <3> HIDE DEF S, R
    <3>5. load.step - S \in 1 .. R
      BY <3>2, <3>3
    <3> QED
      BY <3>1, <3>4, <3>5 DEF S
  <2>4. r.sym \in Nat /\ r.addend \in Int
    BY <2>3, ImageShape
  <2>5. emu' = d.e /\ IF d.ok THEN load' = Step(load) ELSE load' = NoLoad
    BY <1>3 DEF ApplyReloc, GoOn, Fail, Step
  <2> HIDE DEF r
  <2>6. (d.ok => Loaded(d.e, Step(load))) /\ Loaded(d.e, NoLoad)
    BY <2>1, <2>2, <2>4, Relocates
  <2> HIDE DEF d
  <2> QED
    BY <2>5, <2>6
<1>4. ASSUME ApplyProtect
      PROVE  Loaded(emu', load')
  <2> DEFINE s == load.img.segments[load.step - Len(load.img.segments) - Len(load.img.relocs)]
  <2>1. load.step # 0 /\ AtProtect(load, s)
    BY <1>4 DEF ApplyProtect, Protecting, AtProtect
  <2>2. emu' = protectSegment(emu, load.base, s) /\ load' = Step(load)
    BY <1>4 DEF ApplyProtect, GoOn, Step
  <2> HIDE DEF s
  <2> QED
    BY <2>1, <2>2, Protects
<1>5. ASSUME EnterExports
      PROVE  Loaded(emu', load')
  <2>1. /\ load.step # 0 /\ load.step = 2 * Len(load.img.segments) + Len(load.img.relocs) + 1
        /\ emu' = Enter(emu, load.img, load.base) /\ load' = NoLoad
    BY <1>5 DEF EnterExports, Applied
  <2> QED
    BY <2>1, Enters
<1>6. CASE UNCHANGED linkVars
  BY <1>6 DEF linkVars
<1> QED
  BY <1>1, <1>2, <1>3, <1>4, <1>5, <1>6 DEF LinkNext

(* Whatever images are loaded and fail to load, the part of each is right: of    *)
(* the loaded modules the whole, of the one under way what Apply has done.       *)
THEOREM LinkInvariance == LinkSpec => []LinkInv
<1>1. LinkInit => LinkInv
  BY Starts DEF LinkInit, LinkInv
<1>2. LinkInv /\ [LinkNext]_linkVars => LinkInv'
  BY NextKeeps
<1> QED
  BY <1>1, <1>2, PTL DEF LinkSpec

(* A part with nothing missing is a module.                                  *)
LEMMA PartIsModule ==
  ASSUME NEW e, e.modules \in Seq(Module), NEW i \in DOMAIN e.modules, PartsRight(e)
  PROVE  ModuleRight(e, i)
<1> DEFINE m == e.modules[i]
           S == Len(m.img.segments)
           R == Len(m.img.relocs)
<1>1. m.base \in Nat /\ m.img \in Images
  BY ModuleShape
<1>2. DOMAIN m.img.segments = 1 .. S /\ DOMAIN m.img.relocs = 1 .. R
  BY <1>1, ImageShape
<1>3. PartRight(e, m.base, i, m.img, S, R, S)
  BY DEF PartsRight
<1> HIDE DEF S, R
<1>4. Patched(m.img) = PatchedBy(m.img, R)
  BY <1>2 DEF Patched, PatchedBy
<1>5. \A k \in DOMAIN m.img.relocs : RelocRight(e, m.base, i, m.img, m.img.relocs[k])
  BY <1>2, <1>3 DEF PartRight
<1>6. \A k \in DOMAIN m.img.segments : SegmentRight(e, m.base, m.img, m.img.segments[k])
  BY <1>2, <1>3, <1>4 DEF PartRight, SegmentRight
<1> QED
  BY <1>5, <1>6 DEF ModuleRight

(* The invariant says more than the property.                                *)
LEMMA InvIsRight ==
  ASSUME LinkInv
  PROVE  LinksRight
<1> SUFFICES ASSUME Apart(emu)
             PROVE  TablesRight(emu) /\ \A i \in DOMAIN emu.modules : ModuleRight(emu, i)
  BY DEF LinksRight
<1>1. Contents(emu, load) /\ Sane(emu) /\ SymbolsRight(emu)
  BY DEF LinkInv, Loaded
<1>2. emu.modules \in Seq(Module) /\
      \A i, j \in DOMAIN emu.modules : i # j => PagesOf(emu.modules[i]) \cap PagesOf(emu.modules[j]) = {}
  BY DEF LinkInv, Loaded, Modules
<1>3. \A i \in DOMAIN emu.modules : ModuleRight(emu, i)
  BY <1>1, <1>2, PartIsModule DEF Contents
<1>4. \A a \in DOMAIN emu.stubs : a < emu.nextStub /\ (a \in DOMAIN emu.mem => emu.mem[a] = SvcRet)
  <2> SUFFICES ASSUME NEW a \in DOMAIN emu.stubs
               PROVE  a < emu.nextStub /\ (a \in DOMAIN emu.mem => emu.mem[a] = SvcRet)
    OBVIOUS
  <2>1. a \in stubBase .. emu.nextStub - 1 /\ emu.nextStub \in Nat
    BY <1>1 DEF Sane
  <2>2. a \in DOMAIN emu.mem => emu.mem[a] = SvcRet
    BY <1>1 DEF Contents, StubsTrap
  <2>3. a < emu.nextStub
    BY <2>1, AreasAssumption
  <2> QED
    BY <2>2, <2>3
<1>5. TablesRight(emu)
  BY <1>1, <1>2, <1>4 DEF TablesRight, SymbolsRight
<1> QED
  BY <1>3, <1>5

(* LinksRight, for any images, in any number, loaded in any order, the bad ones  *)
(* among them: every reference of every loaded module is bound to what it stands   *)
(* for, and its memory and rights are its file's (Apply, resolveSymbol,           *)
(* LoadModule).                                                               *)
THEOREM LinksRightAlways == LinkSpec => []LinksRight
<1>1. LinkInv => LinksRight
  BY InvIsRight
<1> QED
  BY <1>1, LinkInvariance, PTL
=============================================================================
