-------------------------- MODULE AddressSpaceProofs ---------------------------
(***************************************************************************)
(* The allocator's table and the engine's pages, over every call of the     *)
(* guest and over Snapshot and Restore, for any segments, layout, contents  *)
(* and guests.                                                              *)
(*                                                                         *)
(* What holds of every guest is where regions lie and what a snapshot holds *)
(* (Placed, Taken).  Of a guest without habits the table, the break and the *)
(* engine are in step (InStep), and so were those of the snapshot, whose    *)
(* break the guest's has only moved up from: of that Restore can bring one  *)
(* back to the other.                                                       *)
(***************************************************************************)
EXTENDS AddressSpace, TLAPS

Limit == MmapBase + ArenaPages
HeapProt == {"R", "W"}

(* Regions lie within the pages.                                              *)
Placed(rs) == \A r \in rs : r \in Range /\ EndOf(r) <= Limit

Ranges(rs, b) ==
  Segments \cup rs
  \cup IF BrkTop(b) > BrkBase
       THEN {[lo |-> BrkBase, size |-> BrkTop(b) - BrkBase, prot |-> HeapProt]} ELSE {}

Whole(e, ps) == Mapped(e, ps) \/ Free(e, ps)

(* Table rs below cursor top, break b and engine pages e of an orderly guest. *)
InStep(rs, top, b, e) ==
  /\ Disjoint(rs) /\ \A r \in rs : MmapBase <= r.lo /\ EndOf(r) <= top
  /\ \A p \in Arena : e[p] # Absent <=> p \in Covered(rs)
  /\ \A r \in rs : \A p \in Span(r) : e[p].prot \in {r.prot, r.prot \cup {"R"}}
  /\ \A p \in BrkArea : e[p] # Absent <=> p < BrkTop(b)
  /\ \A s \in Segments : Whole(e, Span(s))

Kept ==
  /\ habits \in DOMAIN Guests /\ calls \in 0 .. Guests[habits].calls
  /\ mmapTop \in MmapBase .. Limit /\ brkCur \in 0 .. 2 * BrkPages
  /\ eng \in [Pages -> PageState \cup {Absent}]
  /\ Placed(regions)

Taken ==
  snap # NoSnap =>
    /\ snap = [ranges |-> snap.ranges, writable |-> snap.writable, layout |-> snap.layout,
               mmapTop |-> snap.mmapTop, brk |-> snap.brk, image |-> snap.image]
    /\ snap.mmapTop \in MmapBase .. Limit /\ snap.brk \in 0 .. 2 * BrkPages
    /\ snap.image \in [Pages -> PageState \cup {Absent}]
    /\ Placed(snap.layout)
    /\ snap.ranges = Ranges(snap.layout, snap.brk) /\ Disjoint(snap.ranges)
    /\ snap.writable = {r \in snap.ranges : "W" \in r.prot /\ Mapped(snap.image, Span(r))}

Orderly ==
  habits = {} =>
    /\ InStep(regions, mmapTop, brkCur, eng)
    /\ snap # NoSnap => /\ InStep(snap.layout, snap.mmapTop, snap.brk, snap.image)
                        /\ snap.brk <= brkCur

IInv == Kept /\ Taken /\ Orderly

-----------------------------------------------------------------------------
(* Pages and ranges.                                                         *)

Eng == [Pages -> PageState \cup {Absent}]

LEMMA Layout ==
  /\ BrkBase \in Nat /\ BrkPages \in Nat /\ MmapBase \in Nat /\ ArenaPages \in Nat /\ Limit \in Nat
  /\ BrkBase + BrkPages <= MmapBase /\ MmapBase <= Limit
  /\ Arena \subseteq Pages /\ BrkArea \subseteq Pages /\ Pages = 0 .. Limit - 1
  /\ \A p \in Arena : p \in Nat /\ MmapBase <= p /\ p < Limit
  /\ \A p \in BrkArea : p \in Nat /\ BrkBase <= p /\ p < MmapBase
BY LayoutAssumption DEF Limit, Arena, BrkArea, Pages

LEMMA BrkTops ==
  ASSUME NEW b \in 0 .. 2 * BrkPages
  PROVE  /\ BrkTop(b) \in Nat /\ BrkBase <= BrkTop(b) /\ BrkTop(b) <= BrkBase + BrkPages
         /\ \A c \in 0 .. 2 * BrkPages : b <= c => BrkTop(b) <= BrkTop(c)
BY LayoutAssumption DEF BrkTop

LEMMA Ranged ==
  ASSUME NEW r \in Range
  PROVE  /\ r.lo \in Nat /\ r.size \in Nat /\ r.size > 0 /\ r.prot \in Protections
         /\ EndOf(r) \in Nat /\ r.lo < EndOf(r) /\ EndOf(r) = r.lo + r.size
         /\ \A p : p \in Span(r) <=> p \in Nat /\ r.lo <= p /\ p < EndOf(r)
         /\ r.lo \in Span(r) /\ r = [lo |-> r.lo, size |-> r.size, prot |-> r.prot]
         /\ EndOf(r) <= Limit => Span(r) \subseteq Pages
BY LayoutAssumption DEF Range, EndOf, Span, Limit, Pages

LEMMA SegmentsLow ==
  ASSUME NEW s \in Segments
  PROVE  /\ s \in Range /\ EndOf(s) <= BrkBase /\ EndOf(s) <= Limit
         /\ Span(s) \subseteq Pages /\ Span(s) \cap Arena = {} /\ Span(s) \cap BrkArea = {}
<1>1. s \in Range /\ EndOf(s) <= BrkBase
  BY LayoutAssumption
<1> QED
  BY <1>1, Ranged, Layout

LEMMA CoveredBy ==
  ASSUME NEW rs, NEW p
  PROVE  p \in Covered(rs) <=> \E r \in rs : p \in Span(r)
BY DEF Covered

(* Of disjoint ranges, a page is in one.                                      *)
LEMMA OneEach ==
  ASSUME NEW rs, Disjoint(rs), rs \subseteq Range, NEW r \in rs, NEW s \in rs, NEW p, p \in Span(r), p \in Span(s)
  PROVE  r = s
<1>1. r \in Range /\ s \in Range
  OBVIOUS
<1>2. p \in Nat /\ r.lo <= p /\ p < EndOf(r) /\ s.lo <= p /\ p < EndOf(s)
  BY <1>1, Ranged
<1>3. r # s => EndOf(r) <= s.lo \/ EndOf(s) <= r.lo
  BY DEF Disjoint
<1> QED
  BY <1>1, <1>2, <1>3, Ranged

-----------------------------------------------------------------------------
(* The engine.                                                               *)

LEMMA PageIsThere == \A x \in PageState : x # Absent
BY LayoutAssumption DEF PageState

LEMMA Maps ==
  ASSUME NEW e \in Eng, NEW ps, NEW pr \in Protections
  PROVE  /\ MemMap(e, ps, pr) \in Eng
         /\ Free(e, ps) => \A p \in Pages : /\ p \in ps => /\ MemMap(e, ps, pr)[p] # Absent
                                                           /\ MemMap(e, ps, pr)[p].prot = pr
                                            /\ p \notin ps => MemMap(e, ps, pr)[p] = e[p]
<1>1. [prot |-> pr, val |-> Zero] \in PageState
  BY LayoutAssumption DEF PageState
<1> QED
  BY <1>1, PageIsThere DEF MemMap, Eng

LEMMA Unmaps ==
  ASSUME NEW e \in Eng, NEW ps
  PROVE  /\ MemUnmap(e, ps) \in Eng
         /\ Mapped(e, ps) => \A p \in Pages : MemUnmap(e, ps)[p] = IF p \in ps THEN Absent ELSE e[p]
         /\ ~Mapped(e, ps) => MemUnmap(e, ps) = e
BY DEF MemUnmap, Eng

LEMMA Protects ==
  ASSUME NEW e \in Eng, NEW ps \in SUBSET Pages, NEW pr \in Protections
  PROVE  /\ MemProtect(e, ps, pr) \in Eng
         /\ \A p \in Pages : /\ MemProtect(e, ps, pr)[p] = Absent <=> e[p] = Absent
                             /\ p \notin ps => MemProtect(e, ps, pr)[p] = e[p]
                             /\ p \in ps /\ Mapped(e, ps) => MemProtect(e, ps, pr)[p].prot = pr
<1>1. ASSUME Mapped(e, ps), NEW p \in Pages
      PROVE  /\ p \in ps => /\ MemProtect(e, ps, pr)[p] \in PageState /\ MemProtect(e, ps, pr)[p].prot = pr
                            /\ e[p] # Absent
             /\ p \notin ps => MemProtect(e, ps, pr)[p] = e[p]
  <2>1. MemProtect(e, ps, pr)[p] = IF p \in ps THEN [e[p] EXCEPT !.prot = pr] ELSE e[p]
    BY <1>1 DEF MemProtect
  <2>2. p \in ps => e[p] \in PageState /\ e[p] # Absent
    BY <1>1 DEF Mapped, Eng
  <2> QED
    BY <2>1, <2>2 DEF PageState
<1>2. CASE Mapped(e, ps)
  <2>1. MemProtect(e, ps, pr) = [p \in Pages |-> MemProtect(e, ps, pr)[p]]
    BY <1>2 DEF MemProtect
  <2>2. \A p \in Pages : MemProtect(e, ps, pr)[p] \in PageState \cup {Absent}
    BY <1>1, <1>2 DEF Eng
  <2>3. MemProtect(e, ps, pr) \in Eng
    BY <2>1, <2>2 DEF Eng
  <2> QED
    BY <1>1, <1>2, <2>3, PageIsThere
<1>3. CASE ~Mapped(e, ps)
  BY <1>3 DEF MemProtect
<1> QED
  BY <1>2, <1>3

(* The same of the pages f that such a call leaves.                           *)
LEMMA MapsTo ==
  ASSUME NEW e, NEW ps, NEW pr, NEW f, e \in Eng, pr \in Protections, f = MemMap(e, ps, pr), Free(e, ps)
  PROVE  \A p \in Pages : /\ p \in ps => f[p] # Absent /\ f[p].prot = pr
                          /\ p \notin ps => f[p] = e[p]
BY Maps

LEMMA ProtectsTo ==
  ASSUME NEW e, NEW ps, NEW pr, NEW f, e \in Eng, ps \in SUBSET Pages, pr \in Protections, f = MemProtect(e, ps, pr)
  PROVE  \A p \in Pages : /\ f[p] = Absent <=> e[p] = Absent
                          /\ p \notin ps => f[p] = e[p]
<1> SUFFICES ASSUME NEW p \in Pages PROVE (f[p] = Absent <=> e[p] = Absent) /\ (p \notin ps => f[p] = e[p])
  OBVIOUS
<1>1. /\ MemProtect(e, ps, pr)[p] = Absent <=> e[p] = Absent
      /\ p \notin ps => MemProtect(e, ps, pr)[p] = e[p]
  BY Protects
<1> QED
  BY <1>1

-----------------------------------------------------------------------------
(* The allocator's table.                                                    *)

(* What is left of r when [lo, end) is cut out.                               *)
Piece(x, r, lo, end) ==
  \/ x = r /\ (EndOf(r) <= lo \/ end <= r.lo)
  \/ r.lo < lo /\ lo < EndOf(r) /\ x = [r EXCEPT !.size = lo - r.lo]
  \/ r.lo < end /\ end < EndOf(r) /\ x = [r EXCEPT !.lo = end, !.size = EndOf(r) - end]

LEMMA CutPieces ==
  ASSUME NEW rs, NEW lo, NEW end, NEW x
  PROVE  x \in Cut(rs, lo, end) <=> \E r \in rs : Piece(x, r, lo, end)
BY DEF Cut, Piece

LEMMA Pieces ==
  ASSUME NEW r \in Range, NEW lo \in Nat, NEW end \in Nat, lo < end, NEW x, Piece(x, r, lo, end)
  PROVE  /\ x \in Range /\ x.prot = r.prot /\ r.lo <= x.lo /\ EndOf(x) <= EndOf(r)
         /\ EndOf(x) <= lo \/ end <= x.lo
         /\ Span(x) \subseteq Span(r)
<1>1. /\ r.lo \in Nat /\ r.size \in Nat /\ r.size > 0 /\ r.prot \in Protections
      /\ r = [lo |-> r.lo, size |-> r.size, prot |-> r.prot] /\ EndOf(r) = r.lo + r.size
  BY Ranged
<1>2. CASE x = r /\ (EndOf(r) <= lo \/ end <= r.lo)
  BY <1>1, <1>2
<1>3. CASE r.lo < lo /\ lo < EndOf(r) /\ x = [r EXCEPT !.size = lo - r.lo]
  <2>1. x.lo = r.lo /\ x.size = lo - r.lo /\ x.prot = r.prot
    BY <1>1, <1>3
  <2>2. x \in Range
    BY <1>1, <1>3 DEF Range
  <2>3. EndOf(x) = lo
    BY <1>1, <2>1 DEF EndOf
  <2> QED
    BY <1>1, <1>3, <2>1, <2>2, <2>3, Ranged
<1>4. CASE r.lo < end /\ end < EndOf(r) /\ x = [r EXCEPT !.lo = end, !.size = EndOf(r) - end]
  <2>1. EndOf(r) - end \in Nat \ {0}
    BY <1>1, <1>4
  <2>2. x \in Range /\ x.lo = end /\ x.size = EndOf(r) - end /\ x.prot = r.prot
    <3>1. ASSUME NEW n \in Nat \ {0}, NEW z, z = [r EXCEPT !.lo = end, !.size = n]
          PROVE  z \in Range /\ z.lo = end /\ z.size = n /\ z.prot = r.prot
      BY <3>1 DEF Range
    <3> QED
      BY <1>4, <2>1, <3>1
  <2>3. EndOf(x) = EndOf(r)
    BY <1>1, <2>2 DEF EndOf
  <2>4. \A p : p \in Span(x) => p \in Nat /\ end <= p /\ p < EndOf(r)
    BY <2>2, <2>3, Ranged
  <2>5. Span(x) \subseteq Span(r)
    BY <1>1, <1>4, <2>4, Ranged
  <2> QED
    BY <1>1, <1>4, <2>2, <2>3, <2>5
<1> QED
  BY <1>2, <1>3, <1>4 DEF Piece

(* Two pieces of a range are the same or apart.                               *)
LEMMA PiecesApart ==
  ASSUME NEW r \in Range, NEW lo \in Nat, NEW end \in Nat, lo < end,
         NEW x, Piece(x, r, lo, end), NEW y, Piece(y, r, lo, end), x # y
  PROVE  EndOf(x) <= y.lo \/ EndOf(y) <= x.lo
<1>1. /\ r.lo \in Nat /\ r.size \in Nat /\ r.size > 0 /\ r.prot \in Protections
      /\ r = [lo |-> r.lo, size |-> r.size, prot |-> r.prot] /\ EndOf(r) = r.lo + r.size
  BY Ranged
<1>2. x \in Range /\ y \in Range /\ x.lo \in Nat /\ EndOf(x) \in Nat /\ y.lo \in Nat /\ EndOf(y) \in Nat
  BY Pieces, Ranged
<1> DEFINE Front(z) == r.lo < lo /\ lo < EndOf(r) /\ z = [r EXCEPT !.size = lo - r.lo]
           Back(z) == r.lo < end /\ end < EndOf(r) /\ z = [r EXCEPT !.lo = end, !.size = EndOf(r) - end]
           Kin(z) == z = r /\ (EndOf(r) <= lo \/ end <= r.lo)
<1>3. \A z : Front(z) => EndOf(z) = lo
  BY <1>1 DEF EndOf
<1>4. \A z : Back(z) => z.lo = end
  BY <1>1
<1>5. \A z, v : Front(z) /\ Back(v) => EndOf(z) <= v.lo
  BY <1>3, <1>4
<1>6. \A z, v : ~(Kin(z) /\ Front(v)) /\ ~(Kin(z) /\ Back(v))
  BY <1>1
<1>7. (Kin(x) \/ Front(x) \/ Back(x)) /\ (Kin(y) \/ Front(y) \/ Back(y))
  BY DEF Piece
<1>8. ~(Kin(x) /\ Kin(y)) /\ ~(Front(x) /\ Front(y)) /\ ~(Back(x) /\ Back(y))
  OBVIOUS
<1> HIDE DEF Front, Back, Kin
<1> QED
  BY <1>5, <1>6, <1>7, <1>8

(* Cutting [lo, end) out: nothing in it stays, nothing outside it goes.       *)
LEMMA CutTable ==
  ASSUME NEW rs, Placed(rs), NEW lo \in Nat, NEW end \in Nat, lo < end
  PROVE  /\ Placed(Cut(rs, lo, end))
         /\ \A x \in Cut(rs, lo, end) : EndOf(x) <= lo \/ end <= x.lo
         /\ \A x \in Cut(rs, lo, end) :
              \E r \in rs : x.prot = r.prot /\ r.lo <= x.lo /\ EndOf(x) <= EndOf(r) /\ Span(x) \subseteq Span(r)
         /\ Disjoint(rs) => Disjoint(Cut(rs, lo, end))
         /\ \A p : p \in Covered(Cut(rs, lo, end)) <=> p \in Covered(rs) /\ p \notin lo .. end - 1
<1> DEFINE cs == Cut(rs, lo, end)
<1>1. \A r \in rs : r \in Range /\ EndOf(r) <= Limit
  BY DEF Placed
<1>2. ASSUME NEW x \in cs
      PROVE  \E r \in rs : /\ Piece(x, r, lo, end) /\ x \in Range /\ x.prot = r.prot
                           /\ r.lo <= x.lo /\ EndOf(x) <= EndOf(r) /\ EndOf(x) <= Limit
                           /\ EndOf(x) <= lo \/ end <= x.lo
                           /\ Span(x) \subseteq Span(r)
  <2>1. PICK r \in rs : Piece(x, r, lo, end)
    BY <1>2, CutPieces
  <2>2. /\ x \in Range /\ x.prot = r.prot /\ r.lo <= x.lo /\ EndOf(x) <= EndOf(r)
        /\ EndOf(x) <= lo \/ end <= x.lo
        /\ Span(x) \subseteq Span(r)
    BY <1>1, <2>1, Pieces
  <2>3. EndOf(x) <= Limit
    BY <1>1, <2>2, Ranged, Layout
  <2> QED
    BY <2>1, <2>2, <2>3
<1>3. Placed(cs) /\ \A x \in cs : EndOf(x) <= lo \/ end <= x.lo
  BY <1>2 DEF Placed
<1>4. ASSUME Disjoint(rs) PROVE Disjoint(cs)
  <2> SUFFICES ASSUME NEW x \in cs, NEW y \in cs, x # y PROVE EndOf(x) <= y.lo \/ EndOf(y) <= x.lo
    BY DEF Disjoint
  <2>1. PICK r \in rs : Piece(x, r, lo, end) /\ x \in Range /\ r.lo <= x.lo /\ EndOf(x) <= EndOf(r)
    BY <1>2
  <2>2. PICK s \in rs : Piece(y, s, lo, end) /\ y \in Range /\ s.lo <= y.lo /\ EndOf(y) <= EndOf(s)
    BY <1>2
  <2>3. CASE r = s
    BY <1>1, <2>1, <2>2, <2>3, PiecesApart
  <2>4. CASE r # s
    <3>1. EndOf(r) <= s.lo \/ EndOf(s) <= r.lo
      BY <1>4, <2>4 DEF Disjoint
    <3>2. /\ r.lo \in Nat /\ EndOf(r) \in Nat /\ s.lo \in Nat /\ EndOf(s) \in Nat
          /\ x.lo \in Nat /\ EndOf(x) \in Nat /\ y.lo \in Nat /\ EndOf(y) \in Nat
      BY <1>1, <2>1, <2>2, Ranged
    <3> QED
      BY <2>1, <2>2, <3>1, <3>2
  <2> QED
    BY <2>3, <2>4
<1>5. ASSUME NEW p, p \in Covered(cs) PROVE p \in Covered(rs) /\ p \notin lo .. end - 1
  <2>1. PICK x \in cs : p \in Span(x)
    BY <1>5, CoveredBy
  <2>2. PICK r \in rs : x \in Range /\ Span(x) \subseteq Span(r) /\ (EndOf(x) <= lo \/ end <= x.lo)
    BY <1>2
  <2>3. p \in Nat /\ x.lo <= p /\ p < EndOf(x) /\ x.lo \in Nat /\ EndOf(x) \in Nat
    BY <2>1, <2>2, Ranged
  <2> QED
    BY <2>1, <2>2, <2>3, CoveredBy
<1>6. ASSUME NEW p, p \in Covered(rs), p \notin lo .. end - 1 PROVE p \in Covered(cs)
  <2>1. PICK r \in rs : p \in Span(r)
    BY <1>6, CoveredBy
  <2>2. r \in Range /\ p \in Nat /\ r.lo <= p /\ p < EndOf(r) /\ r.lo \in Nat /\ EndOf(r) \in Nat
    BY <1>1, <2>1, Ranged
  <2>3. p < lo \/ end <= p
    BY <1>6, <2>2
  <2>4. \E x : Piece(x, r, lo, end) /\ x.lo <= p /\ p < EndOf(x)
    <3>1. CASE EndOf(r) <= lo \/ end <= r.lo
      BY <2>2, <3>1 DEF Piece
    <3>2. CASE ~(EndOf(r) <= lo \/ end <= r.lo) /\ p < lo
      <4> DEFINE x == [r EXCEPT !.size = lo - r.lo]
      <4>1. x.lo = r.lo /\ x.size = lo - r.lo
        BY <2>2 DEF Range
      <4>2. EndOf(x) = lo
        BY <2>2, <4>1 DEF EndOf
      <4>3. Piece(x, r, lo, end)
        BY <2>2, <3>2 DEF Piece
      <4> QED
        BY <2>2, <3>2, <4>1, <4>2, <4>3
    <3>3. CASE ~(EndOf(r) <= lo \/ end <= r.lo) /\ end <= p
      <4> DEFINE x == [r EXCEPT !.lo = end, !.size = EndOf(r) - end]
      <4>1. x.lo = end /\ x.size = EndOf(r) - end
        BY <2>2 DEF Range
      <4>2. EndOf(x) = EndOf(r)
        BY <2>2, <4>1 DEF EndOf
      <4>3. Piece(x, r, lo, end)
        BY <2>2, <3>3 DEF Piece
      <4> QED
        BY <2>2, <3>3, <4>1, <4>2, <4>3
    <3> QED
      BY <2>3, <3>1, <3>2, <3>3
  <2>5. PICK x : Piece(x, r, lo, end) /\ x.lo <= p /\ p < EndOf(x)
    BY <2>4
  <2>6. x \in cs
    BY <2>5, CutPieces
  <2>7. x \in Range
    BY <1>2, <2>6
  <2> QED
    BY <2>2, <2>5, <2>6, <2>7, Ranged, CoveredBy
<1>7. \A x \in cs : \E r \in rs : x.prot = r.prot /\ r.lo <= x.lo /\ EndOf(x) <= EndOf(r) /\ Span(x) \subseteq Span(r)
  BY <1>2
<1> HIDE DEF cs
<1> QED
  BY <1>3, <1>4, <1>5, <1>6, <1>7 DEF cs

(* A region beside the others.                                                *)
LEMMA AddedTable ==
  ASSUME NEW rs, Placed(rs), NEW r \in Range, EndOf(r) <= Limit
  PROVE  /\ Placed(rs \cup {r})
         /\ Disjoint(rs) /\ (\A x \in rs : EndOf(x) <= r.lo \/ EndOf(r) <= x.lo) => Disjoint(rs \cup {r})
         /\ \A p : p \in Covered(rs \cup {r}) <=> p \in Covered(rs) \/ p \in Span(r)
BY CoveredBy DEF Placed, Disjoint, Covered

LEMMA ReprotectedTable ==
  ASSUME NEW rs, Placed(rs), NEW lo, NEW end, NEW pr \in Protections
  PROVE  /\ Placed(Reprotected(rs, lo, end, pr))
         /\ Disjoint(rs) => Disjoint(Reprotected(rs, lo, end, pr))
         /\ \A p : p \in Covered(Reprotected(rs, lo, end, pr)) <=> p \in Covered(rs)
         /\ \A x \in Reprotected(rs, lo, end, pr) :
              \E r \in rs : /\ x.lo = r.lo /\ EndOf(x) = EndOf(r) /\ Span(x) = Span(r)
                            /\ x.prot = IF Within(r, lo, end) THEN pr ELSE r.prot
<1> DEFINE qs == Reprotected(rs, lo, end, pr)
           To(r) == IF Within(r, lo, end) THEN [r EXCEPT !.prot = pr] ELSE r
<1>1. \A r \in rs : r \in Range /\ EndOf(r) <= Limit
  BY DEF Placed
<1>2. ASSUME NEW r \in rs
      PROVE  /\ To(r) \in Range /\ To(r).lo = r.lo /\ EndOf(To(r)) = EndOf(r) /\ Span(To(r)) = Span(r)
             /\ To(r).prot = IF Within(r, lo, end) THEN pr ELSE r.prot
  <2>1. To(r) \in Range /\ To(r).lo = r.lo /\ To(r).size = r.size
        /\ To(r).prot = IF Within(r, lo, end) THEN pr ELSE r.prot
    BY <1>1 DEF Range
  <2> HIDE DEF To
  <2>2. EndOf(To(r)) = EndOf(r)
    BY <2>1 DEF EndOf
  <2> QED
    BY <2>1, <2>2 DEF Span
<1>3. \A x : x \in qs <=> \E r \in rs : x = To(r)
  BY DEF Reprotected
<1> HIDE DEF qs, To
<1>4. Placed(qs)
  BY <1>1, <1>2, <1>3 DEF Placed
<1>5. Disjoint(rs) => Disjoint(qs)
  BY <1>2, <1>3 DEF Disjoint
<1>6. \A p : p \in Covered(qs) <=> p \in Covered(rs)
  BY <1>2, <1>3, CoveredBy
<1>7. \A x \in qs : \E r \in rs : /\ x.lo = r.lo /\ EndOf(x) = EndOf(r) /\ Span(x) = Span(r)
                                  /\ x.prot = IF Within(r, lo, end) THEN pr ELSE r.prot
  BY <1>2, <1>3
<1> QED
  BY <1>4, <1>5, <1>6, <1>7 DEF qs

-----------------------------------------------------------------------------
(* Steps of an orderly guest.                                                *)

(* Pages the engine keeps keep a range whole.                                 *)
LEMMA WholeKept ==
  ASSUME NEW e, NEW f, NEW ps, Whole(e, ps), \A p \in ps : f[p] = Absent <=> e[p] = Absent
  PROVE  Whole(f, ps)
BY DEF Whole, Mapped, Free

(* A region that is mapped where no other is.                                 *)
LEMMA StepAdds ==
  ASSUME NEW rs, Placed(rs), NEW top \in Nat, NEW b, NEW e, InStep(rs, top, b, e),
         NEW r \in Range, NEW upTo \in Nat, MmapBase <= r.lo, EndOf(r) <= upTo, top <= upTo, upTo <= Limit,
         \A x \in rs : EndOf(x) <= r.lo \/ EndOf(r) <= x.lo, NEW f,
         \A p \in Span(r) : f[p] # Absent /\ f[p].prot \in {r.prot, r.prot \cup {"R"}},
         \A p \in Pages \ Span(r) : f[p] = e[p]
  PROVE  InStep(rs \cup {r}, upTo, b, f)
<1>1. /\ r.lo \in Nat /\ EndOf(r) \in Nat /\ EndOf(r) <= Limit
      /\ \A p : p \in Span(r) <=> p \in Nat /\ r.lo <= p /\ p < EndOf(r)
  BY Ranged, Layout
<1>2. Disjoint(rs \cup {r}) /\ \A p : p \in Covered(rs \cup {r}) <=> p \in Covered(rs) \/ p \in Span(r)
  BY <1>1, AddedTable DEF InStep
<1>3. \A x \in rs \cup {r} : MmapBase <= x.lo /\ EndOf(x) <= upTo
  <2> SUFFICES ASSUME NEW x \in rs PROVE MmapBase <= x.lo /\ EndOf(x) <= upTo
    OBVIOUS
  <2>1. MmapBase <= x.lo /\ EndOf(x) <= top /\ EndOf(x) \in Nat
    BY Ranged DEF InStep, Placed
  <2> QED
    BY <2>1
<1>4. \A p \in Arena : f[p] # Absent <=> p \in Covered(rs \cup {r})
  BY <1>2, Layout DEF InStep
<1>5. ASSUME NEW x \in rs, NEW p \in Span(x) PROVE f[p].prot \in {x.prot, x.prot \cup {"R"}}
  <2>1. x \in Range /\ EndOf(x) <= Limit
    BY DEF Placed
  <2>2. p \in Pages /\ p \in Nat /\ x.lo <= p /\ p < EndOf(x) /\ x.lo \in Nat /\ EndOf(x) \in Nat
    BY <2>1, Ranged
  <2>3. p \notin Span(r)
    BY <1>1, <2>2
  <2> QED
    BY <2>2, <2>3 DEF InStep
<1>6. \A p \in BrkArea : f[p] = e[p]
  BY <1>1, Layout
<1>7. \A s \in Segments : Whole(f, Span(s))
  <2> SUFFICES ASSUME NEW s \in Segments PROVE Whole(f, Span(s))
    OBVIOUS
  <2>1. \A p \in Span(s) : p \in Pages /\ p \notin Span(r)
    <3>1. s \in Range /\ EndOf(s) <= BrkBase /\ Span(s) \subseteq Pages
      BY SegmentsLow
    <3> QED
      BY <1>1, <3>1, Ranged, Layout
  <2> QED
    BY <2>1, WholeKept DEF InStep
<1> QED
  BY <1>2, <1>3, <1>4, <1>5, <1>6, <1>7 DEF InStep

(* Pages that leave both the table and the engine.                            *)
LEMMA StepCuts ==
  ASSUME NEW rs, Placed(rs), NEW top \in Nat, NEW b, NEW e, InStep(rs, top, b, e),
         NEW lo \in Nat, NEW end \in Nat, lo < end, NEW f,
         \A p \in Arena : f[p] = IF p \in lo .. end - 1 THEN Absent ELSE e[p],
         \A p \in BrkArea : f[p] = e[p], \A s \in Segments : Whole(f, Span(s))
  PROVE  InStep(Cut(rs, lo, end), top, b, f)
<1> DEFINE cs == Cut(rs, lo, end)
<1>1. /\ Placed(cs) /\ Disjoint(cs)
      /\ \A p : p \in Covered(cs) <=> p \in Covered(rs) /\ p \notin lo .. end - 1
      /\ \A x \in cs : EndOf(x) <= lo \/ end <= x.lo
  BY CutTable DEF InStep
<1>2. ASSUME NEW x \in cs
      PROVE  /\ MmapBase <= x.lo /\ EndOf(x) <= top
             /\ \A p \in Span(x) : f[p].prot \in {x.prot, x.prot \cup {"R"}}
  <2>1. PICK r \in rs : x.prot = r.prot /\ r.lo <= x.lo /\ EndOf(x) <= EndOf(r) /\ Span(x) \subseteq Span(r)
    BY CutTable
  <2>2. x \in Range /\ EndOf(x) <= Limit /\ r \in Range /\ MmapBase <= r.lo /\ EndOf(r) <= top
    BY <1>1 DEF Placed, InStep
  <2>3. /\ x.lo \in Nat /\ EndOf(x) \in Nat /\ r.lo \in Nat /\ EndOf(r) \in Nat
        /\ \A p : p \in Span(x) <=> p \in Nat /\ x.lo <= p /\ p < EndOf(x)
    BY <2>2, Ranged
  <2>4. \A p \in Span(x) : p \in Arena /\ p \notin lo .. end - 1
    <3>1. ASSUME NEW p \in Span(x) PROVE p \in Arena /\ p \notin lo .. end - 1
      <4>1. p \in Nat /\ MmapBase <= p /\ p < Limit
        BY <2>1, <2>2, <2>3, Layout
      <4>2. p \in Arena
        BY <4>1, Layout DEF Arena, Limit
      <4>3. p < lo \/ end <= p
        BY <1>1, <2>3
      <4> QED
        BY <4>1, <4>2, <4>3
    <3> QED
      BY <3>1
  <2>5. \A p \in Span(x) : e[p].prot \in {r.prot, r.prot \cup {"R"}}
    BY <2>1 DEF InStep
  <2> QED
    BY <2>1, <2>2, <2>3, <2>4, <2>5, Layout
<1>3. \A p \in Arena : f[p] # Absent <=> p \in Covered(cs)
  BY <1>1 DEF InStep
<1> HIDE DEF cs
<1>4. \A p \in BrkArea : f[p] # Absent <=> p < BrkTop(b)
  BY DEF InStep
<1>5. InStep(cs, top, b, f)
  BY <1>1, <1>2, <1>3, <1>4 DEF InStep
<1> QED
  BY <1>5 DEF cs

(* A step of the engine on its own that leaves the arena's protections and    *)
(* what is mapped there, and in the segments, as they are.                    *)
LEMMA StepBeside ==
  ASSUME NEW rs, Placed(rs), NEW top \in Nat, top <= Limit, NEW b, NEW e, InStep(rs, top, b, e), NEW c, NEW f,
         \A p \in Arena : (f[p] = Absent <=> e[p] = Absent) /\ (e[p] # Absent => f[p].prot = e[p].prot),
         \A p \in BrkArea : f[p] # Absent <=> p < BrkTop(c),
         \A s \in Segments : \A p \in Span(s) : f[p] = Absent <=> e[p] = Absent
  PROVE  InStep(rs, top, c, f)
<1>1. ASSUME NEW r \in rs, NEW p \in Span(r) PROVE f[p].prot \in {r.prot, r.prot \cup {"R"}}
  <2>1. r \in Range /\ MmapBase <= r.lo /\ EndOf(r) <= top
    BY DEF Placed, InStep
  <2>2. p \in Nat /\ r.lo <= p /\ p < EndOf(r) /\ r.lo \in Nat /\ EndOf(r) \in Nat
    BY <2>1, Ranged
  <2>3. p \in Arena
    BY <2>1, <2>2, Layout DEF Arena, Limit
  <2>4. e[p] # Absent
    BY <2>3, CoveredBy DEF InStep
  <2> QED
    BY <2>3, <2>4 DEF InStep
<1>2. ASSUME NEW s \in Segments PROVE Whole(f, Span(s))
  <2>1. Whole(e, Span(s))
    BY DEF InStep
  <2> QED
    BY <2>1, WholeKept
<1> QED
  BY <1>1, <1>2 DEF InStep

(* A protection of whole regions.                                             *)
LEMMA StepProtects ==
  ASSUME NEW rs, Placed(rs), NEW top \in Nat, top <= Limit, NEW b, NEW e \in Eng, InStep(rs, top, b, e),
         NEW lo \in Nat, NEW end \in Nat, NEW pr \in Protections,
         Covered({r \in rs : Within(r, lo, end)}) = lo .. end - 1
  PROVE  InStep(Reprotected(rs, lo, end, pr), top, b, MemProtect(e, lo .. end - 1, pr))
<1> DEFINE qs == Reprotected(rs, lo, end, pr)
           ps == lo .. end - 1
           f == MemProtect(e, ps, pr)
<1>1. \A r \in rs : /\ r \in Range /\ EndOf(r) <= Limit /\ MmapBase <= r.lo /\ EndOf(r) <= top
                    /\ r.lo \in Nat /\ EndOf(r) \in Nat
  BY Ranged DEF Placed, InStep
<1>2. ASSUME NEW r \in rs, NEW p \in Span(r) PROVE p \in Arena
  BY <1>1, Ranged, Layout DEF Arena, Limit
<1>3. ASSUME NEW p \in ps PROVE \E r \in rs : Within(r, lo, end) /\ p \in Span(r)
  <2> DEFINE ws == {r \in rs : Within(r, lo, end)}
  <2>1. p \in Covered(ws)
    OBVIOUS
  <2> HIDE DEF ws
  <2>2. PICK r \in ws : p \in Span(r)
    BY <2>1, CoveredBy
  <2> QED
    BY <2>2 DEF ws
<1>4. ps \subseteq Arena /\ ps \subseteq Pages
  BY <1>2, <1>3, Layout
<1>5. Mapped(e, ps)
  BY <1>3, <1>4, CoveredBy DEF Mapped, InStep
<1> HIDE DEF ps
<1>6. \A p \in Pages : /\ f[p] = Absent <=> e[p] = Absent
                       /\ p \notin ps => f[p] = e[p]
                       /\ p \in ps => f[p].prot = pr
  BY <1>4, <1>5, Protects
<1> HIDE DEF f
<1>7. /\ Placed(qs) /\ Disjoint(qs) /\ \A p : p \in Covered(qs) <=> p \in Covered(rs)
      /\ \A x \in qs : \E r \in rs : /\ x.lo = r.lo /\ EndOf(x) = EndOf(r) /\ Span(x) = Span(r)
                                     /\ x.prot = IF Within(r, lo, end) THEN pr ELSE r.prot
  BY ReprotectedTable DEF InStep
<1> HIDE DEF qs
<1>8. \A x \in qs : MmapBase <= x.lo /\ EndOf(x) <= top
  BY <1>1, <1>7
<1>9. \A p \in Arena : f[p] # Absent <=> p \in Covered(qs)
  BY <1>6, <1>7, Layout DEF InStep
<1>10. ASSUME NEW x \in qs, NEW p \in Span(x) PROVE f[p].prot \in {x.prot, x.prot \cup {"R"}}
  <2>1. PICK r \in rs : Span(x) = Span(r) /\ x.prot = IF Within(r, lo, end) THEN pr ELSE r.prot
    BY <1>7
  <2>2. p \in Pages
    BY <1>2, <2>1, Layout
  <2>3. CASE Within(r, lo, end)
    <3>1. p \in ps
      BY <2>1, <2>3, CoveredBy DEF ps
    <3> QED
      BY <1>6, <2>1, <2>2, <2>3, <3>1
  <2>4. CASE ~Within(r, lo, end)
    <3>1. p \notin ps
      <4> SUFFICES ASSUME p \in ps PROVE FALSE
        OBVIOUS
      <4>1. PICK s \in rs : Within(s, lo, end) /\ p \in Span(s)
        BY <1>3 DEF ps
      <4>2. rs \subseteq Range /\ Disjoint(rs)
        BY <1>1 DEF InStep
      <4>3. r = s
        BY <2>1, <4>1, <4>2, OneEach
      <4> QED
        BY <2>4, <4>1, <4>3
    <3> QED
      BY <1>6, <2>1, <2>2, <2>4, <3>1 DEF InStep
  <2> QED
    BY <2>3, <2>4
<1>11. \A p \in BrkArea : f[p] # Absent <=> p < BrkTop(b)
  BY <1>6, Layout DEF InStep
<1>12. ASSUME NEW s \in Segments PROVE Whole(f, Span(s))
  <2>1. Whole(e, Span(s)) /\ \A p \in Span(s) : f[p] = Absent <=> e[p] = Absent
    BY <1>6, SegmentsLow DEF InStep
  <2> QED
    BY <2>1, WholeKept
<1>13. InStep(qs, top, b, f)
  BY <1>7, <1>8, <1>9, <1>10, <1>11, <1>12 DEF InStep
<1> QED
  BY <1>13 DEF qs, f, ps

-----------------------------------------------------------------------------
(* The calls.                                                                *)

(* What a call has to leave behind.                                           *)
LEMMA CallKeeps ==
  ASSUME IInv, Counted, UNCHANGED <<habits, snap>>,
         mmapTop' \in MmapBase .. Limit, brkCur' \in 0 .. 2 * BrkPages, eng' \in Eng, Placed(regions'),
         habits = {} => InStep(regions', mmapTop', brkCur', eng') /\ brkCur <= brkCur'
  PROVE  IInv'
<1>1. calls' \in 0 .. Guests[habits].calls
  BY LayoutAssumption DEF Counted, IInv, Kept
<1>2. Kept'
  BY <1>1 DEF IInv, Kept, Eng
<1>3. Taken'
  BY DEF IInv, Taken
<1>4. Orderly'
  <2> SUFFICES ASSUME habits = {}, snap # NoSnap
               PROVE  InStep(snap.layout, snap.mmapTop, snap.brk, snap.image) /\ snap.brk <= brkCur'
    BY DEF Orderly
  <2>1. InStep(snap.layout, snap.mmapTop, snap.brk, snap.image) /\ snap.brk <= brkCur
    BY DEF IInv, Orderly
  <2>2. snap.brk \in Int /\ brkCur \in Int /\ brkCur' \in Int
    BY Layout DEF IInv, Taken, Kept
  <2> QED
    BY <2>1, <2>2
<1> QED
  BY <1>2, <1>3, <1>4 DEF IInv

(* The facts about the present state most steps start from.                   *)
LEMMA Now ==
  ASSUME IInv
  PROVE  /\ habits \in DOMAIN Guests /\ Guests[habits].prots \subseteq Protections
         /\ mmapTop \in Nat /\ MmapBase <= mmapTop /\ mmapTop <= Limit /\ mmapTop \in MmapBase .. Limit
         /\ brkCur \in 0 .. 2 * BrkPages /\ eng \in Eng /\ Placed(regions)
         /\ habits = {} => InStep(regions, mmapTop, brkCur, eng)
         /\ \A pr \in Protections : pr \cup {"R"} \in Protections
BY Layout, LayoutAssumption DEF IInv, Kept, Orderly, Eng, Protections

(* Pages the cursor has not passed are free, and no region has them.          *)
LEMMA AboveCursor ==
  ASSUME IInv, habits = {}, NEW p \in Arena, mmapTop <= p
  PROVE  eng[p] = Absent
<1>1. ASSUME NEW r \in regions PROVE p \notin Span(r)
  <2>1. r \in Range /\ EndOf(r) <= mmapTop
    BY Now DEF Placed, InStep
  <2> QED
    BY <2>1, Now, Ranged, Layout
<1>2. p \notin Covered(regions)
  BY <1>1, CoveredBy
<1> QED
  BY <1>2, Now DEF InStep

(* A region at the cursor.                                                    *)
LEMMA AllocatedKeeps ==
  ASSUME IInv, Counted, UNCHANGED <<habits, snap, brkCur>>,
         NEW n \in 1 .. ArenaPages, NEW pr \in Protections, NEW qr \in Protections,
         qr = pr \/ qr = pr \cup {"R"}, mmapTop + n <= MmapBase + ArenaPages,
         regions' = regions \cup {[lo |-> mmapTop, size |-> n, prot |-> pr]}, mmapTop' = mmapTop + n,
         eng' = MemMap(eng, mmapTop .. mmapTop + n - 1, qr)
  PROVE  IInv'
<1> DEFINE r == [lo |-> mmapTop, size |-> n, prot |-> pr]
<1>1. n \in Nat /\ n >= 1 /\ mmapTop \in Nat /\ MmapBase <= mmapTop /\ mmapTop + n <= Limit
  BY Now, Layout DEF Limit
<1>2. r \in Range /\ r.lo = mmapTop /\ r.size = n /\ r.prot = pr
  BY <1>1 DEF Range
<1> HIDE DEF r
<1>3. EndOf(r) = mmapTop + n /\ Span(r) = mmapTop .. mmapTop + n - 1
  BY <1>1, <1>2 DEF EndOf, Span
<1>4. Placed(regions') /\ eng' \in Eng
  BY <1>1, <1>2, <1>3, Now, AddedTable, Maps DEF r
<1>5. mmapTop' \in MmapBase .. Limit /\ brkCur' \in 0 .. 2 * BrkPages
  BY <1>1, Now, Layout
<1>6. ASSUME habits = {} PROVE InStep(regions', mmapTop', brkCur', eng') /\ brkCur <= brkCur'
  <2>1. Span(r) \subseteq Arena /\ Span(r) \subseteq Pages
    BY <1>1, <1>3, Layout DEF Arena, Limit
  <2>2. Free(eng, Span(r))
    BY <1>1, <1>3, <1>6, <2>1, AboveCursor DEF Free
  <2>3. /\ \A p \in Span(r) : eng'[p] # Absent /\ eng'[p].prot \in {r.prot, r.prot \cup {"R"}}
        /\ \A p \in Pages \ Span(r) : eng'[p] = eng[p]
    BY <1>2, <1>3, <2>1, <2>2, Now, Maps
  <2>4. \A x \in regions : EndOf(x) <= r.lo \/ EndOf(r) <= x.lo
    BY <1>2, <1>6, Now DEF InStep
  <2>5. InStep(regions \cup {r}, mmapTop + n, brkCur, eng')
    <3>1. InStep(regions, mmapTop, brkCur, eng) /\ Placed(regions)
      BY <1>6, Now
    <3>2. mmapTop + n \in Nat /\ mmapTop <= mmapTop + n /\ MmapBase <= r.lo /\ EndOf(r) <= mmapTop + n
      BY <1>1, <1>2, <1>3
    <3> QED
      BY <1>1, <1>2, <2>3, <2>4, <3>1, <3>2, StepAdds
  <2>6. brkCur <= brkCur'
    BY Now, Layout
  <2> QED
    BY <2>5, <2>6 DEF r
<1> QED
  BY <1>4, <1>5, <1>6, CallKeeps

LEMMA sysMmapKeeps == ASSUME IInv, sysMmap PROVE IInv'
<1>1. PICK n \in 1 .. ArenaPages, pr \in Guests[habits].prots :
        /\ mmapTop + n <= MmapBase + ArenaPages
        /\ regions' = regions \cup {[lo |-> mmapTop, size |-> n, prot |-> pr]}
        /\ mmapTop' = mmapTop + n
        /\ eng' = MemMap(eng, mmapTop .. mmapTop + n - 1, pr \cup {"R"})
  BY DEF sysMmap
<1>2. Counted /\ UNCHANGED <<habits, snap, brkCur>>
  BY DEF sysMmap
<1>3. pr \in Protections /\ pr \cup {"R"} \in Protections
  BY Now
<1> QED
  BY <1>1, <1>2, <1>3, AllocatedKeeps

LEMMA AllocKeeps == ASSUME IInv, Alloc PROVE IInv'
<1>1. PICK n \in 1 .. ArenaPages :
        /\ mmapTop + n <= MmapBase + ArenaPages
        /\ regions' = regions \cup {[lo |-> mmapTop, size |-> n, prot |-> {"R", "W"}]}
        /\ mmapTop' = mmapTop + n
        /\ eng' = MemMap(eng, mmapTop .. mmapTop + n - 1, {"R", "W"})
  BY DEF Alloc
<1>2. Counted /\ UNCHANGED <<habits, snap, brkCur>>
  BY DEF Alloc
<1>3. {"R", "W"} \in Protections
  BY DEF Protections
<1> QED
  BY <1>1, <1>2, <1>3, AllocatedKeeps

LEMMA sysBrkKeeps == ASSUME IInv, sysBrk PROVE IInv'
<1>1. PICK want \in 0 .. 2 * BrkPages :
        /\ want # brkCur /\ (want > brkCur \/ "shrink" \in habits)
        /\ Free(eng, BrkTop(brkCur) .. BrkTop(want) - 1)
        /\ eng' = MemMap(eng, BrkTop(brkCur) .. BrkTop(want) - 1, {"R", "W"})
        /\ brkCur' = want
  BY DEF sysBrk
<1>2. Counted /\ UNCHANGED <<habits, regions, mmapTop, snap>>
  BY DEF sysBrk
<1> DEFINE new == BrkTop(brkCur) .. BrkTop(want) - 1
<1>3. /\ eng' \in Eng
      /\ \A p \in Pages : /\ p \in new => eng'[p] # Absent
                          /\ p \notin new => eng'[p] = eng[p]
  <2>1. {"R", "W"} \in Protections /\ eng \in Eng
    BY Now DEF Protections
  <2>2. Free(eng, new) /\ eng' = MemMap(eng, new, {"R", "W"})
    BY <1>1
  <2> HIDE DEF new
  <2> QED
    BY <2>1, <2>2, Maps
<1>4. ASSUME habits = {} PROVE InStep(regions', mmapTop', brkCur', eng') /\ brkCur <= brkCur'
  <2>1. want > brkCur /\ brkCur \in Nat /\ want \in Nat
    BY <1>1, <1>4, Now, Layout
  <2>2. /\ BrkTop(brkCur) \in Nat /\ BrkTop(want) \in Nat /\ BrkBase <= BrkTop(brkCur)
        /\ BrkTop(brkCur) <= BrkTop(want) /\ BrkTop(want) <= BrkBase + BrkPages
    BY <1>1, <2>1, Now, BrkTops
  <2>3. \A p \in Arena : eng'[p] = eng[p]
    BY <1>3, <2>2, Layout
  <2>4. \A p \in BrkArea : eng'[p] # Absent <=> p < BrkTop(want)
    <3> SUFFICES ASSUME NEW p \in BrkArea PROVE eng'[p] # Absent <=> p < BrkTop(want)
      OBVIOUS
    <3>1. p \in Pages /\ p \in Nat /\ (eng[p] # Absent <=> p < BrkTop(brkCur))
      BY <1>4, Now, Layout DEF InStep
    <3> QED
      BY <1>3, <2>2, <3>1
  <2>5. ASSUME NEW s \in Segments, NEW p \in Span(s) PROVE eng'[p] = eng[p]
    <3>1. s \in Range /\ EndOf(s) <= BrkBase /\ p \in Pages
      BY SegmentsLow
    <3>2. p \in Nat /\ p < EndOf(s) /\ EndOf(s) \in Nat
      BY <3>1, Ranged
    <3> QED
      BY <1>3, <2>2, <3>1, <3>2, Layout
  <2>6. InStep(regions, mmapTop, want, eng')
    BY <1>4, <2>3, <2>4, <2>5, Now, StepBeside
  <2> QED
    BY <1>1, <1>2, <2>1, <2>6
<1> QED
  BY <1>1, <1>2, <1>3, <1>4, Now, CallKeeps

LEMMA GuestStoreKeeps == ASSUME IInv, GuestStore PROVE IInv'
<1>1. PICK q \in Pages, x \in Vals : eng[q] # Absent /\ eng' = [eng EXCEPT ![q].val = x]
  BY DEF GuestStore
<1>2. Counted /\ UNCHANGED <<habits, regions, mmapTop, brkCur, snap>>
  BY DEF GuestStore
<1>3. eng[q] \in PageState
  BY <1>1, Now DEF Eng
<1>4. /\ eng'[q] \in PageState /\ eng'[q].prot = eng[q].prot
      /\ \A p \in Pages : p # q => eng'[p] = eng[p]
  BY <1>1, <1>3, Now DEF PageState, Eng
<1>5. eng' \in Eng
  BY <1>1, <1>4, Now DEF Eng
<1>6. \A p \in Pages : (eng'[p] = Absent <=> eng[p] = Absent) /\ (eng[p] # Absent => eng'[p].prot = eng[p].prot)
  BY <1>1, <1>4, PageIsThere
<1>7. ASSUME habits = {} PROVE InStep(regions', mmapTop', brkCur', eng') /\ brkCur <= brkCur'
  <2>1. \A p \in BrkArea : eng'[p] # Absent <=> p < BrkTop(brkCur)
    BY <1>6, <1>7, Now, Layout DEF InStep
  <2>2. \A s \in Segments : \A p \in Span(s) : eng'[p] = Absent <=> eng[p] = Absent
    BY <1>6, SegmentsLow
  <2>3. InStep(regions, mmapTop, brkCur, eng')
    BY <1>6, <1>7, <2>1, <2>2, Now, Layout, StepBeside
  <2>4. brkCur <= brkCur'
    BY <1>2, Now, Layout
  <2> QED
    BY <1>2, <2>3, <2>4
<1> QED
  BY <1>2, <1>5, <1>7, Now, CallKeeps

LEMMA GuestRanges ==
  ASSUME NEW lo, NEW end, GuestRange(lo, end)
  PROVE  /\ lo \in Nat /\ end \in Nat /\ lo < end /\ end <= Limit
         /\ lo .. end - 1 \subseteq Pages /\ lo .. end - 1 # {}
<1>1. lo \in Nat /\ end \in Nat /\ lo < end /\ end <= Limit
  BY Layout DEF GuestRange, Limit
<1>2. lo \in lo .. end - 1 /\ \A p \in lo .. end - 1 : p \in 0 .. Limit - 1
  BY <1>1, Layout
<1> QED
  BY <1>1, <1>2, Layout

(* Over whole mappings or none, the engine does as the table.                 *)
LEMMA sysMmapFixedKeeps == ASSUME IInv, sysMmapFixed PROVE IInv'
<1>1. PICK lo \in Pages, end \in 1 .. MmapBase + ArenaPages, pr \in Guests[habits].prots :
        /\ GuestRange(lo, end)
        /\ PoliteFixed(lo, end) \/ ("partial" \in habits /\ (lo < MmapBase \/ end <= mmapTop))
        /\ regions' = Cut(regions, lo, end) \cup {[lo |-> lo, size |-> end - lo, prot |-> pr]}
        /\ eng' = MemMap(MemUnmap(eng, lo .. end - 1), lo .. end - 1, pr \cup {"R"})
  BY DEF sysMmapFixed
<1>2. Counted /\ UNCHANGED <<habits, mmapTop, brkCur, snap>>
  BY DEF sysMmapFixed
<1>3. pr \in Protections /\ pr \cup {"R"} \in Protections
  BY Now
<1>4. /\ lo \in Nat /\ end \in Nat /\ lo < end /\ end <= Limit
      /\ lo .. end - 1 \subseteq Pages /\ lo .. end - 1 # {}
  BY <1>1, GuestRanges
<1> DEFINE r == [lo |-> lo, size |-> end - lo, prot |-> pr]
           cs == Cut(regions, lo, end)
           ps == lo .. end - 1
           e == MemUnmap(eng, ps)
<1>5. r \in Range /\ r.lo = lo /\ EndOf(r) = end /\ Span(r) = ps /\ r.prot = pr
  <2>1. r \in Range /\ r.lo = lo /\ r.size = end - lo /\ r.prot = pr
    BY <1>3, <1>4 DEF Range
  <2> HIDE DEF r
  <2>2. EndOf(r) = end
    BY <1>4, <2>1 DEF EndOf
  <2> QED
    BY <2>1, <2>2 DEF Span
<1>6. Placed(cs) /\ \A x \in cs : EndOf(x) <= lo \/ end <= x.lo
  BY <1>4, Now, CutTable
<1>7. e \in Eng /\ eng' = MemMap(e, ps, pr \cup {"R"})
  BY <1>1, Now, Unmaps
<1> HIDE DEF r, cs, ps, e
<1>8. Placed(regions') /\ eng' \in Eng
  <2>1. regions' = cs \cup {r}
    BY <1>1 DEF cs, r
  <2>2. Placed(cs \cup {r})
    BY <1>4, <1>5, <1>6, AddedTable
  <2>3. eng' \in Eng
    BY <1>3, <1>7, Maps
  <2> QED
    BY <2>1, <2>2, <2>3
<1>9. ASSUME habits = {} PROVE InStep(regions', mmapTop', brkCur', eng') /\ brkCur <= brkCur'
  <2>1. MmapBase <= lo /\ end <= mmapTop /\ (Mapped(eng, ps) \/ Free(eng, ps))
    BY <1>1, <1>9 DEF PoliteFixed, InArena, ps
  <2>2. \A p \in Pages : e[p] = IF p \in ps THEN Absent ELSE eng[p]
    <3>1. CASE Mapped(eng, ps)
      BY <3>1, Now, Unmaps DEF e
    <3>2. CASE Free(eng, ps)
      <4>1. ~Mapped(eng, ps)
        BY <1>4, <3>2 DEF Mapped, Free, ps
      <4>2. e = eng
        BY <4>1, Now, Unmaps DEF e
      <4> QED
        BY <3>2, <4>2 DEF Free
    <3> QED
      BY <2>1, <3>1, <3>2
  <2>3. InStep(cs, mmapTop, brkCur, e)
    <3>1. \A p \in BrkArea : e[p] = eng[p]
      BY <1>4, <2>1, <2>2, Layout DEF ps
    <3>2. ASSUME NEW s \in Segments PROVE Whole(e, Span(s))
      <4>1. \A p \in Span(s) : p \in Pages /\ p \notin ps
        <5>1. s \in Range /\ EndOf(s) <= BrkBase /\ Span(s) \subseteq Pages
          BY SegmentsLow
        <5> QED
          BY <1>4, <2>1, <5>1, Ranged, Layout DEF ps
      <4>2. Whole(eng, Span(s))
        BY <1>9, Now DEF InStep
      <4> QED
        BY <2>2, <4>1, <4>2, WholeKept
    <3>3. \A p \in Arena : e[p] = IF p \in lo .. end - 1 THEN Absent ELSE eng[p]
      BY <2>2, Layout DEF ps
    <3> QED
      BY <1>4, <1>9, <3>1, <3>2, <3>3, Now, StepCuts DEF cs
  <2>4. /\ \A p \in Span(r) : eng'[p] # Absent /\ eng'[p].prot \in {r.prot, r.prot \cup {"R"}}
        /\ \A p \in Pages \ Span(r) : eng'[p] = e[p]
    <3>1. Free(e, ps)
      BY <1>4, <2>2 DEF Free, ps
    <3>2. ps \subseteq Pages
      BY <1>4 DEF ps
    <3>3. \A p \in Pages : /\ p \in ps => eng'[p] # Absent /\ eng'[p].prot = pr \cup {"R"}
                           /\ p \notin ps => eng'[p] = e[p]
      <4>1. e \in Eng /\ pr \cup {"R"} \in Protections /\ eng' = MemMap(e, ps, pr \cup {"R"})
        BY <1>3, <1>7
      <4> DEFINE qr == pr \cup {"R"}
                 f == eng'
      <4> HIDE DEF qr, f
      <4>2. e \in Eng /\ qr \in Protections /\ f = MemMap(e, ps, qr)
        BY <4>1 DEF qr, f
      <4>3. \A p \in Pages : /\ p \in ps => f[p] # Absent /\ f[p].prot = qr
                             /\ p \notin ps => f[p] = e[p]
        BY <3>1, <4>2, MapsTo
      <4> QED
        BY <4>3 DEF qr, f
    <3> QED
      BY <1>5, <3>2, <3>3
  <2>5. InStep(cs \cup {r}, mmapTop, brkCur, eng')
    <3>1. mmapTop \in Nat /\ mmapTop <= mmapTop /\ mmapTop <= Limit /\ MmapBase <= r.lo /\ EndOf(r) <= mmapTop
      BY <1>5, <2>1, Now
    <3> QED
      BY <1>5, <1>6, <2>3, <2>4, <3>1, StepAdds
  <2>6. brkCur <= brkCur'
    BY <1>2, Now, Layout
  <2> QED
    BY <1>1, <1>2, <2>5, <2>6 DEF r, cs
<1> QED
  BY <1>2, <1>8, <1>9, Now, CallKeeps

LEMMA sysMunmapKeeps == ASSUME IInv, sysMunmap PROVE IInv'
<1>1. PICK lo \in Pages, end \in 1 .. MmapBase + ArenaPages, aligned \in BOOLEAN :
        /\ GuestRange(lo, end)
        /\ \/ "partial" \in habits
           \/ aligned /\ InArena(lo, end) /\ Mapped(eng, lo .. end - 1)
           \/ aligned /\ WholeSegment(lo, end)
        /\ regions' = Cut(regions, lo, end)
        /\ eng' = IF aligned THEN MemUnmap(eng, lo .. end - 1) ELSE eng
  BY DEF sysMunmap
<1>2. Counted /\ UNCHANGED <<habits, mmapTop, brkCur, snap>>
  BY DEF sysMunmap
<1>3. /\ lo \in Nat /\ end \in Nat /\ lo < end /\ end <= Limit
      /\ lo .. end - 1 \subseteq Pages
  BY <1>1, GuestRanges
<1> DEFINE ps == lo .. end - 1
<1>4. Placed(regions') /\ eng' \in Eng
  BY <1>1, <1>3, Now, CutTable, Unmaps
<1>5. ASSUME habits = {} PROVE InStep(regions', mmapTop', brkCur', eng') /\ brkCur <= brkCur'
  <2>1. eng' = MemUnmap(eng, ps) /\ ((InArena(lo, end) /\ Mapped(eng, ps)) \/ WholeSegment(lo, end))
    BY <1>1, <1>5
  <2> HIDE DEF ps
  <2>2. CASE InArena(lo, end) /\ Mapped(eng, ps)
    <3>1. MmapBase <= lo /\ \A p \in Pages : eng'[p] = IF p \in ps THEN Absent ELSE eng[p]
      BY <2>1, <2>2, Now, Unmaps DEF InArena
    <3>2. \A p \in Arena : eng'[p] = IF p \in lo .. end - 1 THEN Absent ELSE eng[p]
      BY <3>1, Layout DEF ps
    <3>3. \A p \in BrkArea : eng'[p] = eng[p]
      BY <1>3, <3>1, Layout DEF ps
    <3>4. ASSUME NEW s \in Segments PROVE Whole(eng', Span(s))
      <4>1. \A p \in Span(s) : p \in Pages /\ p \notin ps
        <5>1. s \in Range /\ EndOf(s) <= BrkBase /\ Span(s) \subseteq Pages
          BY SegmentsLow
        <5> QED
          BY <1>3, <3>1, <5>1, Ranged, Layout DEF ps
      <4>2. Whole(eng, Span(s))
        BY <1>5, Now DEF InStep
      <4> QED
        BY <3>1, <4>1, <4>2, WholeKept
    <3>5. InStep(Cut(regions, lo, end), mmapTop, brkCur, eng')
      BY <1>3, <1>5, <3>2, <3>3, <3>4, Now, StepCuts
    <3> QED
      BY <1>1, <1>2, <3>5, Now, Layout
  <2>3. CASE WholeSegment(lo, end)
    <3>1. PICK s \in Segments : s.lo = lo /\ EndOf(s) = end
      BY <2>3 DEF WholeSegment
    <3>2. ps = Span(s) /\ end <= BrkBase /\ Whole(eng, ps) /\ s \in Range
      BY <1>5, <3>1, Now, SegmentsLow DEF Span, InStep, ps
    <3>3. \A p \in Pages : eng'[p] = IF p \in ps THEN Absent ELSE eng[p]
      <4>1. CASE Mapped(eng, ps)
        BY <2>1, <4>1, Now, Unmaps
      <4>2. CASE Free(eng, ps)
        <5>1. ~Mapped(eng, ps)
          BY <1>3, <4>2 DEF Mapped, Free, ps
        <5>2. eng' = eng
          BY <2>1, <5>1, Now, Unmaps
        <5> QED
          BY <4>2, <5>2 DEF Free
      <4> QED
        BY <3>2, <4>1, <4>2 DEF Whole
    <3>4. \A p \in Arena : eng'[p] = IF p \in lo .. end - 1 THEN Absent ELSE eng[p]
      BY <3>3, Layout DEF ps
    <3>5. \A p \in BrkArea : eng'[p] = eng[p]
      BY <1>3, <3>2, <3>3, Layout DEF ps
    <3>6. ASSUME NEW t \in Segments PROVE Whole(eng', Span(t))
      <4>1. Span(t) \subseteq Pages /\ t \in Range
        BY SegmentsLow
      <4>2. CASE t = s
        BY <3>2, <3>3, <4>1, <4>2 DEF Whole, Free
      <4>3. CASE t # s
        <5>1. Segments \subseteq Range /\ Disjoint(Segments)
          BY LayoutAssumption
        <5>2. \A p \in Span(t) : p \notin ps
          BY <3>2, <4>3, <5>1, OneEach
        <5>3. Whole(eng, Span(t))
          BY <1>5, Now DEF InStep
        <5> QED
          BY <3>3, <4>1, <5>2, <5>3, WholeKept
      <4> QED
        BY <4>2, <4>3
    <3>7. InStep(Cut(regions, lo, end), mmapTop, brkCur, eng')
      BY <1>3, <1>5, <3>4, <3>5, <3>6, Now, StepCuts
    <3> QED
      BY <1>1, <1>2, <3>7, Now, Layout
  <2> QED
    BY <2>1, <2>2, <2>3
<1> QED
  BY <1>2, <1>4, <1>5, Now, CallKeeps

LEMMA sysMprotectKeeps == ASSUME IInv, sysMprotect PROVE IInv'
<1>1. PICK lo \in Pages, end \in 1 .. MmapBase + ArenaPages, pr \in Guests[habits].prots :
        /\ GuestRange(lo, end)
        /\ "partial" \in habits \/ WholeRegions(lo, end) \/ WholeSegment(lo, end)
        /\ regions' = Reprotected(regions, lo, end, pr)
        /\ eng' = MemProtect(eng, lo .. end - 1, pr)
  BY DEF sysMprotect
<1>2. Counted /\ UNCHANGED <<habits, mmapTop, brkCur, snap>>
  BY DEF sysMprotect
<1>3. /\ lo \in Nat /\ end \in Nat /\ lo < end /\ end <= Limit
      /\ lo .. end - 1 \subseteq Pages /\ pr \in Protections
  BY <1>1, GuestRanges, Now
<1> DEFINE ps == lo .. end - 1
<1>4. Placed(regions') /\ eng' \in Eng
  <2>1. ps \in SUBSET Pages
    BY <1>3
  <2> HIDE DEF ps
  <2>2. MemProtect(eng, ps, pr) \in Eng
    BY <1>3, <2>1, Now, Protects
  <2> QED
    BY <1>1, <1>3, <2>2, Now, ReprotectedTable DEF ps
<1>5. ASSUME habits = {} PROVE InStep(regions', mmapTop', brkCur', eng') /\ brkCur <= brkCur'
  <2>1. WholeRegions(lo, end) \/ WholeSegment(lo, end)
    BY <1>1, <1>5
  <2>2. CASE WholeRegions(lo, end)
    <3>1. Covered({r \in regions : Within(r, lo, end)}) = lo .. end - 1
      BY <2>2 DEF WholeRegions
    <3>2. InStep(Reprotected(regions, lo, end, pr), mmapTop, brkCur, MemProtect(eng, lo .. end - 1, pr))
      BY <1>3, <1>5, <3>1, Now, StepProtects
    <3> QED
      BY <1>1, <1>2, <3>2, Now, Layout
  <2>3. CASE WholeSegment(lo, end)
    <3>1. PICK s \in Segments : s.lo = lo /\ EndOf(s) = end
      BY <2>3 DEF WholeSegment
    <3>2. end <= BrkBase
      BY <3>1, SegmentsLow
    <3>3. \A r \in regions : ~Within(r, lo, end)
      <4>1. \A r \in regions : r \in Range /\ MmapBase <= r.lo
        BY <1>5, Now DEF Placed, InStep
      <4> QED
        BY <1>3, <3>2, <4>1, Ranged, Layout DEF Within
    <3>4. regions' = regions
      BY <1>1, <3>3 DEF Reprotected
    <3>5. \A p \in Pages : (eng'[p] = Absent <=> eng[p] = Absent) /\ (p \notin ps => eng'[p] = eng[p])
      <4>1. ps \in SUBSET Pages /\ eng' = MemProtect(eng, ps, pr) /\ pr \in Protections
        BY <1>1, <1>3
      <4>2. eng \in Eng
        BY Now
      <4> HIDE DEF ps
      <4> QED
        BY <4>1, <4>2, ProtectsTo
    <3>6. \A p \in Arena : p \notin ps
      BY <1>3, <3>2, Layout
    <3> HIDE DEF ps
    <3>7. \A p \in Arena : (eng'[p] = Absent <=> eng[p] = Absent) /\ (eng[p] # Absent => eng'[p].prot = eng[p].prot)
      BY <3>5, <3>6, Layout
    <3>8. \A p \in BrkArea : eng'[p] # Absent <=> p < BrkTop(brkCur)
      BY <1>5, <3>5, Now, Layout DEF InStep
    <3>9. \A t \in Segments : \A p \in Span(t) : eng'[p] = Absent <=> eng[p] = Absent
      BY <3>5, SegmentsLow
    <3>10. InStep(regions, mmapTop, brkCur, eng')
      BY <1>5, <3>7, <3>8, <3>9, Now, StepBeside
    <3> QED
      BY <1>2, <3>4, <3>10, Now, Layout
  <2> QED
    BY <2>1, <2>2, <2>3
<1> QED
  BY <1>2, <1>4, <1>5, Now, CallKeeps

-----------------------------------------------------------------------------
(* Snapshot.                                                                 *)

(* The ranges of a table and a break: segments, regions, the heap.            *)
LEMMA RangesPlaced ==
  ASSUME NEW rs, Placed(rs), NEW b \in 0 .. 2 * BrkPages
  PROVE  /\ Placed(Ranges(rs, b)) /\ rs \subseteq Ranges(rs, b) /\ Segments \subseteq Ranges(rs, b)
         /\ \A r \in Ranges(rs, b) :
              r \in Segments \/ r \in rs \/ (BrkTop(b) > BrkBase /\ Span(r) = BrkBase .. BrkTop(b) - 1)
<1> DEFINE h == [lo |-> BrkBase, size |-> BrkTop(b) - BrkBase, prot |-> HeapProt]
<1>1. BrkTop(b) \in Nat /\ BrkBase \in Nat /\ BrkTop(b) <= Limit
  BY BrkTops, Layout
<1>2. ASSUME BrkTop(b) > BrkBase
      PROVE  h \in Range /\ EndOf(h) <= Limit /\ Span(h) = BrkBase .. BrkTop(b) - 1
  <2>1. h \in Range /\ h.lo = BrkBase /\ h.size = BrkTop(b) - BrkBase
    BY <1>1, <1>2 DEF Range, HeapProt, Protections
  <2> HIDE DEF h
  <2>2. EndOf(h) = BrkTop(b)
    BY <1>1, <2>1 DEF EndOf
  <2> QED
    BY <1>1, <2>1, <2>2 DEF Span
<1>3. \A r \in Ranges(rs, b) : r \in Segments \/ r \in rs \/ (BrkTop(b) > BrkBase /\ r = h)
  BY DEF Ranges
<1> HIDE DEF h
<1>4. Placed(Ranges(rs, b))
  BY <1>2, <1>3, SegmentsLow DEF Placed
<1>5. rs \subseteq Ranges(rs, b) /\ Segments \subseteq Ranges(rs, b)
  BY DEF Ranges
<1> QED
  BY <1>2, <1>3, <1>4, <1>5

LEMMA SnapshotKeeps == ASSUME IInv, Snapshot PROVE IInv'
<1>1. UNCHANGED <<habits, regions, mmapTop, brkCur, eng>> /\ calls' = 0 /\ Disjoint(guestRanges)
  BY DEF Snapshot
<1>2. snap' = [ranges |-> guestRanges,
               writable |-> {r \in guestRanges : "W" \in r.prot /\ Mapped(eng, Span(r))},
               layout |-> regions, mmapTop |-> mmapTop, brk |-> brkCur, image |-> eng]
  BY DEF Snapshot
<1>3. /\ snap' = [ranges |-> snap'.ranges, writable |-> snap'.writable, layout |-> snap'.layout,
                  mmapTop |-> snap'.mmapTop, brk |-> snap'.brk, image |-> snap'.image]
      /\ snap'.ranges = guestRanges /\ snap'.layout = regions /\ snap'.mmapTop = mmapTop
      /\ snap'.brk = brkCur /\ snap'.image = eng
      /\ snap'.writable = {r \in guestRanges : "W" \in r.prot /\ Mapped(eng, Span(r))}
  BY <1>2
<1>4. guestRanges = Ranges(regions, brkCur)
  BY DEF guestRanges, Ranges, HeapProt
<1>5. calls' \in 0 .. Guests[habits].calls
  BY <1>1, LayoutAssumption DEF IInv, Kept
<1>6. Kept'
  BY <1>1, <1>5 DEF IInv, Kept
<1>7. Taken'
  BY <1>1, <1>3, <1>4, Now DEF Taken, Eng
<1>8. Orderly'
  <2>1. brkCur <= brkCur
    BY Now, Layout
  <2> QED
    BY <1>1, <1>3, <2>1, Now DEF Orderly
<1> QED
  BY <1>6, <1>7, <1>8 DEF IInv

-----------------------------------------------------------------------------
(* Restore, for any guest.                                                   *)

LEMMA Then ==
  ASSUME IInv, snap # NoSnap
  PROVE  /\ snap.mmapTop \in MmapBase .. Limit /\ snap.mmapTop \in Nat /\ snap.mmapTop <= Limit
         /\ snap.brk \in 0 .. 2 * BrkPages
         /\ snap.image \in Eng /\ Placed(snap.layout)
         /\ snap.ranges = Ranges(snap.layout, snap.brk) /\ Disjoint(snap.ranges)
         /\ Placed(snap.ranges)
         /\ snap.writable = {r \in snap.ranges : "W" \in r.prot /\ Mapped(snap.image, Span(r))}
         /\ habits = {} => /\ InStep(snap.layout, snap.mmapTop, snap.brk, snap.image)
                           /\ snap.brk <= brkCur
<1>1. /\ snap.mmapTop \in MmapBase .. Limit /\ snap.brk \in 0 .. 2 * BrkPages
      /\ snap.image \in Eng /\ Placed(snap.layout)
      /\ snap.ranges = Ranges(snap.layout, snap.brk) /\ Disjoint(snap.ranges)
      /\ snap.writable = {r \in snap.ranges : "W" \in r.prot /\ Mapped(snap.image, Span(r))}
  BY DEF IInv, Taken, Eng
<1>2. Placed(snap.ranges)
  BY <1>1, RangesPlaced
<1>3. snap.mmapTop \in Nat /\ snap.mmapTop <= Limit
  BY <1>1, Layout
<1>4. habits = {} => InStep(snap.layout, snap.mmapTop, snap.brk, snap.image) /\ snap.brk <= brkCur
  BY DEF IInv, Orderly
<1> QED
  BY <1>1, <1>2, <1>3, <1>4

LEMMA UnmapsForeign ==
  ASSUME NEW rs, NEW e \in Eng
  PROVE  /\ UnmapForeign(e, rs) \in Eng /\ UnmapGrown(UnmapForeign(e, rs)) \in Eng
         /\ \A p \in Pages : UnmapForeign(e, rs)[p] =
              IF \E r \in Foreign(rs) : Mapped(e, Span(r)) /\ p \in Span(r) THEN Absent ELSE e[p]
<1> DEFINE gone == {r \in Foreign(rs) : Mapped(e, Span(r))}
<1>1. UnmapForeign(e, rs) = [p \in Pages |-> IF p \in Covered(gone) THEN Absent ELSE e[p]]
  BY DEF UnmapForeign
<1>2. \A p : p \in Covered(gone) <=> \E r \in gone : p \in Span(r)
  BY DEF Covered
<1>3. \A p : p \in Covered(gone) <=> \E r \in Foreign(rs) : Mapped(e, Span(r)) /\ p \in Span(r)
  BY <1>2
<1> HIDE DEF gone
<1>4. UnmapForeign(e, rs) \in Eng
  BY <1>1 DEF Eng
<1>5. UnmapGrown(UnmapForeign(e, rs)) \in Eng
  BY <1>4, Unmaps DEF UnmapGrown
<1>6. \A p \in Pages : UnmapForeign(e, rs)[p] =
        IF \E r \in Foreign(rs) : Mapped(e, Span(r)) /\ p \in Span(r) THEN Absent ELSE e[p]
  BY <1>1, <1>3
<1> QED
  BY <1>4, <1>5, <1>6

LEMMA Remaps ==
  ASSUME IInv, snap # NoSnap, NEW e \in Eng
  PROVE  /\ Remap(e) \in Eng
         /\ \A p \in Pages :
              /\ e[p] # Absent => Remap(e)[p] = e[p]
              /\ (\E r \in snap.ranges : p \in Span(r) /\ Free(e, Span(r))) => Remap(e)[p] # Absent
              /\ Remap(e)[p] # Absent => e[p] # Absent \/ \E r \in snap.ranges : p \in Span(r)
<1> DEFINE Lost(p, r) == p \in Span(r) /\ Free(e, Span(r))
           New(p) == [prot |-> (CHOOSE r \in snap.ranges : Lost(p, r)).prot, val |-> Zero]
<1>1. Remap(e) = [p \in Pages |-> IF \E r \in snap.ranges : Lost(p, r) THEN New(p) ELSE e[p]]
  BY DEF Remap
<1>2. ASSUME NEW p, \E r \in snap.ranges : Lost(p, r)
      PROVE  New(p) \in PageState
  <2> DEFINE r == CHOOSE r \in snap.ranges : Lost(p, r)
  <2>1. r \in snap.ranges
    BY <1>2
  <2>2. r.prot \in Protections
    BY <2>1, Then, Ranged DEF Placed
  <2> QED
    BY <2>2, LayoutAssumption DEF PageState
<1>3. ASSUME NEW p \in Pages, NEW r \in snap.ranges, Lost(p, r) PROVE e[p] = Absent
  BY <1>3 DEF Free
<1> HIDE DEF Lost, New
<1>4. Remap(e) \in Eng
  BY <1>1, <1>2 DEF Eng
<1>5. \A p \in Pages :
        /\ e[p] # Absent => Remap(e)[p] = e[p]
        /\ (\E r \in snap.ranges : Lost(p, r)) => Remap(e)[p] # Absent
        /\ Remap(e)[p] # Absent => e[p] # Absent \/ \E r \in snap.ranges : Lost(p, r)
  BY <1>1, <1>2, <1>3, PageIsThere
<1> QED
  BY <1>4, <1>5 DEF Lost

LEMMA Rewrites ==
  ASSUME IInv, snap # NoSnap, NEW e \in Eng, NEW ws, ws \subseteq snap.writable,
         \A r \in ws : Mapped(e, Span(r))
  PROVE  /\ Rewrite(e, ws) \in Eng
         /\ \A p \in Pages : /\ Rewrite(e, ws)[p] = Absent <=> e[p] = Absent
                             /\ p \in Covered(ws) => Rewrite(e, ws)[p].val = snap.image[p].val
<1>1. Rewrite(e, ws) = [p \in Pages |-> IF p \in Covered(ws) THEN [e[p] EXCEPT !.val = snap.image[p].val] ELSE e[p]]
  BY DEF Rewrite
<1>2. ASSUME NEW p \in Pages, p \in Covered(ws)
      PROVE  /\ [e[p] EXCEPT !.val = snap.image[p].val] \in PageState
             /\ [e[p] EXCEPT !.val = snap.image[p].val].val = snap.image[p].val
             /\ e[p] # Absent
  <2>1. PICK r \in ws : p \in Span(r)
    BY <1>2, CoveredBy
  <2>2. e[p] # Absent /\ snap.image[p] # Absent
    BY <2>1, Then DEF Mapped
  <2>3. e[p] \in PageState /\ snap.image[p] \in PageState
    BY <2>2, Then DEF Eng
  <2> QED
    BY <2>2, <2>3 DEF PageState
<1>3. Rewrite(e, ws) \in Eng
  BY <1>1, <1>2 DEF Eng
<1>4. \A p \in Pages : /\ Rewrite(e, ws)[p] = Absent <=> e[p] = Absent
                       /\ p \in Covered(ws) => Rewrite(e, ws)[p].val = snap.image[p].val
  BY <1>1, <1>2, PageIsThere
<1> QED
  BY <1>3, <1>4

LEMMA Reprotects ==
  ASSUME IInv, snap # NoSnap, NEW e \in Eng
  PROVE  /\ Reprotect(e) \in Eng
         /\ \A p \in Pages : /\ Reprotect(e)[p] = Absent <=> e[p] = Absent
                             /\ e[p] # Absent => Reprotect(e)[p].val = e[p].val
         /\ \A r \in snap.ranges : Mapped(e, Span(r)) => \A p \in Span(r) : Reprotect(e)[p].prot = r.prot
<1> DEFINE Over(p, r) == p \in Span(r) /\ Mapped(e, Span(r))
           Its(p) == CHOOSE r \in snap.ranges : Over(p, r)
           New(p) == [e[p] EXCEPT !.prot = Its(p).prot]
<1>1. Reprotect(e) = [p \in Pages |-> IF \E r \in snap.ranges : Over(p, r) THEN New(p) ELSE e[p]]
  BY DEF Reprotect
<1>2. ASSUME NEW p \in Pages, \E r \in snap.ranges : Over(p, r)
      PROVE  /\ Its(p) \in snap.ranges /\ p \in Span(Its(p)) /\ e[p] # Absent
             /\ New(p) \in PageState /\ New(p).prot = Its(p).prot /\ New(p).val = e[p].val
  <2>1. Its(p) \in snap.ranges /\ Over(p, Its(p))
    BY <1>2
  <2>2. e[p] # Absent
    BY <2>1 DEF Mapped
  <2>3. e[p] \in PageState
    BY <2>2 DEF Eng
  <2> HIDE DEF Its
  <2>4. Its(p).prot \in Protections
    BY <2>1, Then, Ranged DEF Placed
  <2> QED
    BY <2>1, <2>2, <2>3, <2>4 DEF PageState
<1> HIDE DEF Its, New
<1>3. Reprotect(e) \in Eng
  BY <1>1, <1>2 DEF Eng
<1>4. \A p \in Pages : /\ Reprotect(e)[p] = Absent <=> e[p] = Absent
                       /\ e[p] # Absent => Reprotect(e)[p].val = e[p].val
  BY <1>1, <1>2, PageIsThere
<1>5. ASSUME NEW r \in snap.ranges, Mapped(e, Span(r)), NEW p \in Span(r)
      PROVE  Reprotect(e)[p].prot = r.prot
  <2>1. p \in Pages /\ Over(p, r)
    BY <1>5, Then, Ranged DEF Placed
  <2>2. Its(p) \in snap.ranges /\ p \in Span(Its(p)) /\ Reprotect(e)[p].prot = Its(p).prot
    BY <1>1, <1>2, <2>1
  <2>3. snap.ranges \subseteq Range /\ Disjoint(snap.ranges)
    BY Then DEF Placed
  <2>4. Its(p) = r
    BY <2>2, <2>3, OneEach
  <2> QED
    BY <2>2, <2>4
<1> QED
  BY <1>3, <1>4, <1>5

(* What Restore leaves in the engine, to the extent any guest can rely on it. *)
LEMMA Restored ==
  ASSUME IInv, Restore
  PROVE  /\ snap # NoSnap /\ Unmapped \in Eng /\ Remap(Unmapped) \in Eng /\ eng' \in Eng
         /\ \A r \in snap.writable : \A p \in Span(r) :
              eng'[p] # Absent /\ eng'[p].val = snap.image[p].val
         /\ \A p \in Pages : eng'[p] = Absent <=> Remap(Unmapped)[p] = Absent
         /\ \A r \in snap.ranges :
              Mapped(Remap(Unmapped), Span(r)) => \A p \in Span(r) : eng'[p].prot = r.prot
<1> DEFINE e == Remap(Unmapped)
           ws == snap.writable
           f == Rewrite(e, ws)
<1>1. snap # NoSnap /\ Unwritable(e) = {} /\ eng' = Reprotect(f)
  BY DEF Restore
<1>2. Unmapped \in Eng
  BY Now, UnmapsForeign DEF Unmapped
<1>3. e \in Eng
  BY <1>1, <1>2, Remaps
<1> HIDE DEF e
<1>4. \A r \in ws : Mapped(e, Span(r))
  BY <1>1 DEF Unwritable
<1>5. ws \subseteq snap.writable
  OBVIOUS
<1>6. /\ f \in Eng
      /\ \A p \in Pages : /\ f[p] = Absent <=> e[p] = Absent
                          /\ p \in Covered(ws) => f[p].val = snap.image[p].val
  BY <1>1, <1>3, <1>4, <1>5, Rewrites
<1> HIDE DEF f
<1>7. eng' \in Eng
  BY <1>1, <1>6, Reprotects
<1>8. \A p \in Pages : /\ eng'[p] = Absent <=> f[p] = Absent
                       /\ f[p] # Absent => eng'[p].val = f[p].val
  BY <1>1, <1>6, Reprotects
<1>9. \A r \in snap.ranges : Mapped(f, Span(r)) => \A p \in Span(r) : eng'[p].prot = r.prot
  BY <1>1, <1>6, Reprotects
<1>10. \A r \in snap.ranges : Span(r) \subseteq Pages
  BY <1>1, Then, Ranged DEF Placed
<1>11. ASSUME NEW r \in ws, NEW p \in Span(r)
       PROVE  eng'[p] # Absent /\ eng'[p].val = snap.image[p].val
  <2>1. r \in snap.ranges
    BY <1>1, Then
  <2>2. p \in Pages /\ p \in Covered(ws) /\ e[p] # Absent
    BY <1>4, <1>10, <2>1, CoveredBy DEF Mapped
  <2> QED
    BY <1>6, <1>8, <2>2
<1>12. ASSUME NEW r \in snap.ranges, Mapped(e, Span(r)), NEW p \in Span(r) PROVE eng'[p].prot = r.prot
  <2>1. Mapped(f, Span(r))
    BY <1>6, <1>10, <1>12 DEF Mapped
  <2> QED
    BY <1>9, <2>1
<1>13. \A p \in Pages : eng'[p] = Absent <=> e[p] = Absent
  BY <1>6, <1>8
<1> QED
  BY <1>1, <1>2, <1>3, <1>7, <1>11, <1>12, <1>13 DEF e

-----------------------------------------------------------------------------
(* Restore, for an orderly guest.                                            *)

(* After the unmapping, the arena has the regions the snapshot has too, the   *)
(* heap ends at the snapshot's break, and the segments are as they were.      *)
LEMMA Released ==
  ASSUME IInv, snap # NoSnap, habits = {}
  PROVE  /\ Unmapped \in Eng
         /\ \A p \in Arena : Unmapped[p] # Absent <=>
              \E r \in regions : \E s \in snap.layout : p \in Span(r) /\ Span(r) = Span(s)
         /\ \A p \in BrkArea : Unmapped[p] # Absent <=> p < BrkTop(snap.brk)
         /\ \A s \in Segments : Whole(Unmapped, Span(s))
<1> DEFINE e == UnmapForeign(eng, regions)
           new == BrkTop(snap.brk) .. BrkTop(brkCur) - 1
           Both(r) == \E s \in snap.layout : s.lo = r.lo /\ s.size = r.size
<1>1. /\ e \in Eng /\ Unmapped \in Eng /\ Unmapped = MemUnmap(e, new)
      /\ \A p \in Pages : e[p] =
           IF \E r \in Foreign(regions) : Mapped(eng, Span(r)) /\ p \in Span(r) THEN Absent ELSE eng[p]
  BY Now, UnmapsForeign DEF Unmapped, UnmapGrown
<1> HIDE DEF e
<1>2. /\ InStep(regions, mmapTop, brkCur, eng) /\ Placed(regions)
      /\ InStep(snap.layout, snap.mmapTop, snap.brk, snap.image) /\ Placed(snap.layout)
      /\ snap.brk \in 0 .. 2 * BrkPages /\ brkCur \in 0 .. 2 * BrkPages /\ snap.brk <= brkCur
  BY Now, Then
<1>3. \A r \in regions : /\ r \in Range /\ MmapBase <= r.lo /\ EndOf(r) <= mmapTop
                         /\ \A p \in Span(r) : p \in Arena /\ eng[p] # Absent
  <2> SUFFICES ASSUME NEW r \in regions
               PROVE  /\ r \in Range /\ MmapBase <= r.lo /\ EndOf(r) <= mmapTop
                      /\ \A p \in Span(r) : p \in Arena /\ eng[p] # Absent
    OBVIOUS
  <2>1. r \in Range /\ MmapBase <= r.lo /\ EndOf(r) <= mmapTop
    BY <1>2 DEF InStep, Placed
  <2>2. \A p \in Span(r) : p \in Arena
    BY <2>1, Now, Ranged, Layout DEF Arena, Limit
  <2> QED
    BY <1>2, <2>1, <2>2, CoveredBy DEF InStep
<1>4. \A r : r \in Foreign(regions) <=> r \in regions /\ ~Both(r)
  BY DEF Foreign
<1>5. \A r \in regions : Both(r) <=> \E s \in snap.layout : Span(r) = Span(s)
  <2> SUFFICES ASSUME NEW r \in regions PROVE Both(r) <=> \E s \in snap.layout : Span(r) = Span(s)
    OBVIOUS
  <2>1. \A s \in snap.layout : s \in Range
    BY <1>2 DEF Placed
  <2>2. ASSUME NEW s \in snap.layout PROVE (s.lo = r.lo /\ s.size = r.size) <=> Span(r) = Span(s)
    <3>1. /\ r.lo \in Nat /\ r.size \in Nat /\ r.size > 0 /\ EndOf(r) = r.lo + r.size
          /\ s.lo \in Nat /\ s.size \in Nat /\ s.size > 0 /\ EndOf(s) = s.lo + s.size
      BY <1>3, <2>1, Ranged
    <3>2. /\ \A p : p \in Span(r) <=> p \in Nat /\ r.lo <= p /\ p < EndOf(r)
          /\ \A p : p \in Span(s) <=> p \in Nat /\ s.lo <= p /\ p < EndOf(s)
      BY <1>3, <2>1, Ranged
    <3>3. ASSUME Span(r) = Span(s) PROVE s.lo = r.lo /\ s.size = r.size
      <4>1. /\ r.lo \in Span(r) /\ s.lo \in Span(s)
            /\ EndOf(r) - 1 \in Span(r) /\ EndOf(s) - 1 \in Span(s)
        BY <3>1, <3>2
      <4>2. s.lo <= r.lo /\ r.lo <= s.lo /\ EndOf(r) - 1 < EndOf(s) /\ EndOf(s) - 1 < EndOf(r)
        BY <3>2, <3>3, <4>1
      <4> QED
        BY <3>1, <4>2
    <3>4. ASSUME s.lo = r.lo, s.size = r.size PROVE Span(r) = Span(s)
      BY <3>1, <3>4 DEF Span
    <3> QED
      BY <3>3, <3>4
  <2> QED
    BY <2>2
<1> HIDE DEF Both
<1>6. \A p \in Arena : e[p] # Absent <=> \E r \in regions : Both(r) /\ p \in Span(r)
  <2> SUFFICES ASSUME NEW p \in Arena PROVE e[p] # Absent <=> \E r \in regions : Both(r) /\ p \in Span(r)
    OBVIOUS
  <2>1. p \in Pages /\ (eng[p] # Absent <=> \E r \in regions : p \in Span(r))
    BY <1>2, Layout, CoveredBy DEF InStep
  <2>2. (\E r \in Foreign(regions) : Mapped(eng, Span(r)) /\ p \in Span(r))
          <=> \E r \in regions : ~Both(r) /\ p \in Span(r)
    BY <1>3, <1>4 DEF Mapped
  <2>3. \A r, s \in regions : p \in Span(r) /\ p \in Span(s) => r = s
    <3>1. regions \subseteq Range /\ Disjoint(regions)
      BY <1>2, <1>3 DEF InStep
    <3> QED
      BY <3>1, OneEach
  <2> QED
    BY <1>1, <2>1, <2>2, <2>3
<1>7. \A p \in Pages : p \notin Arena => e[p] = eng[p]
  BY <1>1, <1>3, <1>4
<1>8. /\ BrkTop(snap.brk) \in Nat /\ BrkTop(brkCur) \in Nat /\ BrkBase <= BrkTop(snap.brk)
      /\ BrkTop(snap.brk) <= BrkTop(brkCur) /\ BrkTop(brkCur) <= BrkBase + BrkPages
  BY <1>2, BrkTops
<1>9. \A p \in new : p \in BrkArea /\ p \in Pages /\ p \notin Arena /\ p < BrkTop(brkCur)
  BY <1>8, Layout DEF BrkArea, Arena
<1>10. Mapped(e, new)
  BY <1>2, <1>7, <1>9 DEF Mapped, InStep
<1>11. \A p \in new : p \in Nat /\ BrkTop(snap.brk) <= p
  BY <1>8
<1>12. \A p \in Nat : BrkTop(snap.brk) <= p /\ p < BrkTop(brkCur) => p \in new
  BY <1>8
<1> HIDE DEF new
<1>13. \A p \in Pages : Unmapped[p] = IF p \in new THEN Absent ELSE e[p]
  BY <1>1, <1>10, Unmaps
<1>14. \A p \in Arena : Unmapped[p] # Absent <=>
         \E r \in regions : \E s \in snap.layout : p \in Span(r) /\ Span(r) = Span(s)
  BY <1>5, <1>6, <1>9, <1>13, Layout
<1>15. \A p \in BrkArea : Unmapped[p] # Absent <=> p < BrkTop(snap.brk)
  <2> SUFFICES ASSUME NEW p \in BrkArea PROVE Unmapped[p] # Absent <=> p < BrkTop(snap.brk)
    OBVIOUS
  <2>1. p \in Nat /\ p \in Pages /\ p \notin Arena
    BY Layout
  <2>2. e[p] # Absent <=> p < BrkTop(brkCur)
    BY <1>2, <1>7, <2>1 DEF InStep
  <2>3. Unmapped[p] = IF p \in new THEN Absent ELSE e[p]
    BY <1>13, <2>1
  <2> QED
    BY <1>8, <1>11, <1>12, <2>1, <2>2, <2>3
<1>16. ASSUME NEW s \in Segments PROVE Whole(Unmapped, Span(s))
  <2>1. \A p \in Span(s) : p \in Pages /\ p \notin Arena /\ p \notin BrkArea
    BY SegmentsLow
  <2>2. \A p \in Span(s) : Unmapped[p] = eng[p]
    BY <1>7, <1>9, <1>13, <2>1
  <2>3. Whole(eng, Span(s))
    BY <1>2 DEF InStep
  <2> QED
    BY <2>2, <2>3, WholeKept
<1> QED
  BY <1>1, <1>14, <1>15, <1>16

(* So every range of the snapshot is mapped or free as a whole, and the       *)
(* mapping that follows leaves none out and adds nothing else.                *)
LEMMA Refilled ==
  ASSUME IInv, snap # NoSnap, habits = {}
  PROVE  /\ \A r \in snap.ranges : Mapped(Remap(Unmapped), Span(r))
         /\ \A p \in Arena : Remap(Unmapped)[p] # Absent <=> p \in Covered(snap.layout)
         /\ \A p \in BrkArea : Remap(Unmapped)[p] # Absent <=> p < BrkTop(snap.brk)
<1> DEFINE e == Unmapped
           f == Remap(e)
<1>1. /\ e \in Eng
      /\ \A p \in Arena : e[p] # Absent <=>
              \E r \in regions : \E s \in snap.layout : p \in Span(r) /\ Span(r) = Span(s)
      /\ \A p \in BrkArea : e[p] # Absent <=> p < BrkTop(snap.brk)
      /\ \A s \in Segments : Whole(e, Span(s))
  BY Released
<1> HIDE DEF e
<1>2. /\ InStep(snap.layout, snap.mmapTop, snap.brk, snap.image) /\ Placed(snap.layout)
      /\ snap.brk \in 0 .. 2 * BrkPages /\ snap.mmapTop \in Nat /\ snap.mmapTop <= Limit
      /\ snap.ranges = Ranges(snap.layout, snap.brk) /\ Placed(snap.ranges) /\ Disjoint(snap.ranges)
  BY Then
<1>3. /\ snap.layout \subseteq snap.ranges
      /\ \A r \in snap.ranges : r \in Segments \/ r \in snap.layout
           \/ (BrkTop(snap.brk) > BrkBase /\ Span(r) = BrkBase .. BrkTop(snap.brk) - 1)
  BY <1>2, RangesPlaced
<1>4. \A r \in snap.ranges : r \in Range /\ Span(r) \subseteq Pages
  BY <1>2, Ranged DEF Placed
<1>5. \A r \in snap.layout : \A p \in Span(r) : p \in Arena
  <2> SUFFICES ASSUME NEW r \in snap.layout PROVE \A p \in Span(r) : p \in Arena
    OBVIOUS
  <2>1. r \in Range /\ MmapBase <= r.lo /\ EndOf(r) <= Limit
    BY <1>2 DEF InStep, Placed
  <2>2. EndOf(r) \in Nat /\ \A p : p \in Span(r) <=> p \in Nat /\ r.lo <= p /\ p < EndOf(r)
    BY <2>1, Ranged
  <2>3. r.lo \in Nat /\ \A p \in Nat : MmapBase <= p /\ p < Limit => p \in Arena
    BY <2>1, Ranged, Layout DEF Arena, Limit
  <2> QED
    BY <2>1, <2>2, <2>3, Layout
<1>6. \A p \in BrkArea : p < BrkTop(snap.brk) <=> p \in BrkBase .. BrkTop(snap.brk) - 1
  BY <1>2, BrkTops, Layout
<1>7. BrkBase .. BrkTop(snap.brk) - 1 \subseteq BrkArea
  BY <1>2, BrkTops, Layout DEF BrkArea
<1>8. ASSUME NEW r \in snap.ranges PROVE Whole(e, Span(r))
  <2>1. CASE r \in Segments
    BY <1>1, <2>1
  <2>2. CASE Span(r) = BrkBase .. BrkTop(snap.brk) - 1
    BY <1>1, <1>6, <1>7, <2>2 DEF Whole, Mapped
  <2>3. CASE r \in snap.layout
    <3> SUFFICES ASSUME NEW p \in Span(r), e[p] # Absent PROVE Mapped(e, Span(r))
      BY DEF Whole, Free
    <3>1. p \in Arena
      BY <1>5, <2>3
    <3>2. PICK q \in regions, s \in snap.layout : p \in Span(q) /\ Span(q) = Span(s)
      BY <1>1, <3>1
    <3>3. s \in snap.ranges /\ p \in Span(s)
      BY <1>3, <3>2
    <3>4. snap.ranges \subseteq Range
      BY <1>4
    <3>5. s = r
      BY <1>2, <3>3, <3>4, OneEach
    <3>6. Span(q) = Span(r)
      BY <3>2, <3>5
    <3>7. \A x \in Span(r) : x \in Arena /\ e[x] # Absent
      BY <1>1, <1>5, <2>3, <3>6
    <3> QED
      BY <3>7 DEF Mapped
  <2> QED
    BY <1>3, <2>1, <2>2, <2>3
<1>9. \A p \in Pages :
        /\ e[p] # Absent => f[p] = e[p]
        /\ (\E r \in snap.ranges : p \in Span(r) /\ Free(e, Span(r))) => f[p] # Absent
        /\ f[p] # Absent => e[p] # Absent \/ \E r \in snap.ranges : p \in Span(r)
  BY <1>1, Remaps
<1> HIDE DEF f
<1>10. \A r \in snap.ranges : Mapped(f, Span(r))
  <2> SUFFICES ASSUME NEW r \in snap.ranges, NEW p \in Span(r) PROVE f[p] # Absent
    BY DEF Mapped
  <2>1. p \in Pages
    BY <1>4
  <2>2. CASE Mapped(e, Span(r))
    BY <1>9, <2>1, <2>2 DEF Mapped
  <2>3. CASE Free(e, Span(r))
    BY <1>9, <2>1, <2>3
  <2> QED
    BY <1>8, <2>2, <2>3 DEF Whole
<1>11. ASSUME NEW p \in Arena PROVE f[p] # Absent <=> p \in Covered(snap.layout)
  <2>1. p \in Pages /\ p \notin BrkArea
    BY Layout DEF Arena, BrkArea
  <2>2. ASSUME p \in Covered(snap.layout) PROVE f[p] # Absent
    <3>1. PICK r \in snap.layout : p \in Span(r)
      BY <2>2, CoveredBy
    <3> QED
      BY <1>3, <1>10, <3>1 DEF Mapped
  <2>3. ASSUME e[p] # Absent PROVE p \in Covered(snap.layout)
    <3>1. PICK s \in snap.layout : p \in Span(s)
      BY <1>1, <2>3
    <3> QED
      BY <3>1, CoveredBy
  <2>4. ASSUME NEW r \in snap.ranges, p \in Span(r) PROVE p \in Covered(snap.layout)
    <3>1. r \notin Segments
      BY <2>4, SegmentsLow
    <3>2. Span(r) # BrkBase .. BrkTop(snap.brk) - 1
      BY <1>7, <2>1, <2>4
    <3> QED
      BY <1>3, <2>4, <3>1, <3>2, CoveredBy
  <2> QED
    BY <1>9, <2>1, <2>2, <2>3, <2>4
<1>12. ASSUME NEW p \in BrkArea PROVE f[p] # Absent <=> p < BrkTop(snap.brk)
  <2>1. p \in Pages /\ p \notin Arena
    BY Layout DEF Arena, BrkArea
  <2>2. ASSUME NEW r \in snap.ranges, p \in Span(r) PROVE p < BrkTop(snap.brk)
    <3>1. r \notin Segments
      BY <2>2, SegmentsLow
    <3>2. r \notin snap.layout
      BY <1>5, <2>1, <2>2
    <3> QED
      BY <1>3, <1>6, <2>2, <3>1, <3>2
  <2> QED
    BY <1>1, <1>9, <2>1, <2>2
<1> QED
  BY <1>10, <1>11, <1>12 DEF f, e

LEMMA RestoreInStep ==
  ASSUME IInv, Restore, habits = {}
  PROVE  InStep(snap.layout, snap.mmapTop, snap.brk, eng')
<1> DEFINE e == Remap(Unmapped)
<1>1. /\ snap # NoSnap
      /\ \A p \in Pages : eng'[p] = Absent <=> e[p] = Absent
      /\ \A r \in snap.ranges : Mapped(e, Span(r)) => \A p \in Span(r) : eng'[p].prot = r.prot
  BY Restored
<1>2. /\ \A r \in snap.ranges : Mapped(e, Span(r))
      /\ \A p \in Arena : e[p] # Absent <=> p \in Covered(snap.layout)
      /\ \A p \in BrkArea : e[p] # Absent <=> p < BrkTop(snap.brk)
  BY <1>1, Refilled
<1> HIDE DEF e
<1>3. /\ InStep(snap.layout, snap.mmapTop, snap.brk, snap.image) /\ Placed(snap.layout)
      /\ snap.brk \in 0 .. 2 * BrkPages /\ snap.ranges = Ranges(snap.layout, snap.brk)
  BY <1>1, Then
<1>4. snap.layout \subseteq snap.ranges /\ Segments \subseteq snap.ranges
  BY <1>3, RangesPlaced
<1>5. Disjoint(snap.layout) /\ \A r \in snap.layout : MmapBase <= r.lo /\ EndOf(r) <= snap.mmapTop
  BY <1>3 DEF InStep
<1>6. \A p \in Arena : eng'[p] # Absent <=> p \in Covered(snap.layout)
  BY <1>1, <1>2, Layout
<1>7. \A p \in BrkArea : eng'[p] # Absent <=> p < BrkTop(snap.brk)
  BY <1>1, <1>2, Layout
<1>8. \A r \in snap.layout : \A p \in Span(r) : eng'[p].prot = r.prot
  BY <1>1, <1>2, <1>4
<1>9. ASSUME NEW s \in Segments PROVE Whole(eng', Span(s))
  <2>1. Mapped(e, Span(s)) /\ Span(s) \subseteq Pages
    BY <1>2, <1>4, SegmentsLow
  <2> QED
    BY <1>1, <2>1 DEF Whole, Mapped
<1> QED
  BY <1>5, <1>6, <1>7, <1>8, <1>9 DEF InStep

(* The tables are the snapshot's again.                                       *)
LEMMA RewindKeeps ==
  ASSUME IInv, snap # NoSnap, RewindTables, eng' \in Eng,
         habits = {} => InStep(snap.layout, snap.mmapTop, snap.brk, eng')
  PROVE  IInv'
<1>1. /\ regions' = snap.layout /\ mmapTop' = snap.mmapTop /\ brkCur' = snap.brk
      /\ calls' = 0 /\ UNCHANGED <<habits, snap>>
  BY DEF RewindTables
<1>2. calls' \in 0 .. Guests[habits].calls
  BY <1>1, LayoutAssumption DEF IInv, Kept
<1>3. Kept'
  BY <1>1, <1>2, Then, Now DEF Kept, Eng
<1>4. Taken'
  BY <1>1 DEF IInv, Taken
<1>5. Orderly'
  <2>1. snap.brk <= snap.brk
    BY Then, Layout
  <2> QED
    BY <1>1, <2>1, Then DEF Orderly
<1> QED
  BY <1>3, <1>4, <1>5 DEF IInv

LEMMA RestoreKeeps == ASSUME IInv, Restore PROVE IInv'
<1>1. snap # NoSnap /\ eng' \in Eng
  BY Restored
<1>2. RewindTables
  BY DEF Restore
<1>3. habits = {} => InStep(snap.layout, snap.mmapTop, snap.brk, eng')
  BY RestoreInStep
<1> QED
  BY <1>1, <1>2, <1>3, RewindKeeps

(* Nothing an orderly guest does makes Restore fail.                          *)
LEMMA RestoreFailsKeeps == ASSUME IInv, RestoreFails PROVE habits # {} /\ IInv'
<1> DEFINE e == Remap(Unmapped)
<1>1. PICK r \in Unwritable(e) :
        /\ \A s \in Unwritable(e) : r.lo <= s.lo
        /\ eng' = Rewrite(e, {s \in snap.writable : s.lo < r.lo})
  BY DEF RestoreFails
<1>2. snap # NoSnap /\ RewindTables
  BY DEF RestoreFails
<1> DEFINE ws == {s \in snap.writable : s.lo < r.lo}
<1>3. e \in Eng
  BY <1>2, Now, UnmapsForeign, Remaps DEF Unmapped
<1>4. r \in snap.ranges /\ ~Mapped(e, Span(r)) /\ r \in Range
  BY <1>1, <1>2, Then DEF Unwritable, Placed
<1>5. habits # {}
  BY <1>2, <1>4, Refilled
<1> HIDE DEF e
<1>6. ASSUME NEW s \in ws PROVE Mapped(e, Span(s))
  <2>1. s \in snap.writable /\ s.lo < r.lo /\ s \in Range
    BY <1>2, Then DEF Placed
  <2>2. s.lo \in Nat /\ r.lo \in Nat
    BY <1>4, <2>1, Ranged
  <2>3. s \notin Unwritable(e)
    BY <1>1, <2>1, <2>2
  <2> QED
    BY <2>1, <2>3 DEF Unwritable
<1>7. ws \subseteq snap.writable /\ eng' = Rewrite(e, ws)
  BY <1>1
<1> HIDE DEF ws
<1>8. eng' \in Eng
  BY <1>2, <1>3, <1>6, <1>7, Rewrites
<1> QED
  BY <1>2, <1>5, <1>8, RewindKeeps

-----------------------------------------------------------------------------
(* Results.                                                                  *)

LEMMA InitInv == ASSUME Init PROVE IInv
<1>1. /\ habits \in DOMAIN Guests /\ regions = {} /\ mmapTop = MmapBase /\ brkCur = 0
      /\ snap = NoSnap /\ calls = 0
  BY DEF Init
<1> DEFINE Its(p) == CHOOSE s \in Segments : p \in Span(s)
           First(p) == [prot |-> Its(p).prot, val |-> Zero]
<1>2. eng = [p \in Pages |-> IF p \in Covered(Segments) THEN First(p) ELSE Absent]
  BY DEF Init
<1>3. ASSUME NEW p, p \in Covered(Segments) PROVE First(p) \in PageState
  <2>1. \E s \in Segments : p \in Span(s)
    BY <1>3, CoveredBy
  <2>2. Its(p) \in Segments
    BY <2>1
  <2> HIDE DEF Its
  <2>3. Its(p).prot \in Protections
    BY <2>2, SegmentsLow, Ranged
  <2> QED
    BY <2>3, LayoutAssumption DEF PageState
<1> HIDE DEF First
<1>4. /\ eng \in Eng
      /\ \A p \in Pages : eng[p] # Absent <=> p \in Covered(Segments)
  BY <1>2, <1>3, PageIsThere DEF Eng
<1>5. \A p \in Covered(Segments) : p \in Pages /\ p \notin Arena /\ p \notin BrkArea
  BY SegmentsLow, CoveredBy
<1>6. InStep(regions, mmapTop, brkCur, eng)
  <2>1. Disjoint(regions) /\ Covered(regions) = {}
    BY <1>1 DEF Disjoint, Covered
  <2>2. \A p \in Arena : eng[p] # Absent <=> p \in Covered(regions)
    BY <1>4, <1>5, <2>1, Layout
  <2>3. \A p \in BrkArea : eng[p] # Absent <=> p < BrkTop(brkCur)
    <3>1. BrkTop(0) = BrkBase
      BY Layout DEF BrkTop
    <3> SUFFICES ASSUME NEW p \in BrkArea PROVE ~(eng[p] # Absent) /\ ~(p < BrkTop(brkCur))
      OBVIOUS
    <3>2. p \in Pages /\ p \in Nat /\ BrkBase <= p
      BY Layout
    <3>3. ~(eng[p] # Absent)
      BY <1>4, <1>5, <3>2
    <3> QED
      BY <1>1, <3>1, <3>2, <3>3, Layout
  <2>4. ASSUME NEW s \in Segments PROVE Whole(eng, Span(s))
    <3>1. \A p \in Span(s) : p \in Pages /\ p \in Covered(Segments)
      BY SegmentsLow, CoveredBy
    <3> QED
      BY <1>4, <3>1 DEF Whole, Mapped
  <2> QED
    BY <1>1, <2>1, <2>2, <2>3, <2>4 DEF InStep
<1>7. calls \in 0 .. Guests[habits].calls /\ mmapTop \in MmapBase .. Limit /\ brkCur \in 0 .. 2 * BrkPages
  BY <1>1, Layout, LayoutAssumption
<1> QED
  BY <1>1, <1>4, <1>6, <1>7 DEF IInv, Kept, Taken, Orderly, Placed, Eng

LEMMA NextInv == ASSUME IInv, [Next]_vars PROVE IInv'
<1>1. CASE UNCHANGED vars
  BY <1>1 DEF vars, IInv, Kept, Taken, Orderly
<1> QED
  BY <1>1, sysMmapKeeps, sysMmapFixedKeeps, sysMunmapKeeps, sysMprotectKeeps, sysBrkKeeps, AllocKeeps,
     GuestStoreKeeps, SnapshotKeeps, RestoreKeeps, RestoreFailsKeeps DEF Next

(* The invariant is inductive.                                                *)
THEOREM Inductive == Spec => []IInv
<1>1. Init => IInv
  BY InitInv
<1>2. IInv /\ [Next]_vars => IInv'
  BY NextInv
<1> QED
  BY <1>1, <1>2, PTL DEF Spec

(* Every variable has its type, whatever the guest does.                      *)
THEOREM Typed == Spec => []TypeOK
<1>1. IInv => TypeOK
  <2> SUFFICES ASSUME IInv PROVE TypeOK
    OBVIOUS
  <2>1. snap # NoSnap => DOMAIN snap = {"ranges", "writable", "layout", "mmapTop", "brk", "image"}
    BY DEF IInv, Taken
  <2>2. snap # NoSnap => /\ snap.mmapTop \in MmapBase .. MmapBase + ArenaPages
                         /\ snap.brk \in 0 .. 2 * BrkPages
                         /\ snap.image \in [Pages -> PageState \cup {Absent}]
    BY DEF IInv, Taken, Limit
  <2> QED
    BY <2>1, <2>2 DEF IInv, Kept, Placed, Limit, TypeOK
<1> QED
  BY <1>1, Inductive, PTL

(* For an orderly guest the table and the engine agree about the arena, over  *)
(* every sequence of its calls, Snapshot and Restore.                         *)
THEOREM TableInSyncAlways == Spec => []TableInSync
<1>1. IInv => TableInSync
  <2> SUFFICES ASSUME IInv, habits = {}, NEW r \in regions, NEW p \in Span(r)
               PROVE  eng[p] # Absent /\ eng[p].prot \in {r.prot, r.prot \cup {"R"}}
    <3>1. IInv /\ habits = {} => Disjoint(regions) /\ \A p \in Arena : eng[p] # Absent <=> p \in Covered(regions)
      BY Now DEF InStep
    <3> QED
      BY <3>1 DEF TableInSync
  <2>1. r \in Range /\ MmapBase <= r.lo /\ EndOf(r) <= Limit
    BY Now DEF InStep, Placed
  <2>2. p \in Arena
    BY <2>1, Ranged, Layout DEF Arena, Limit
  <2> QED
    BY <2>2, Now, CoveredBy DEF InStep
<1> QED
  BY <1>1, Inductive, PTL

(* The heap of such a guest is what lies below its break.                     *)
THEOREM BrkInSyncAlways == Spec => []BrkInSync
<1>1. IInv => BrkInSync
  BY Now DEF BrkInSync, InStep
<1> QED
  BY <1>1, Inductive, PTL

(* Its cursor passes over free pages only, also after a Restore.              *)
THEOREM AllocFreshAlways == Spec => AllocFresh
<1>1. IInv /\ IInv' => (habits = {} /\ mmapTop' > mmapTop => Free(eng, mmapTop .. mmapTop' - 1))
  <2> SUFFICES ASSUME IInv, IInv', habits = {}, mmapTop' > mmapTop,
                      NEW p, p \in mmapTop .. mmapTop' - 1
               PROVE  eng[p] = Absent
    BY DEF Free
  <2>1. mmapTop \in Nat /\ MmapBase <= mmapTop /\ mmapTop' \in MmapBase .. Limit
    BY Now DEF IInv, Kept
  <2>2. mmapTop' \in Nat /\ mmapTop' <= Limit
    BY <2>1, Layout
  <2>3. p \in Nat /\ mmapTop <= p /\ p < mmapTop'
    <3>1. \A m, n \in Nat : \A q \in m .. n - 1 : q \in Nat /\ m <= q /\ q < n
      OBVIOUS
    <3>2. mmapTop \in Nat /\ mmapTop' \in Nat
      BY <2>1, <2>2
    <3> QED
      BY <3>1, <3>2
  <2>4. p \in Arena
    BY <2>1, <2>2, <2>3, Layout DEF Arena, Limit
  <2> QED
    BY <2>3, <2>4, AboveCursor
<1> QED
  BY <1>1, Inductive, PTL DEF AllocFresh

(* A Restore that succeeds takes such a guest's address space back to the     *)
(* snapshot; none fails.                                                      *)
THEOREM RestoreExactAlways == Spec => RestoreExact
<1>1. IInv => (habits = {} /\ Restore => Rewound')
  <2> SUFFICES ASSUME IInv, habits = {}, Restore PROVE Rewound'
    OBVIOUS
  <2>1. regions' = snap.layout /\ mmapTop' = snap.mmapTop /\ brkCur' = snap.brk /\ snap' = snap
    BY DEF Restore, RewindTables
  <2>2. /\ snap # NoSnap
        /\ InStep(snap.layout, snap.mmapTop, snap.brk, snap.image)
        /\ InStep(snap.layout, snap.mmapTop, snap.brk, eng')
    BY Restored, Then, RestoreInStep
  <2>3. \A p \in BrkArea \cup Arena : eng'[p] = Absent <=> snap.image[p] = Absent
    BY <2>2 DEF InStep
  <2>4. \A r \in snap.ranges : \A p \in Span(r) : eng'[p] # Absent /\ eng'[p].prot = r.prot
    <3>1. \A r \in snap.ranges : Mapped(Remap(Unmapped), Span(r))
      BY <2>2, Refilled
    <3>2. \A r \in snap.ranges : Span(r) \subseteq Pages
      BY <2>2, Then, Ranged DEF Placed
    <3>3. \A p \in Pages : eng'[p] = Absent <=> Remap(Unmapped)[p] = Absent
      BY Restored
    <3>4. \A r \in snap.ranges : \A p \in Span(r) : eng'[p].prot = r.prot
      BY <3>1, Restored
    <3> QED
      BY <3>1, <3>2, <3>3, <3>4 DEF Mapped
  <2>5. \A r \in snap.writable : \A p \in Span(r) : eng'[p] # Absent /\ eng'[p].val = snap.image[p].val
    BY Restored
  <2> QED
    BY <2>1, <2>3, <2>4, <2>5 DEF Rewound
<1> QED
  BY <1>1, Inductive, PTL DEF RestoreExact

LEMMA UnmapsWithin ==
  ASSUME NEW e, NEW ps, NEW p \in Pages, MemUnmap(e, ps)[p] # Absent
  PROVE  e[p] # Absent
BY DEF MemUnmap

(* Whatever the guest did, a Restore that succeeds has put back every byte    *)
(* that was captured and every recorded range, whole and with its protection, *)
(* but for one that was not captured and of which a page was still mapped.     *)
THEOREM RestoreWholeAlways == Spec => RestoreWhole
<1>1. IInv => (Restore =>
        /\ \A r \in snap.ranges : Intact(r) \/ (r \notin snap.writable /\ Torn(r))
        /\ \A r \in snap.writable : \A p \in Span(r) : eng'[p].val = snap.image[p].val)
  <2> SUFFICES ASSUME IInv, Restore
               PROVE  /\ \A r \in snap.ranges : Intact(r) \/ (r \notin snap.writable /\ Torn(r))
                      /\ \A r \in snap.writable : \A p \in Span(r) : eng'[p].val = snap.image[p].val
    OBVIOUS
  <2> DEFINE e == Unmapped
             f == Remap(e)
  <2>1. /\ snap # NoSnap /\ e \in Eng
        /\ \A r \in snap.writable : \A p \in Span(r) :
             eng'[p] # Absent /\ eng'[p].val = snap.image[p].val
        /\ \A p \in Pages : eng'[p] = Absent <=> f[p] = Absent
        /\ \A r \in snap.ranges : Mapped(f, Span(r)) => \A p \in Span(r) : eng'[p].prot = r.prot
    BY Restored
  <2>2. \A r \in snap.ranges : Span(r) \subseteq Pages
    BY <2>1, Then, Ranged DEF Placed
  <2>3. \A p \in Pages : /\ e[p] # Absent => f[p] # Absent
                         /\ (\E r \in snap.ranges : p \in Span(r) /\ Free(e, Span(r))) => f[p] # Absent
    BY <2>1, Remaps
  <2>4. \A p \in Pages : e[p] # Absent => eng[p] # Absent
    BY Now, UnmapsForeign, UnmapsWithin DEF Unmapped, UnmapGrown
  <2> HIDE DEF e, f
  <2>5. ASSUME NEW r \in snap.ranges PROVE Intact(r) \/ (r \notin snap.writable /\ Torn(r))
    <3>1. CASE Mapped(f, Span(r))
      BY <2>1, <2>2, <3>1 DEF Mapped, Intact
    <3>2. CASE ~Mapped(f, Span(r))
      <4>1. PICK q \in Span(r) : f[q] = Absent
        BY <3>2 DEF Mapped
      <4>2. eng'[q] = Absent /\ r \notin snap.writable
        BY <2>1, <2>2, <4>1
      <4>3. ~Free(e, Span(r))
        BY <2>2, <2>3, <4>1
      <4>4. PICK p \in Span(r) : e[p] # Absent
        BY <4>3 DEF Free
      <4>5. eng[p] # Absent /\ eng'[p] # Absent
        BY <2>1, <2>2, <2>3, <2>4, <4>4
      <4> QED
        BY <4>2, <4>5 DEF Torn
    <3> QED
      BY <3>1, <3>2
  <2> QED
    BY <2>1, <2>5
<1> QED
  BY <1>1, Inductive, PTL DEF RestoreWhole

(* Every Restore of an orderly guest succeeds.                                *)
THEOREM RestoreSucceeds == Spec => [][RestoreFails => habits # {}]_vars
<1>1. IInv => (RestoreFails => habits # {})
  BY RestoreFailsKeeps
<1> QED
  BY <1>1, Inductive, PTL

-----------------------------------------------------------------------------
(* What Restore's comments promise, of an orderly guest.  Such a guest has no *)
(* page but those of its segments, its heap and the arena.                    *)

Known == Covered(Segments) \cup BrkArea \cup Arena

OnlyKnown ==
  habits = {} => /\ \A p \in Pages : eng[p] # Absent => p \in Known
                 /\ snap # NoSnap => \A p \in Pages : snap.image[p] # Absent => p \in Known

LEMMA MapsWithin ==
  ASSUME NEW e, NEW ps, NEW pr, NEW p \in Pages, MemMap(e, ps, pr)[p] # Absent
  PROVE  e[p] # Absent \/ p \in ps
BY DEF MemMap

(* What a step of an orderly guest maps lies where it may.                    *)
LEMMA MapsKnown ==
  ASSUME IInv, habits = {}, sysMmap \/ sysMmapFixed \/ sysMunmap \/ sysMprotect \/ sysBrk \/ Alloc \/ GuestStore,
         NEW p \in Pages, eng'[p] # Absent
  PROVE  eng[p] # Absent \/ p \in Known
<1>1. ASSUME NEW n \in 1 .. ArenaPages, mmapTop + n <= MmapBase + ArenaPages,
             p \in mmapTop .. mmapTop + n - 1
      PROVE  p \in Known
  <2>1. n \in Nat /\ mmapTop \in Nat /\ MmapBase <= mmapTop
    BY Now, Layout
  <2>2. p \in Arena
    BY <1>1, <2>1, Layout DEF Arena
  <2> QED
    BY <2>2 DEF Known
<1>2. CASE sysMmap \/ Alloc
  <2>1. PICK n \in 1 .. ArenaPages :
          /\ mmapTop + n <= MmapBase + ArenaPages
          /\ \E pr : eng' = MemMap(eng, mmapTop .. mmapTop + n - 1, pr)
    BY <1>2 DEF sysMmap, Alloc
  <2>2. PICK pr : eng' = MemMap(eng, mmapTop .. mmapTop + n - 1, pr)
    BY <2>1
  <2> QED
    BY <1>1, <2>1, <2>2, MapsWithin
<1>3. CASE sysMmapFixed
  <2>1. PICK lo \in Pages, end \in 1 .. MmapBase + ArenaPages, pr \in Guests[habits].prots :
          /\ GuestRange(lo, end) /\ InArena(lo, end)
          /\ eng' = MemMap(MemUnmap(eng, lo .. end - 1), lo .. end - 1, pr \cup {"R"})
    BY <1>3 DEF sysMmapFixed, PoliteFixed
  <2>2. p \in lo .. end - 1 => p \in Known
    <3>1. lo \in Nat /\ end \in Nat /\ mmapTop \in Nat /\ mmapTop <= Limit /\ MmapBase <= lo /\ end <= mmapTop
      BY <2>1, GuestRanges, Now DEF InArena
    <3>2. p \in lo .. end - 1 => p \in Arena
      BY <3>1, Layout DEF Arena, Limit
    <3> QED
      BY <3>2 DEF Known
  <2> DEFINE e == MemUnmap(eng, lo .. end - 1)
  <2>3. e[p] # Absent \/ p \in lo .. end - 1
    BY <2>1, MapsWithin
  <2>4. e[p] # Absent => eng[p] # Absent
    BY UnmapsWithin
  <2> QED
    BY <2>2, <2>3, <2>4
<1>4. CASE sysMunmap
  <2>1. PICK lo, end : eng' = MemUnmap(eng, lo .. end - 1) \/ eng' = eng
    BY <1>4 DEF sysMunmap
  <2> QED
    BY <2>1, UnmapsWithin
<1>5. CASE sysMprotect
  <2>1. PICK lo \in Pages, end \in 1 .. MmapBase + ArenaPages, pr \in Guests[habits].prots :
          GuestRange(lo, end) /\ eng' = MemProtect(eng, lo .. end - 1, pr)
    BY <1>5 DEF sysMprotect
  <2>2. lo .. end - 1 \in SUBSET Pages /\ pr \in Protections /\ eng \in Eng
    BY <2>1, GuestRanges, Now
  <2> DEFINE f == MemProtect(eng, lo .. end - 1, pr)
  <2>3. f[p] = Absent <=> eng[p] = Absent
    BY <2>2, Protects
  <2> QED
    BY <2>1, <2>3
<1>6. CASE sysBrk
  <2>1. PICK want \in 0 .. 2 * BrkPages :
          eng' = MemMap(eng, BrkTop(brkCur) .. BrkTop(want) - 1, {"R", "W"})
    BY <1>6 DEF sysBrk
  <2>2. p \in BrkTop(brkCur) .. BrkTop(want) - 1 => p \in BrkArea
    <3>1. /\ BrkTop(brkCur) \in Nat /\ BrkBase <= BrkTop(brkCur)
          /\ BrkTop(want) \in Nat /\ BrkTop(want) <= BrkBase + BrkPages
      BY Now, BrkTops
    <3> QED
      BY <3>1, Layout DEF BrkArea
  <2> QED
    BY <2>1, <2>2, MapsWithin DEF Known
<1>7. CASE GuestStore
  <2>1. PICK q \in Pages, x \in Vals : eng[q] # Absent /\ eng' = [eng EXCEPT ![q].val = x]
    BY <1>7 DEF GuestStore
  <2>2. p # q => eng'[p] = eng[p]
    BY <2>1, Now DEF Eng
  <2> QED
    BY <2>1, <2>2
<1> QED
  BY <1>2, <1>3, <1>4, <1>5, <1>6, <1>7

LEMMA RestoreKnown ==
  ASSUME IInv, OnlyKnown, habits = {}, Restore, NEW p \in Pages, eng'[p] # Absent
  PROVE  p \in Known
<1>1. snap # NoSnap /\ Unmapped \in Eng /\ Remap(Unmapped)[p] # Absent
  BY Restored
<1>2. CASE \E r \in snap.ranges : p \in Span(r)
  <2>1. PICK r \in snap.ranges : p \in Span(r)
    BY <1>2
  <2>2. snap.ranges = Ranges(snap.layout, snap.brk) /\ Placed(snap.ranges)
        /\ InStep(snap.layout, snap.mmapTop, snap.brk, snap.image) /\ snap.brk \in 0 .. 2 * BrkPages
        /\ snap.mmapTop \in Nat /\ snap.mmapTop <= Limit
    BY <1>1, Then
  <2>3. r \in Range /\ p \in Nat /\ r.lo <= p /\ p < EndOf(r) /\ EndOf(r) \in Nat /\ r.lo \in Nat
    BY <2>1, <2>2, Ranged DEF Placed
  <2>4. CASE r \in Segments
    BY <2>1, <2>4, CoveredBy DEF Known
  <2>5. CASE r \in snap.layout
    <3>1. MmapBase <= r.lo /\ EndOf(r) <= snap.mmapTop
      BY <2>2, <2>5 DEF InStep
    <3>2. p \in Arena
      BY <2>2, <2>3, <3>1, Layout DEF Arena, Limit
    <3> QED
      BY <3>2 DEF Known
  <2>6. CASE r = [lo |-> BrkBase, size |-> BrkTop(snap.brk) - BrkBase, prot |-> HeapProt]
    <3>1. BrkTop(snap.brk) \in Nat /\ BrkBase <= BrkTop(snap.brk) /\ BrkTop(snap.brk) <= BrkBase + BrkPages
      BY <2>2, BrkTops
    <3>2. r.lo = BrkBase /\ EndOf(r) = BrkTop(snap.brk)
      BY <2>6, <3>1, Layout DEF EndOf
    <3>3. p \in BrkArea
      BY <2>3, <3>1, <3>2, Layout DEF BrkArea
    <3> QED
      BY <3>3 DEF Known
  <2> QED
    BY <2>1, <2>2, <2>4, <2>5, <2>6 DEF Ranges
<1>3. CASE ~\E r \in snap.ranges : p \in Span(r)
  <2>1. Unmapped[p] # Absent
    BY <1>1, <1>3, Remaps
  <2> DEFINE e == UnmapForeign(eng, regions)
  <2>2. Unmapped = MemUnmap(e, BrkTop(snap.brk) .. BrkTop(brkCur) - 1)
    BY DEF Unmapped, UnmapGrown
  <2>3. e[p] # Absent
    BY <2>1, <2>2, UnmapsWithin
  <2>4. eng[p] # Absent
    BY <2>3, Now, UnmapsForeign
  <2> QED
    BY <2>4 DEF OnlyKnown
<1> QED
  BY <1>2, <1>3

LEMMA InitSegments ==
  ASSUME Init
  PROVE  snap = NoSnap /\ \A p \in Pages : eng[p] # Absent => p \in Covered(Segments)
<1>1. snap = NoSnap
  BY DEF Init
<1> DEFINE Its(p) == CHOOSE s \in Segments : p \in Span(s)
           First(p) == [prot |-> Its(p).prot, val |-> Zero]
<1>2. eng = [p \in Pages |-> IF p \in Covered(Segments) THEN First(p) ELSE Absent]
  BY DEF Init
<1> HIDE DEF First
<1> QED
  BY <1>1, <1>2

LEMMA AlwaysKnown == Spec => []OnlyKnown
<1>1. Init => OnlyKnown
  <2>1. Init => snap = NoSnap /\ \A p \in Pages : eng[p] # Absent => p \in Covered(Segments)
    BY InitSegments
  <2> QED
    BY <2>1 DEF OnlyKnown, Known
<1>2. IInv /\ OnlyKnown /\ [Next]_vars => OnlyKnown'
  <2> SUFFICES ASSUME IInv, OnlyKnown, [Next]_vars PROVE OnlyKnown'
    OBVIOUS
  <2>1. CASE UNCHANGED vars
    BY <2>1 DEF vars, OnlyKnown
  <2>2. CASE sysMmap \/ sysMmapFixed \/ sysMunmap \/ sysMprotect \/ sysBrk \/ Alloc \/ GuestStore
    <3>1. UNCHANGED <<habits, snap>>
      BY <2>2, Zenon DEF sysMmap, sysMmapFixed, sysMunmap, sysMprotect, sysBrk, Alloc, GuestStore
    <3>2. habits = {} => \A p \in Pages : eng'[p] # Absent => p \in Known
      BY <2>2, MapsKnown DEF OnlyKnown
    <3> QED
      BY <3>1, <3>2 DEF OnlyKnown
  <2>3. CASE Snapshot
    <3>1. snap'.image = eng /\ UNCHANGED <<habits, eng>>
      BY <2>3 DEF Snapshot
    <3> QED
      BY <3>1 DEF OnlyKnown
  <2>4. CASE Restore
    <3>1. UNCHANGED <<habits, snap>>
      BY <2>4 DEF Restore, RewindTables
    <3>2. habits = {} => \A p \in Pages : eng'[p] # Absent => p \in Known
      BY <2>4, RestoreKnown
    <3> QED
      BY <3>1, <3>2 DEF OnlyKnown
  <2>5. CASE RestoreFails
    <3>1. UNCHANGED habits /\ habits # {}
      BY <2>5, RestoreFailsKeeps DEF RestoreFails, RewindTables
    <3> QED
      BY <3>1 DEF OnlyKnown
  <2> QED
    BY <2>1, <2>2, <2>3, <2>4, <2>5 DEF Next
<1> QED
  BY <1>1, <1>2, Inductive, PTL DEF Spec

(* "Re-map any snapshot region the guest unmapped during the call" (of        *)
(* Restore): true of an orderly guest, page for page.  Of any other it is     *)
(* true as far as RestoreWhole says.                                          *)
THEOREM RemapsOrderly ==
  Spec => [][habits = {} /\ Restore => \A p \in Pages : snap.image[p] # Absent => eng'[p] # Absent]_vars
<1>1. IInv /\ OnlyKnown => ((habits = {} /\ Restore => Rewound') =>
        (habits = {} /\ Restore => \A p \in Pages : snap.image[p] # Absent => eng'[p] # Absent))
  <2> SUFFICES ASSUME IInv, OnlyKnown, habits = {}, Restore, Rewound',
                      NEW p \in Pages, snap.image[p] # Absent
               PROVE  eng'[p] # Absent
    OBVIOUS
  <2>1. snap # NoSnap /\ UNCHANGED snap /\ p \in Known
    BY DEF Restore, RewindTables, OnlyKnown
  <2>2. CASE p \in BrkArea \cup Arena
    BY <2>1, <2>2 DEF Rewound
  <2>3. CASE p \in Covered(Segments)
    <3>1. PICK s \in Segments : p \in Span(s)
      BY <2>3, CoveredBy
    <3>2. s \in snap.ranges
      BY <2>1, <3>1, Then DEF Ranges
    <3> QED
      BY <2>1, <3>1, <3>2 DEF Rewound
  <2> QED
    BY <2>1, <2>2, <2>3 DEF Known
<1> QED
  BY <1>1, Inductive, AlwaysKnown, RestoreExactAlways, PTL DEF RestoreExact

(* "Release brk pages grown since the snapshot so a later brk() can re-map    *)
(* them cleanly" (of Restore): true of an orderly guest.  RestoreReleasesBrk, *)
(* which does not ask for one, is violated.                                   *)
THEOREM ReleasesBrkOrderly ==
  Spec => [][habits = {} /\ Restore => \A p \in BrkArea : p >= BrkTop(brkCur') => eng'[p] = Absent]_vars
<1>1. IInv => ((habits = {} /\ Restore => Rewound') =>
        (habits = {} /\ Restore => \A p \in BrkArea : p >= BrkTop(brkCur') => eng'[p] = Absent))
  <2> SUFFICES ASSUME IInv, habits = {}, Restore, Rewound', NEW p \in BrkArea, p >= BrkTop(brkCur')
               PROVE  eng'[p] = Absent
    OBVIOUS
  <2>1. snap # NoSnap /\ UNCHANGED snap /\ brkCur' = snap.brk
    BY DEF Restore, RewindTables
  <2>2. InStep(snap.layout, snap.mmapTop, snap.brk, snap.image) /\ snap.brk \in 0 .. 2 * BrkPages
    BY <2>1, Then
  <2>3. ~(p < BrkTop(snap.brk))
    BY <2>1, <2>2, BrkTops, Layout
  <2> QED
    BY <2>1, <2>2, <2>3 DEF InStep, Rewound
<1> QED
  BY <1>1, Inductive, RestoreExactAlways, PTL DEF RestoreExact
===============================================================================
