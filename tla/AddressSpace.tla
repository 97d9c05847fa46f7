---------------------------- MODULE AddressSpace -----------------------------
(***************************************************************************)
(* The guest's address space is kept twice: the allocator's table of        *)
(* regions (internal/memory) and the pages the CPU engine has mapped.  The  *)
(* mmap, munmap, mprotect and brk system calls (internal/kernel), Alloc and *)
(* Snapshot/Restore (emulator) change both, one call at a time, and most of *)
(* them ignore what the engine answers.                                     *)
(*                                                                         *)
(* Addresses are page numbers: module segments lowest, then the brk heap,   *)
(* then the mmap arena.  The program break is counted in half pages, so     *)
(* that it can lie inside a page.                                           *)
(***************************************************************************)
EXTENDS Integers

CONSTANTS
  Segments,    \* module segments, stack and TLS, mapped when they are loaded
  BrkBase, BrkPages,     \* the brk heap, and a bound on it
  MmapBase, ArenaPages,  \* the mmap arena, and a bound on it
  Vals, Zero,  \* page contents
  Absent,      \* not mapped
  NoSnap,      \* no snapshot taken
  Guests       \* for each set of habits a guest may have, the protections it asks
               \* for, `prots`, and bounds on its calls: `boot` before Snapshot,
               \* `calls` between it and Restore

(* What a guest may do besides growing its break and mapping, unmapping and    *)
(* protecting whole mappings.                                                  *)
(* "shrink": lower the program break; "ahead": MAP_FIXED above the allocator's *)
(* cursor; "partial": unmap, protect or map over an unaligned range, one with  *)
(* holes, or a part of a region or segment.                                    *)
AllHabits == {"shrink", "ahead", "partial"}

Pages == 0 .. MmapBase + ArenaPages - 1
BrkArea == BrkBase .. BrkBase + BrkPages - 1
Arena == MmapBase .. MmapBase + ArenaPages - 1

Protections == SUBSET {"R", "W", "X"}
Range == [lo : Nat, size : Nat \ {0}, prot : Protections]
EndOf(r) == r.lo + r.size
Span(r) == r.lo .. EndOf(r) - 1
Covered(rs) == UNION {Span(r) : r \in rs}
Disjoint(rs) == \A r, s \in rs : r # s => EndOf(r) <= s.lo \/ EndOf(s) <= r.lo

ASSUME LayoutAssumption ==
  /\ BrkBase \in Nat /\ BrkPages \in Nat /\ MmapBase \in Nat /\ ArenaPages \in Nat
  /\ BrkBase + BrkPages <= MmapBase
  /\ Segments \subseteq Range /\ Disjoint(Segments)
  /\ \A s \in Segments : EndOf(s) <= BrkBase
  /\ Zero \in Vals
  /\ DOMAIN Guests \subseteq SUBSET AllHabits
  /\ \A h \in DOMAIN Guests : /\ Guests[h].prots \subseteq Protections
                               /\ Guests[h].boot \in Nat /\ Guests[h].calls \in Nat
  /\ Absent \notin [prot : Protections, val : Vals]

VARIABLES
  habits,   \* of this guest
  regions,  \* Space.regions
  mmapTop,  \* Space.mmapTop
  brkCur,   \* Context.brkCur, in half pages above BrkBase
  eng,      \* the engine's pages
  snap,     \* the snapshot
  calls     \* calls since the start, Snapshot or Restore

vars == <<habits, regions, mmapTop, brkCur, eng, snap, calls>>

-----------------------------------------------------------------------------
(* The engine: all of a range or none of it.                                 *)

Mapped(e, ps) == \A p \in ps : e[p] # Absent
Free(e, ps) == \A p \in ps : e[p] = Absent

MemMap(e, ps, pr) ==
  IF Free(e, ps) THEN [p \in Pages |-> IF p \in ps THEN [prot |-> pr, val |-> Zero] ELSE e[p]]
  ELSE e

MemUnmap(e, ps) ==
  IF Mapped(e, ps) THEN [p \in Pages |-> IF p \in ps THEN Absent ELSE e[p]] ELSE e

MemProtect(e, ps, pr) ==
  IF Mapped(e, ps) THEN [p \in Pages |-> IF p \in ps THEN [e[p] EXCEPT !.prot = pr] ELSE e[p]]
  ELSE e

(* The allocator's table.                                                    *)

CutNoTail(rs, lo, end) ==
  {r \in rs : EndOf(r) <= lo \/ end <= r.lo}
  \cup {[r EXCEPT !.size = lo - r.lo] : r \in {x \in rs : x.lo < lo /\ lo < EndOf(x)}}

CutEmptyHead(rs, lo, end) ==
  {r \in rs : EndOf(r) <= lo \/ end <= r.lo}
  \cup {[r EXCEPT !.size = lo - r.lo] : r \in {x \in rs : x.lo <= lo /\ lo < EndOf(x)}}

Cut(rs, lo, end) ==
  {r \in rs : EndOf(r) <= lo \/ end <= r.lo}
  \cup {[r EXCEPT !.size = lo - r.lo] : r \in {x \in rs : x.lo < lo /\ lo < EndOf(x)}}
  \cup {[r EXCEPT !.lo = end, !.size = EndOf(r) - end] :
          r \in {x \in rs : x.lo < end /\ end < EndOf(x)}}

Within(r, lo, end) == lo <= r.lo /\ EndOf(r) <= end

Reprotected(rs, lo, end, pr) ==
  {r \in rs : ~Within(r, lo, end)}
  \cup {[r EXCEPT !.prot = pr] : r \in {x \in rs : Within(x, lo, end)}}

-----------------------------------------------------------------------------
BrkTop(b) == BrkBase + (b + 1) \div 2

Init ==
  /\ habits \in DOMAIN Guests
  /\ regions = {} /\ mmapTop = MmapBase /\ brkCur = 0
  /\ eng = [p \in Pages |->
              IF p \in Covered(Segments)
              THEN [prot |-> (CHOOSE s \in Segments : p \in Span(s)).prot, val |-> Zero]
              ELSE Absent]
  /\ snap = NoSnap /\ calls = 0

Counted == calls < Guests[habits].calls /\ calls' = calls + 1

(* A range [lo, end) the guest names, and whether it keeps to whole mappings. *)
GuestRange(lo, end) == lo \in Pages /\ end \in Pages \cup {MmapBase + ArenaPages} /\ lo < end
InArena(lo, end) == MmapBase <= lo /\ end <= mmapTop
WholeSegment(lo, end) == \E s \in Segments : s.lo = lo /\ EndOf(s) = end
WholeRegions(lo, end) ==
  Covered({r \in regions : Within(r, lo, end)}) = lo .. end - 1

sysMmap ==
  /\ Counted
  /\ \E n \in 1 .. ArenaPages, pr \in Guests[habits].prots :
       /\ mmapTop + n <= MmapBase + ArenaPages
       /\ regions' = regions \cup {[lo |-> mmapTop, size |-> n, prot |-> pr]}
       /\ mmapTop' = mmapTop + n
       /\ eng' = MemMap(eng, mmapTop .. mmapTop + n - 1, pr \cup {"R"})
  /\ UNCHANGED <<habits, brkCur, snap>>

PoliteFixed(lo, end) ==
  \/ InArena(lo, end) /\ (Mapped(eng, lo .. end - 1) \/ Free(eng, lo .. end - 1))
  \/ "ahead" \in habits /\ mmapTop <= lo

sysMmapFixed ==
  /\ Counted
  /\ \E lo \in Pages, end \in 1 .. MmapBase + ArenaPages, pr \in Guests[habits].prots :
       /\ GuestRange(lo, end)
       /\ PoliteFixed(lo, end) \/ ("partial" \in habits /\ (lo < MmapBase \/ end <= mmapTop))
       /\ regions' = Cut(regions, lo, end) \cup {[lo |-> lo, size |-> end - lo, prot |-> pr]}
       /\ eng' = MemMap(MemUnmap(eng, lo .. end - 1), lo .. end - 1, pr \cup {"R"})
  /\ UNCHANGED <<habits, mmapTop, brkCur, snap>>

\* The engine refuses an unaligned address, the table rounds it.
sysMunmap ==
  /\ Counted
  /\ \E lo \in Pages, end \in 1 .. MmapBase + ArenaPages, aligned \in BOOLEAN :
       /\ GuestRange(lo, end)
       /\ \/ "partial" \in habits
          \/ aligned /\ InArena(lo, end) /\ Mapped(eng, lo .. end - 1)
          \/ aligned /\ WholeSegment(lo, end)
       /\ regions' = Cut(regions, lo, end)
       /\ eng' = IF aligned THEN MemUnmap(eng, lo .. end - 1) ELSE eng
  /\ UNCHANGED <<habits, mmapTop, brkCur, snap>>

sysMprotect ==
  /\ Counted
  /\ \E lo \in Pages, end \in 1 .. MmapBase + ArenaPages, pr \in Guests[habits].prots :
       /\ GuestRange(lo, end)
       /\ "partial" \in habits \/ WholeRegions(lo, end) \/ WholeSegment(lo, end)
       /\ regions' = Reprotected(regions, lo, end, pr)
       /\ eng' = MemProtect(eng, lo .. end - 1, pr)
  /\ UNCHANGED <<habits, mmapTop, brkCur, snap>>

sysBrk ==
  /\ Counted
  /\ \E want \in 0 .. 2 * BrkPages :
       LET new == BrkTop(brkCur) .. BrkTop(want) - 1
       IN /\ want # brkCur /\ (want > brkCur \/ "shrink" \in habits)
          /\ Free(eng, new)
          /\ eng' = MemMap(eng, new, {"R", "W"})
          /\ brkCur' = want
  /\ UNCHANGED <<habits, regions, mmapTop, snap>>

Alloc ==
  /\ Counted
  /\ \E n \in 1 .. ArenaPages :
       /\ mmapTop + n <= MmapBase + ArenaPages
       /\ regions' = regions \cup {[lo |-> mmapTop, size |-> n, prot |-> {"R", "W"}]}
       /\ mmapTop' = mmapTop + n
       /\ eng' = MemMap(eng, mmapTop .. mmapTop + n - 1, {"R", "W"})
  /\ UNCHANGED <<habits, brkCur, snap>>

GuestStore ==
  /\ Counted
  /\ \E p \in Pages, x \in Vals :
       /\ eng[p] # Absent /\ "W" \in eng[p].prot
       /\ eng' = [eng EXCEPT ![p].val = x]
  /\ UNCHANGED <<habits, regions, mmapTop, brkCur, snap>>

-----------------------------------------------------------------------------
(* Snapshot and Restore.                                                     *)

guestRanges ==
  Segments \cup regions
  \cup IF BrkTop(brkCur) > BrkBase
       THEN {[lo |-> BrkBase, size |-> BrkTop(brkCur) - BrkBase, prot |-> {"R", "W"}]} ELSE {}

\* Overlapping ranges (from a mapping ahead of the cursor, or over a segment)
\* would be replayed one after the other: Snapshot and Restore are modelled
\* only where there are none.
Snapshot ==
  /\ snap = NoSnap /\ calls <= Guests[habits].boot /\ Disjoint(guestRanges)
  /\ snap' = [ranges |-> guestRanges,
              writable |-> {r \in guestRanges : "W" \in r.prot /\ Mapped(eng, Span(r))},
              layout |-> regions, mmapTop |-> mmapTop, brk |-> brkCur,
              image |-> eng]
  /\ calls' = 0
  /\ UNCHANGED <<habits, regions, mmapTop, brkCur, eng>>

\* 1) unmap the regions of table rs the snapshot does not have.
Foreign(rs) == {r \in rs : \A s \in snap.layout : s.lo # r.lo \/ s.size # r.size}

UnmapForeign(e, rs) ==
  LET gone == {r \in Foreign(rs) : Mapped(e, Span(r))}
  IN [p \in Pages |-> IF p \in Covered(gone) THEN Absent ELSE e[p]]

\* 3) release the brk pages grown since.
UnmapGrown(e) == MemUnmap(e, BrkTop(snap.brk) .. BrkTop(brkCur) - 1)

\* 4) map every range again; an error is the usual case.
RemapCaptured(e) ==
  LET lost == {r \in snap.writable : Free(e, Span(r))}
  IN [p \in Pages |-> IF p \in Covered(lost) THEN [prot |-> {"R", "W"}, val |-> Zero] ELSE e[p]]
Remap(e) ==
  [p \in Pages |->
     IF \E r \in snap.ranges : p \in Span(r) /\ Free(e, Span(r))
     THEN [prot |-> (CHOOSE r \in snap.ranges : p \in Span(r) /\ Free(e, Span(r))).prot,
           val |-> Zero]
     ELSE e[p]]

\* 5) write back the bytes of ws.  The second attempt after a failed write
\* repeats step 4 on the same range and cannot do better.
Rewrite(e, ws) ==
  [p \in Pages |-> IF p \in Covered(ws) THEN [e[p] EXCEPT !.val = snap.image[p].val] ELSE e[p]]

\* 6) protections; the engine refuses a range with a hole.
ReprotectNone(e) == e
Reprotect(e) ==
  [p \in Pages |->
     IF \E r \in snap.ranges : p \in Span(r) /\ Mapped(e, Span(r))
     THEN [e[p] EXCEPT !.prot =
             (CHOOSE r \in snap.ranges : p \in Span(r) /\ Mapped(e, Span(r))).prot]
     ELSE e[p]]

UnmappedTooLate == UnmapGrown(UnmapForeign(eng, snap.layout))
UnmappedNoBrk == UnmapForeign(eng, regions)
Unmapped == UnmapGrown(UnmapForeign(eng, regions))
Unwritable(e) == {r \in snap.writable : ~Mapped(e, Span(r))}

RewindTables ==
  /\ regions' = snap.layout /\ mmapTop' = snap.mmapTop /\ brkCur' = snap.brk
  /\ calls' = 0 /\ UNCHANGED <<habits, snap>>

Restore ==
  /\ snap # NoSnap /\ Disjoint(regions) /\ Unwritable(Remap(Unmapped)) = {}
  /\ eng' = Reprotect(Rewrite(Remap(Unmapped), snap.writable))
  /\ RewindTables

\* It returns at the first range it cannot write: what precedes it is written,
\* no protection is set, and no register, JNI or scheduler state is rewound.
RestoreFails ==
  /\ snap # NoSnap /\ Disjoint(regions)
  /\ \E r \in Unwritable(Remap(Unmapped)) :
       /\ \A s \in Unwritable(Remap(Unmapped)) : r.lo <= s.lo
       /\ eng' = Rewrite(Remap(Unmapped), {s \in snap.writable : s.lo < r.lo})
  /\ RewindTables

Next ==
  \/ sysMmap \/ sysMmapFixed \/ sysMunmap \/ sysMprotect \/ sysBrk \/ Alloc \/ GuestStore
  \/ Snapshot \/ Restore \/ RestoreFails

Spec == Init /\ [][Next]_vars

-----------------------------------------------------------------------------
(* Properties.                                                               *)

PageState == [prot : Protections, val : Vals]

(* Every variable has its type.                                               *)
TypeOK ==
  /\ \A r \in regions : r \in Range
  /\ mmapTop \in MmapBase .. MmapBase + ArenaPages
  /\ brkCur \in 0 .. 2 * BrkPages
  /\ eng \in [Pages -> PageState \cup {Absent}]
  /\ snap # NoSnap => /\ DOMAIN snap = {"ranges", "writable", "layout", "mmapTop", "brk", "image"}
                      /\ snap.mmapTop \in MmapBase .. MmapBase + ArenaPages
                      /\ snap.brk \in 0 .. 2 * BrkPages
                      /\ snap.image \in [Pages -> PageState \cup {Absent}]
  /\ calls \in 0 .. Guests[habits].calls

(* For a guest without those habits, the table and the engine agree about the *)
(* arena: a page is mapped exactly when one region has it, with the           *)
(* protection that region records or with the read access mmap adds to it.    *)
(* Every call that ignores an engine error relies on it.                      *)
TableInSync == habits = {} =>
  /\ Disjoint(regions)
  /\ \A p \in Arena : eng[p] # Absent <=> p \in Covered(regions)
  /\ \A r \in regions : \A p \in Span(r) :
       eng[p] # Absent /\ eng[p].prot \in {r.prot, r.prot \cup {"R"}}

(* Likewise, the mapped brk pages are those below the break, so that growing  *)
(* it, which maps the pages in between, cannot meet a mapped one.             *)
BrkInSync == habits = {} => \A p \in BrkArea : eng[p] # Absent <=> p < BrkTop(brkCur)

(* "the next free MMAP_BASE-relative address", "a fresh read/write guest      *)
(* region": what the cursor of such a guest passes over was mapped by nobody, *)
(* also after Restore has moved it back.                                      *)
AllocFresh ==
  [][habits = {} /\ mmapTop' > mmapTop => Free(eng, mmapTop .. mmapTop' - 1)]_vars

(* Likewise, a Restore that succeeds rewinds the address space to the         *)
(* snapshot: the same pages of the heap and the arena mapped, every range     *)
(* mapped whole with the protection it was recorded with, and the same bytes  *)
(* wherever the guest could write them then.                                  *)
Rewound ==
  /\ regions = snap.layout /\ mmapTop = snap.mmapTop /\ brkCur = snap.brk
  /\ \A p \in BrkArea \cup Arena : eng[p] = Absent <=> snap.image[p] = Absent
  /\ \A r \in snap.ranges : \A p \in Span(r) : eng[p] # Absent /\ eng[p].prot = r.prot
  /\ \A r \in snap.writable : \A p \in Span(r) :
       eng[p] # Absent /\ eng[p].val = snap.image[p].val
RestoreExact == [][habits = {} /\ Restore => Rewound']_vars

(* Whatever the guest did, after a Restore that reports success every byte the *)
(* snapshot captured is back, and every range it recorded is mapped whole, with *)
(* the protection recorded for it.  Only a range that was not captured may be   *)
(* left torn, and only beside a page of it that was mapped when Restore began:  *)
(* one that is gone altogether always comes back.                               *)
Intact(r) == \A p \in Span(r) : eng'[p] # Absent /\ eng'[p].prot = r.prot
Torn(r) == \E p, q \in Span(r) : eng[p] # Absent /\ eng'[p] # Absent /\ eng'[q] = Absent
RestoreWhole ==
  [][Restore =>
       /\ \A r \in snap.ranges : Intact(r) \/ (r \notin snap.writable /\ Torn(r))
       /\ \A r \in snap.writable : \A p \in Span(r) : eng'[p].val = snap.image[p].val]_vars

(* "Release brk pages grown since the snapshot so a later brk() can re-map    *)
(* them cleanly".                                                             *)
RestoreReleasesBrk ==
  [][Restore => \A p \in BrkArea : p >= BrkTop(brkCur') => eng'[p] = Absent]_vars
=============================================================================
