-------------------------- MODULE PageCacheProofs ----------------------------
(***************************************************************************)
(* Proofs that the caches of PageCache are coherent for every number of     *)
(* pages, cache slots, page structs, values, protections and hooks.         *)
(*                                                                         *)
(* Coherence is not inductive by itself.  A store changes a page struct: it *)
(* leaves other pages alone because no two page numbers share one           *)
(* (Unshared).  An access that was interrupted goes on with the pages it    *)
(* has still to resolve (FlightShape).                                      *)
(***************************************************************************)
EXTENDS PageCache, SequenceTheorems, TLAPS

(* No two page numbers share a page struct.                                   *)
Unshared == \A v, w \in Pages : table[v] # NoPage /\ table[v] = table[w] => v = w

(* An access inside one page that is interrupted has that page to resolve.    *)
WellShaped(f) ==
  /\ f \in Flight
  /\ ~f.access.cross => f.todo = <<f.access.page>>
  /\ f.appealed => f.todo # <<>>
FlightShape == flight # Nothing => WellShaped(flight)

ReadCoherent ==
  \A s \in Slots : rtlb[s].vpn # NoVPN =>
    LET v == rtlb[s].vpn
    IN Slot(v) = s /\ Allows("R", v) /\ rtlb[s].data = pageData(v)
       /\ ~hooksCoverPage("R", v)
WriteCoherent ==
  \A s \in Slots : wtlb[s].vpn # NoVPN =>
    LET v == wtlb[s].vpn
    IN Slot(v) = s /\ Allows("W", v) /\ heap[table[v]].written
       /\ wtlb[s].data = table[v] /\ ~hooksCoverPage("W", v)

(* What execution finds, and what the decoded pages hold.                     *)
Finds(e) == e.vpn # NoVPN => Allows("X", e.vpn) /\ heap[table[e.vpn]].code = e.code
CodeFound == Finds(fetch) /\ \A s \in CSlots : Finds(ctlb[s])
CodeTrue ==
  \A v \in Pages : HasCode(v) =>
    /\ decoded[heap[table[v]].code].pg = table[v]
    /\ decoded[heap[table[v]].code].inst \in {NotDecoded, heap[table[v]].val}

Caches == ReadCoherent /\ WriteCoherent /\ DecodedNotWritable /\ CodeFound
IInv == TypeOK /\ Unshared /\ FlightShape /\ Caches /\ CodeTrue

LEMMA SlotRange == \A v \in Pages : Slot(v) \in Slots /\ CSlot(v) \in CSlots
BY SizesAssumption DEF Pages, Slot, CSlot, Slots, CSlots

LEMMA PageIsMapped ==
  \A v \in Pages : (Mapped(v) <=> table[v] # NoPage)
BY DEF Mapped, lookup

LEMMA CachesGive == Caches => TlbCoherent /\ DecodedNotWritable
BY DEF Caches, TlbCoherent, ReadCoherent, WriteCoherent

LEMMA CodeGives == CodeFound /\ CodeTrue => CodeCurrent
BY DEF CodeFound, CodeTrue, CodeCurrent, Finds

LEMMA InitIInv == Init => IInv
<1> SUFFICES ASSUME Init PROVE IInv
  OBVIOUS
<1>1. TypeOK
  BY SizesAssumption, DistinctAssumption
  DEF Init, TypeOK, Entry, CodeEntry, NoEntry, NoCodeEntry, Page, FreshPage, CodePage, Kinds
<1>2. \A v \in Pages : ~Mapped(v)
  BY PageIsMapped DEF Init
<1> QED
  BY <1>1, <1>2 DEF Init, IInv, Unshared, FlightShape, Caches, ReadCoherent, WriteCoherent,
     DecodedNotWritable, CodeFound, CodeTrue, Finds, HasCode, NoEntry, NoCodeEntry

(* Flushed caches are coherent, whatever else changes.                        *)
LEMMA Flushed == flushTLB => Caches'
BY DEF flushTLB, Caches, ReadCoherent, WriteCoherent, DecodedNotWritable, CodeFound, Finds,
   NoEntry, NoCodeEntry, Slots, CSlots

LEMMA FlushTyped ==
  flushTLB => /\ (rtlb \in [Slots -> Entry])' /\ (wtlb \in [Slots -> Entry])'
              /\ (ctlb \in [CSlots -> CodeEntry])' /\ (fetch \in CodeEntry)'
BY DEF flushTLB, Entry, CodeEntry

LEMMA EntryFacts ==
  ASSUME TypeOK
  PROVE  /\ \A s \in Slots : rtlb[s] \in Entry /\ wtlb[s] \in Entry
         /\ \A s \in Slots : rtlb[s].vpn # NoVPN => rtlb[s].vpn \in Pages
         /\ \A s \in Slots : wtlb[s].vpn # NoVPN => wtlb[s].vpn \in Pages
         /\ \A s \in CSlots : ctlb[s].vpn # NoVPN =>
              ctlb[s].vpn \in Pages /\ ctlb[s].code \in Codes
         /\ fetch.vpn # NoVPN => fetch.vpn \in Pages /\ fetch.code \in Codes
         /\ \A v \in Pages : v # NoVPN
BY SizesAssumption DEF TypeOK, Entry, CodeEntry, NoEntry, NoCodeEntry, Pages, NoVPN

LEMMA HeapFacts ==
  ASSUME TypeOK
  PROVE  /\ \A v \in Pages : Mapped(v) => table[v] \in Objs
         /\ \A v \in Pages : Mapped(v) <=> table[v] # NoPage
         /\ \A v : Mapped(v) => v \in Pages
         /\ \A k, v : Allows(k, v) => Mapped(v)
         /\ \A o \in Objs : heap[o] \in Page
BY DEF TypeOK, Mapped, lookup, Allows

(***************************************************************************)
(* Host operations.                                                         *)
(***************************************************************************)
LEMMA MapKeeps == IInv /\ Map => IInv'
<1> SUFFICES ASSUME IInv, Map PROVE IInv'
  OBVIOUS
<1> USE DEF IInv
<1>1. PICK lo \in Pages, hi \in Pages, p \in Prots :
        /\ \A v \in lo .. hi : ~Mapped(v)
        /\ \E f \in [lo .. hi -> Objs \ InUse] :
            /\ \A v, w \in lo .. hi : v # w => f[v] # f[w]
            /\ table' = [v \in Pages |-> IF v \in lo .. hi THEN f[v] ELSE table[v]]
            /\ heap' = [o \in Objs |-> IF o \in {f[v] : v \in lo .. hi} THEN FreshPage(p)
                                                                     ELSE heap[o]]
  BY DEF Map
<1>2. PICK f \in [lo .. hi -> Objs \ InUse] :
            /\ \A v, w \in lo .. hi : v # w => f[v] # f[w]
            /\ table' = [v \in Pages |-> IF v \in lo .. hi THEN f[v] ELSE table[v]]
            /\ heap' = [o \in Objs |-> IF o \in {f[v] : v \in lo .. hi} THEN FreshPage(p)
                                                                     ELSE heap[o]]
  BY <1>1
<1>3. UNCHANGED <<decoded, rtlb, wtlb, ctlb, fetch, hooks, flight>>
  BY DEF Map, caches
<1>4. FreshPage(p) \in Page /\ FreshPage(p).code = NoCode
  BY DistinctAssumption DEF FreshPage, Page
<1>5. TypeOK'
  BY <1>2, <1>3, <1>4 DEF TypeOK
<1>6. \A v \in Pages : v \in lo .. hi => table'[v] \in Objs \ InUse /\ heap'[table'[v]].code = NoCode
  BY <1>2, <1>4
<1>7. \A v \in Pages : Mapped(v) => /\ v \notin lo .. hi /\ table'[v] = table[v]
                                    /\ table[v] \in InUse /\ heap'[table[v]] = heap[table[v]]
  <2> SUFFICES ASSUME NEW v \in Pages, Mapped(v)
               PROVE /\ v \notin lo .. hi /\ table'[v] = table[v]
                     /\ table[v] \in InUse /\ heap'[table[v]] = heap[table[v]]
    OBVIOUS
  <2>1. v \notin lo .. hi /\ table[v] # NoPage /\ table[v] \in Objs
    BY <1>1, HeapFacts
  <2>2. table[v] \in InUse
    BY <2>1 DEF InUse
  <2> QED
    BY <1>2, <2>1, <2>2
<1>8. \A v \in Pages : ~Mapped(v) /\ v \notin lo .. hi => table'[v] = NoPage
  BY <1>2, HeapFacts
<1>9. Unshared'
  <2> SUFFICES ASSUME NEW v \in Pages, NEW w \in Pages, table'[v] # NoPage, table'[v] = table'[w]
               PROVE v = w
    BY DEF Unshared
  <2>1. CASE v \in lo .. hi /\ w \in lo .. hi
    BY <1>2, <2>1
  <2>2. CASE v \notin lo .. hi /\ w \notin lo .. hi
    BY <1>2, <2>2 DEF Unshared
  <2>3. CASE (v \in lo .. hi) # (w \in lo .. hi)
    BY <1>6, <1>7, <1>8, <2>3
  <2> QED
    BY <2>1, <2>2, <2>3
<1>10. \A k, v : Allows(k, v) => Allows(k, v)' /\ (pageData(v))' = pageData(v) /\ (HasCode(v))' = HasCode(v)
         /\ table'[v] = table[v] /\ heap'[table'[v]] = heap[table[v]]
  BY <1>7, <1>5, HeapFacts, DistinctAssumption DEF Allows, Mapped, lookup, pageData, HasCode, TypeOK
<1>11. Caches'
  BY <1>3, <1>10 DEF Caches, ReadCoherent, WriteCoherent, DecodedNotWritable, CodeFound, Finds, hooksCoverPage
<1>12. CodeTrue'
  BY <1>3, <1>6, <1>7, <1>8, HeapFacts DEF CodeTrue, HasCode, Mapped, lookup
<1>13. FlightShape'
  BY <1>3 DEF FlightShape, WellShaped
<1> QED
  BY <1>5, <1>9, <1>11, <1>12, <1>13

LEMMA UnmapKeeps == IInv /\ Unmap => IInv'
<1> SUFFICES ASSUME IInv, Unmap PROVE IInv'
  OBVIOUS
<1> USE DEF IInv
<1>1. PICK lo \in Pages, hi \in Pages :
        table' = [v \in Pages |-> IF v \in lo .. hi THEN NoPage ELSE table[v]]
  BY DEF Unmap
<1>2. flushTLB /\ UNCHANGED <<heap, decoded, hooks, flight>>
  BY DEF Unmap
<1>3. TypeOK'
  BY <1>1, <1>2, FlushTyped DEF TypeOK
<1>4. Unshared' /\ CodeTrue'
  BY <1>1, <1>2 DEF Unshared, CodeTrue, HasCode, Mapped, lookup
<1> QED
  BY <1>2, <1>3, <1>4, Flushed DEF FlightShape, WellShaped

LEMMA ProtectKeeps == IInv /\ Protect => IInv'
<1> SUFFICES ASSUME IInv, Protect PROVE IInv'
  OBVIOUS
<1> USE DEF IInv
<1>1. PICK lo \in Pages, hi \in Pages, p \in Prots :
        heap' = [o \in Objs |-> IF o \in {table[v] : v \in lo .. hi}
                                THEN [heap[o] EXCEPT !.prot = p] ELSE heap[o]]
  BY DEF Protect
<1>2. flushTLB /\ UNCHANGED <<table, decoded, hooks, flight>>
  BY DEF Protect
<1>3. \A o \in Objs : /\ heap'[o] \in Page
                      /\ heap'[o].code = heap[o].code /\ heap'[o].val = heap[o].val
  BY <1>1, DistinctAssumption, HeapFacts DEF Page
<1>4. TypeOK'
  BY <1>1, <1>2, <1>3, FlushTyped DEF TypeOK
<1>5. Unshared' /\ CodeTrue'
  BY <1>2, <1>3, HeapFacts DEF Unshared, CodeTrue, HasCode, Mapped, lookup
<1> QED
  BY <1>2, <1>4, <1>5, Flushed DEF FlightShape, WellShaped

LEMMA ReleaseKeeps == IInv /\ Release => IInv'
<1> SUFFICES ASSUME IInv, Release PROVE IInv'
  OBVIOUS
<1> USE DEF IInv
<1>1. /\ table' = [v \in Pages |-> NoPage] /\ hooks' = [k \in Kinds |-> {}]
      /\ flushTLB /\ UNCHANGED <<heap, decoded, flight>>
  BY DEF Release
<1>2. TypeOK'
  BY <1>1, FlushTyped DEF TypeOK
<1>3. Unshared' /\ CodeTrue'
  BY <1>1 DEF Unshared, CodeTrue, HasCode, Mapped, lookup
<1> QED
  BY <1>1, <1>2, <1>3, Flushed DEF FlightShape, WellShaped

LEMMA DropCodeKeeps == IInv /\ DropCode => IInv'
<1> SUFFICES ASSUME IInv, DropCode PROVE IInv'
  OBVIOUS
<1> USE DEF IInv
<1>1. /\ heap' = [o \in Objs |-> [heap[o] EXCEPT !.code = NoCode]]
      /\ ctlb' = [s \in CSlots |-> NoCodeEntry] /\ fetch' = NoCodeEntry
      /\ UNCHANGED <<table, decoded, rtlb, wtlb, hooks, flight>>
  BY DEF DropCode
<1>2. \A o \in Objs : /\ heap'[o] \in Page /\ heap'[o].code = NoCode
                      /\ heap'[o].prot = heap[o].prot /\ heap'[o].written = heap[o].written
  BY <1>1, HeapFacts DEF Page
<1>3. TypeOK'
  BY <1>1, <1>2 DEF TypeOK, CodeEntry
<1>4. \A v \in Pages : ~(HasCode(v))'
  BY <1>1, <1>2, HeapFacts DEF HasCode, Mapped, lookup
<1>5. \A k, v : Allows(k, v) => (Allows(k, v))' /\ (pageData(v))' = pageData(v)
                                /\ heap'[table'[v]].written = heap[table[v]].written
  BY <1>1, <1>2, HeapFacts DEF Allows, Mapped, lookup, pageData
<1>6. ReadCoherent' /\ WriteCoherent'
  BY <1>1, <1>5 DEF Caches, ReadCoherent, WriteCoherent, hooksCoverPage
<1>7. DecodedNotWritable' /\ CodeFound' /\ CodeTrue'
  BY <1>1, <1>4, <1>3, EntryFacts DEF Caches, DecodedNotWritable, CodeFound, Finds, CodeTrue, NoCodeEntry, HasCode
<1> QED
  BY <1>1, <1>3, <1>6, <1>7 DEF Caches, Unshared, FlightShape, WellShaped

(* Hooks that go, or come on another kind of access, leave the caches good.   *)
LEMMA FewerHooks ==
  ASSUME IInv, UNCHANGED <<table, heap, decoded, caches, flight>>,
         hooks' \in [Kinds -> SUBSET HookRanges],
         hooks'["R"] \subseteq hooks["R"], hooks'["W"] \subseteq hooks["W"]
  PROVE  IInv'
<1> USE DEF IInv, caches
<1>1. TypeOK' /\ Unshared' /\ FlightShape' /\ CodeTrue'
  BY DEF TypeOK, Unshared, FlightShape, WellShaped, CodeTrue, HasCode, Mapped, lookup
<1>2. \A v : hooksCoverPage("R", v)' => hooksCoverPage("R", v)
  BY DEF hooksCoverPage
<1>3. \A v : hooksCoverPage("W", v)' => hooksCoverPage("W", v)
  BY DEF hooksCoverPage
<1>4. ReadCoherent' /\ WriteCoherent'
  BY <1>2, <1>3 DEF Caches, ReadCoherent, WriteCoherent, Allows, Mapped, lookup, pageData
<1>5. DecodedNotWritable' /\ CodeFound'
  BY DEF Caches, DecodedNotWritable, CodeFound, Finds, HasCode, Allows, Mapped, lookup
<1> QED
  BY <1>1, <1>4, <1>5 DEF Caches

LEMMA AddHookKeeps == IInv /\ AddHook => IInv'
<1> SUFFICES ASSUME IInv, AddHook PROVE IInv'
  OBVIOUS
<1>1. PICK k \in Kinds, h \in HookRanges :
        /\ hooks' = [hooks EXCEPT ![k] = @ \cup {h}]
        /\ IF k = "X" THEN UNCHANGED caches ELSE flushTLB
  BY DEF AddHook
<1>2. UNCHANGED <<table, heap, decoded, flight>>
  BY DEF AddHook
<1>3. hooks' \in [Kinds -> SUBSET HookRanges]
  BY <1>1 DEF IInv, TypeOK
<1>4. CASE k = "X"
  BY <1>1, <1>2, <1>3, <1>4, FewerHooks DEF IInv, TypeOK, Kinds
<1>5. CASE k # "X"
  <2>1. flushTLB
    BY <1>1, <1>5
  <2>2. TypeOK'
    BY <1>2, <1>3, <2>1, FlushTyped DEF IInv, TypeOK
  <2> QED
    BY <1>2, <2>1, <2>2, Flushed
    DEF IInv, Unshared, FlightShape, WellShaped, CodeTrue, HasCode, Mapped, lookup
<1> QED
  BY <1>4, <1>5

LEMMA RemoveHookKeeps == IInv /\ RemoveHook => IInv'
<1> SUFFICES ASSUME IInv, RemoveHook PROVE IInv'
  OBVIOUS
<1>1. PICK k \in Kinds : \E h \in hooks[k] : hooks' = [hooks EXCEPT ![k] = @ \ {h}]
  BY DEF RemoveHook
<1>2. hooks' \in [Kinds -> SUBSET HookRanges]
      /\ hooks'["R"] \subseteq hooks["R"] /\ hooks'["W"] \subseteq hooks["W"]
  BY <1>1 DEF IInv, TypeOK, Kinds
<1> QED
  BY <1>2, FewerHooks DEF RemoveHook

(***************************************************************************)
(* Stores.  The pages of vs get a value and lose their code; because no two *)
(* pages share a page struct, every other page is what it was.              *)
(***************************************************************************)
LEMMA StoreFacts ==
  ASSUME IInv, NEW vs, NEW x \in Vals,
         heap' = Filled(vs, x), UNCHANGED <<table, hooks>>
  PROVE  /\ (heap \in [Objs -> Page])'
         /\ \A k, v : Allows(k, v) => (Allows(k, v))'
         /\ \A v \in Pages : Mapped(v) =>
              /\ heap'[table[v]].prot = heap[table[v]].prot
              /\ v \in vs => /\ heap'[table[v]].written /\ heap'[table[v]].val = x
                             /\ heap'[table[v]].code = NoCode
              /\ v \notin vs => heap'[table[v]] = heap[table[v]]
              /\ heap[table[v]].written => heap'[table[v]].written
         /\ \A v : (HasCode(v))' => HasCode(v) /\ v \notin vs
<1> USE DEF IInv
<1>1. \A o \in Objs : heap'[o] = IF o \in {table[v] : v \in Backed(vs)}
                                 THEN [heap[o] EXCEPT !.val = x, !.written = TRUE, !.code = NoCode]
                                 ELSE heap[o]
  BY DEF Filled
<1>2. \A o \in Objs : /\ heap'[o] \in Page /\ heap'[o].prot = heap[o].prot
                      /\ heap[o].written => heap'[o].written
                      /\ o \in {table[v] : v \in Backed(vs)} =>
                           heap'[o].written /\ heap'[o].val = x /\ heap'[o].code = NoCode
                      /\ o \notin {table[v] : v \in Backed(vs)} => heap'[o] = heap[o]
  BY <1>1, HeapFacts DEF Page
<1>3. \A v \in Pages : Mapped(v) => (v \in vs <=> table[v] \in {table[w] : w \in Backed(vs)})
  BY HeapFacts DEF Backed, Unshared
<1>4. (heap \in [Objs -> Page])'
  BY <1>2 DEF Filled
<1>5. \A k, v : Allows(k, v) => (Allows(k, v))'
  BY <1>2, HeapFacts DEF Allows, Mapped, lookup
<1>6. \A v \in Pages : Mapped(v) =>
              /\ heap'[table[v]].prot = heap[table[v]].prot
              /\ v \in vs => /\ heap'[table[v]].written /\ heap'[table[v]].val = x
                             /\ heap'[table[v]].code = NoCode
              /\ v \notin vs => heap'[table[v]] = heap[table[v]]
              /\ heap[table[v]].written => heap'[table[v]].written
  BY <1>2, <1>3, HeapFacts
<1>7. \A v : (HasCode(v))' => HasCode(v) /\ v \notin vs
  BY <1>6, HeapFacts DEF HasCode, Mapped, lookup
<1> QED
  BY <1>4, <1>5, <1>6, <1>7

LEMMA StoreKeeps ==
  ASSUME IInv, NEW vs, NEW x \in Vals,
         heap' = Filled(vs, x), rtlb' = DropRead(vs), dropCode(vs),
         UNCHANGED <<table, hooks, decoded>>
  PROVE  /\ (rtlb \in [Slots -> Entry])' /\ (ctlb \in [CSlots -> CodeEntry])'
         /\ (fetch \in CodeEntry)'
         /\ Unshared' /\ ReadCoherent' /\ CodeFound' /\ CodeTrue'
<1> USE DEF IInv
<1>1. /\ (rtlb \in [Slots -> Entry])' /\ (ctlb \in [CSlots -> CodeEntry])'
      /\ (fetch \in CodeEntry)'
  BY DEF DropRead, dropCode, TypeOK, Entry, CodeEntry
<1>2. Unshared'
  BY DEF Unshared
<1>3. ReadCoherent'
  <2> SUFFICES ASSUME NEW s \in Slots, rtlb'[s].vpn # NoVPN
               PROVE  /\ Slot(rtlb'[s].vpn) = s /\ (Allows("R", rtlb[s].vpn))'
                      /\ rtlb'[s].data = (pageData(rtlb[s].vpn))'
                      /\ ~hooksCoverPage("R", rtlb[s].vpn)'
    BY DEF ReadCoherent
  <2> DEFINE v == rtlb[s].vpn
  <2>1. rtlb'[s] = rtlb[s] /\ ~(v \in vs /\ NewData(v))
    BY DEF DropRead, NoEntry
  <2>2. /\ Slot(v) = s /\ Allows("R", v) /\ rtlb[s].data = pageData(v) /\ ~hooksCoverPage("R", v)
    BY <2>1 DEF Caches, ReadCoherent
  <2>3. v \in Pages /\ Mapped(v)
    BY <2>2, HeapFacts
  <2>4. heap'[table[v]].written = heap[table[v]].written
    BY <2>1, <2>3, StoreFacts, HeapFacts DEF NewData, Page
  <2> QED
    BY <2>1, <2>2, <2>3, <2>4, StoreFacts DEF pageData, hooksCoverPage
<1>4. ASSUME NEW e, e.vpn # NoVPN, e.vpn \notin vs, Allows("X", e.vpn) /\ heap[table[e.vpn]].code = e.code
      PROVE  (Allows("X", e.vpn))' /\ heap'[table[e.vpn]].code = e.code
  BY <1>4, StoreFacts, HeapFacts
<1>5. ASSUME NEW e, e.vpn # NoVPN, Allows("X", e.vpn), heap[table[e.vpn]].code = e.code, e.code \in Codes
      PROVE  HasCode(e.vpn)
  BY <1>5, HeapFacts, DistinctAssumption DEF HasCode
<1>6. CodeFound'
  <2>1. ASSUME NEW s \in CSlots, ctlb'[s].vpn # NoVPN
        PROVE  (Allows("X", ctlb[s].vpn))' /\ heap'[table[ctlb[s].vpn]].code = ctlb[s].code
               /\ ctlb'[s] = ctlb[s]
    <3>1. ctlb'[s] = ctlb[s] /\ ~(ctlb[s].vpn \in vs /\ HasCode(ctlb[s].vpn))
      BY <2>1 DEF dropCode, NoCodeEntry
    <3>2. Allows("X", ctlb[s].vpn) /\ heap[table[ctlb[s].vpn]].code = ctlb[s].code
          /\ ctlb[s].code \in Codes
      BY <2>1, <3>1, EntryFacts DEF Caches, CodeFound, Finds
    <3> QED
      BY <2>1, <3>1, <3>2, <1>4, <1>5
  <2>2. ASSUME fetch'.vpn # NoVPN
        PROVE  (Allows("X", fetch.vpn))' /\ heap'[table[fetch.vpn]].code = fetch.code
               /\ fetch' = fetch
    <3>1. fetch' = fetch /\ ~(fetch.vpn \in vs /\ HasCode(fetch.vpn))
      BY <2>2 DEF dropCode, NoCodeEntry
    <3>2. Allows("X", fetch.vpn) /\ heap[table[fetch.vpn]].code = fetch.code /\ fetch.code \in Codes
      BY <2>2, <3>1, EntryFacts DEF Caches, CodeFound, Finds
    <3> QED
      BY <2>2, <3>1, <3>2, <1>4, <1>5
  <2> QED
    BY <2>1, <2>2 DEF CodeFound, Finds
<1>7. CodeTrue'
  BY StoreFacts, HeapFacts DEF CodeTrue, HasCode
<1> QED
  BY <1>1, <1>2, <1>3, <1>6, <1>7

LEMMA StoreKeepsWritable ==
  ASSUME IInv, NEW vs, NEW x \in Vals,
         heap' = Filled(vs, x), UNCHANGED <<table, hooks>>,
         NEW v, Allows("W", v), heap[table[v]].written, ~hooksCoverPage("W", v), ~HasCode(v)
  PROVE  (Allows("W", v) /\ heap[table[v]].written /\ ~hooksCoverPage("W", v) /\ ~HasCode(v))'
<1>1. v \in Pages /\ Mapped(v)
  BY HeapFacts DEF IInv
<1>2. (Allows("W", v))' /\ heap'[table[v]].written /\ ~(HasCode(v))'
  BY <1>1, StoreFacts
<1> QED
  BY <1>2 DEF hooksCoverPage

LEMMA HostWriteKeeps == IInv /\ HostWrite => IInv'
<1> SUFFICES ASSUME IInv, HostWrite PROVE IInv'
  OBVIOUS
<1>1. PICK lo \in Pages, hi \in Pages, x \in Vals :
        heap' = Filled(lo .. hi, x) /\ rtlb' = DropRead(lo .. hi) /\ dropCode(lo .. hi)
  BY DEF HostWrite
<1>2. UNCHANGED <<table, decoded, wtlb, hooks, flight>>
  BY DEF HostWrite
<1>3. (heap \in [Objs -> Page])'
  BY <1>1, <1>2, StoreFacts
<1>4. /\ (rtlb \in [Slots -> Entry])' /\ (ctlb \in [CSlots -> CodeEntry])'
      /\ (fetch \in CodeEntry)'
      /\ Unshared' /\ ReadCoherent' /\ CodeFound' /\ CodeTrue'
  BY <1>1, <1>2, StoreKeeps
<1>5. TypeOK'
  BY <1>2, <1>3, <1>4 DEF IInv, TypeOK
<1>6. WriteCoherent' /\ DecodedNotWritable'
  BY <1>1, <1>2, StoreKeepsWritable DEF IInv, Caches, WriteCoherent, DecodedNotWritable
<1> QED
  BY <1>2, <1>4, <1>5, <1>6 DEF IInv, Caches, FlightShape, WellShaped

(***************************************************************************)
(* Guest accesses.                                                          *)
(***************************************************************************)
(* What guestPage may be called with: inside one page, that page is still to  *)
(* be resolved or is resolved now.                                            *)
Ready(f) ==
  /\ f \in Flight
  /\ ~f.access.cross => \/ f.todo = <<f.access.page>>
                        \/ f.todo = <<>> /\ Allows(f.access.kind, f.access.page)

LEMMA AccessFacts ==
  \A a \in Accesses : /\ a \in Access /\ a.page \in Pages /\ a.page \in Nat
                      /\ a.kind \in Kinds /\ a.cross \in BOOLEAN /\ a.val \in Vals
                      /\ a.kind = "X" => ~a.cross
BY SizesAssumption DEF Accesses, Access, Pages

(* Steps that complete or interrupt an access and change no memory.           *)
LEMMA OnlyForgets ==
  ASSUME IInv, UNCHANGED <<table, heap, decoded, rtlb, wtlb, ctlb, hooks>>,
         fetch' = fetch \/ fetch' = NoCodeEntry,
         (flight = Nothing \/ WellShaped(flight))'
  PROVE  IInv'
<1>1. fetch' \in CodeEntry /\ (flight' = Nothing \/ flight' \in Flight)
  BY DEF IInv, TypeOK, CodeEntry, WellShaped
<1>2. TypeOK' /\ Unshared' /\ FlightShape' /\ CodeTrue'
  BY <1>1 DEF IInv, TypeOK, Unshared, FlightShape, CodeTrue, HasCode, Mapped, lookup
<1>3. ReadCoherent' /\ WriteCoherent' /\ DecodedNotWritable'
  BY DEF IInv, Caches, ReadCoherent, WriteCoherent, DecodedNotWritable, Allows, HasCode, Mapped, lookup,
         pageData, hooksCoverPage
<1>4. CodeFound'
  BY DEF IInv, Caches, CodeFound, Finds, NoCodeEntry, Allows, Mapped, lookup
<1> QED
  BY <1>2, <1>3, <1>4 DEF IInv, Caches

LEMMA UnblockedAllows ==
  ASSUME IInv, NEW f, Ready(f), Blocked(f) = {}, ~f.access.cross
  PROVE  Allows(f.access.kind, f.access.page)
<1>1. CASE f.todo = <<>>
  BY <1>1 DEF Ready
<1>2. CASE f.todo = <<f.access.page>>
  <2>1. Resolved(f, 1) /\ f.todo[1] = f.access.page
    BY <1>2 DEF Blocked
  <2>2. f.access.page \in Pages /\ f.access.page # NoVPN
    BY AccessFacts, EntryFacts DEF Ready, Flight, IInv
  <2>3. CSlot(f.access.page) \in CSlots
    BY <2>2, SlotRange
  <2>4. fetch.vpn = f.access.page \/ CacheHit(f.access.page) => Allows("X", f.access.page)
    BY <2>2, <2>3 DEF CacheHit, IInv, Caches, CodeFound, Finds
  <2> QED
    BY <2>1, <2>4 DEF Resolved, OnPage
<1> QED
  BY <1>1, <1>2 DEF Ready

LEMMA AppealKeeps ==
  ASSUME IInv, NEW f, Ready(f), Appeal(f)
  PROVE  IInv'
<1>1. PICK i \in Blocked(f) :
        flight' = [f EXCEPT !.appealed = TRUE, !.todo = SubSeq(f.todo, i, Len(f.todo))]
  BY DEF Appeal
<1>2. f.todo \in Seq(Nat) /\ i \in 1 .. Len(f.todo) /\ Len(f.todo) \in Nat
  BY DEF Blocked, Ready, Flight
<1>3. SubSeq(f.todo, i, Len(f.todo)) \in Seq(Nat) /\ SubSeq(f.todo, i, Len(f.todo)) # <<>>
  <2>1. i \in Int /\ Len(f.todo) \in Int /\ \A j \in i .. Len(f.todo) : f.todo[j] \in Nat
    BY <1>2, ElementOfSeq
  <2>2. /\ SubSeq(f.todo, i, Len(f.todo)) \in Seq(Nat)
        /\ Len(SubSeq(f.todo, i, Len(f.todo))) = Len(f.todo) - i + 1
    BY <1>2, <2>1, SubSeqProperties
  <2>3. Len(SubSeq(f.todo, i, Len(f.todo))) # 0
    BY <1>2, <2>2
  <2>4. SubSeq(f.todo, i, Len(f.todo)) # <<>>
    BY <2>3, EmptySeq
  <2> QED
    BY <2>2, <2>4
<1>4. ASSUME ~f.access.cross PROVE SubSeq(f.todo, i, Len(f.todo)) = <<f.access.page>>
  <2>1. f.todo # <<>> /\ f.access.page \in Nat
    BY <1>2, AccessFacts DEF Ready, Flight
  <2>2. f.todo = <<f.access.page>>
    BY <1>4, <2>1 DEF Ready
  <2>3. Len(f.todo) = 1 /\ f.todo[1] = f.access.page
    BY <2>2
  <2>4. i = 1
    BY <1>2, <2>3
  <2>5. SubSeq(f.todo, 1, Len(f.todo)) = f.todo
    BY <1>2, SubSeqFull
  <2> QED
    BY <2>2, <2>4, <2>5
<1>5. /\ flight' \in Flight /\ flight'.access = f.access
      /\ flight'.todo = SubSeq(f.todo, i, Len(f.todo))
  BY <1>1, <1>3 DEF Ready, Flight
<1>6. WellShaped(flight)'
  BY <1>3, <1>4, <1>5 DEF WellShaped
<1> QED
  BY <1>6, OnlyForgets DEF Appeal, StillOn

LEMMA FaultKeeps ==
  ASSUME IInv, NEW f, Fault(f)
  PROVE  IInv'
BY OnlyForgets DEF Fault, Observe, StillOn

LEMMA ReadSlowKeeps ==
  ASSUME IInv, NEW a \in Accesses, NEW d \in BOOLEAN, readSlow(a, d),
         ~a.cross => Allows(a.kind, a.page)
  PROVE  IInv'
<1> DEFINE e == [vpn |-> a.page, data |-> pageData(a.page)]
<1>1. /\ a.kind = "R" /\ flight' = Nothing
      /\ UNCHANGED <<table, heap, decoded, wtlb, ctlb, fetch, hooks>>
  BY DEF readSlow, Observe
<1>2. CASE ~Cacheable(a, d)
  BY <1>1, <1>2, OnlyForgets DEF readSlow
<1>3. CASE Cacheable(a, d)
  <2>1. a.page \in Pages /\ Allows("R", a.page) /\ ~hooksCoverPage("R", a.page)
    BY <1>1, <1>3, AccessFacts DEF Cacheable
  <2>2. Slot(a.page) \in Slots /\ rtlb' = [rtlb EXCEPT ![Slot(a.page)] = e]
    BY <1>3, <2>1, SlotRange DEF readSlow
  <2>3. e \in Entry
    BY <2>1, HeapFacts DEF IInv, pageData, Entry
  <2>4. rtlb' \in [Slots -> Entry]
        /\ \A s \in Slots : rtlb'[s] = IF s = Slot(a.page) THEN e ELSE rtlb[s]
    BY <2>2, <2>3 DEF IInv, TypeOK
  <2>5. TypeOK' /\ Unshared' /\ FlightShape' /\ CodeTrue'
    BY <1>1, <2>4 DEF IInv, TypeOK, Unshared, FlightShape, CodeTrue, HasCode, Mapped, lookup
  <2>6. \A v : /\ Allows("R", v) => (Allows("R", v))'
               /\ (pageData(v))' = pageData(v)
               /\ hooksCoverPage("R", v)' = hooksCoverPage("R", v)
    BY <1>1 DEF Allows, Mapped, lookup, pageData, hooksCoverPage
  <2>7. ReadCoherent'
    BY <2>1, <2>4, <2>6 DEF IInv, Caches, ReadCoherent
  <2>8. WriteCoherent' /\ DecodedNotWritable' /\ CodeFound'
    BY <1>1 DEF IInv, Caches, WriteCoherent, DecodedNotWritable, CodeFound, Finds, Allows, HasCode, Mapped, lookup,
           hooksCoverPage
  <2> QED
    BY <2>5, <2>7, <2>8 DEF IInv, Caches
<1> QED
  BY <1>2, <1>3

LEMMA WriteSlowKeeps ==
  ASSUME IInv, NEW a \in Accesses, NEW d \in BOOLEAN, writeSlow(a, d),
         ~a.cross => Allows(a.kind, a.page)
  PROVE  IInv'
<1> DEFINE vs == {PagesOf(a)[i] : i \in DOMAIN PagesOf(a)}
           e == [vpn |-> a.page, data |-> table[a.page]]
<1>1. /\ a.kind = "W" /\ flight' = Nothing /\ a.val \in Vals
      /\ heap' = Filled(vs, a.val) /\ rtlb' = DropRead(vs) /\ dropCode(vs)
      /\ UNCHANGED <<table, decoded, hooks>>
  BY AccessFacts DEF writeSlow, Observe
<1>2. a.page \in Pages /\ a.page \in vs
  BY AccessFacts DEF PagesOf
<1>3. wtlb' = IF Cacheable(a, d) THEN [wtlb EXCEPT ![Slot(a.page)] = e] ELSE wtlb
  BY DEF writeSlow
<1> HIDE DEF vs
<1>4. (heap \in [Objs -> Page])'
  BY <1>1, StoreFacts
<1>5. /\ (rtlb \in [Slots -> Entry])' /\ (ctlb \in [CSlots -> CodeEntry])'
      /\ (fetch \in CodeEntry)'
      /\ Unshared' /\ ReadCoherent' /\ CodeFound' /\ CodeTrue'
  BY <1>1, StoreKeeps
<1>6. \A s \in Slots : wtlb[s].vpn # NoVPN =>
        /\ Slot(wtlb[s].vpn) = s /\ wtlb[s].data = table[wtlb[s].vpn]
        /\ Allows("W", wtlb[s].vpn) /\ heap[table[wtlb[s].vpn]].written
        /\ ~hooksCoverPage("W", wtlb[s].vpn) /\ ~HasCode(wtlb[s].vpn)
  BY DEF IInv, Caches, WriteCoherent, DecodedNotWritable
<1>7. \A v : Allows("W", v) /\ heap[table[v]].written /\ ~hooksCoverPage("W", v) /\ ~HasCode(v)
         => (Allows("W", v) /\ heap[table[v]].written /\ ~hooksCoverPage("W", v) /\ ~HasCode(v))'
  BY <1>1, StoreKeepsWritable
<1>8. CASE ~Cacheable(a, d)
  <2>1. wtlb' = wtlb
    BY <1>3, <1>8
  <2>2. TypeOK'
    BY <1>1, <1>4, <1>5, <2>1 DEF IInv, TypeOK
  <2>3. WriteCoherent' /\ DecodedNotWritable'
    BY <1>1, <1>6, <1>7, <2>1 DEF WriteCoherent, DecodedNotWritable
  <2> QED
    BY <1>1, <1>5, <2>2, <2>3 DEF IInv, Caches, FlightShape
<1>9. CASE Cacheable(a, d)
  <2>1. Allows("W", a.page) /\ ~hooksCoverPage("W", a.page) /\ Mapped(a.page)
    BY <1>1, <1>9, HeapFacts DEF Cacheable, IInv
  <2>2. (Allows("W", a.page))' /\ heap'[table[a.page]].written /\ ~(HasCode(a.page))'
        /\ ~hooksCoverPage("W", a.page)'
    BY <1>1, <1>2, <2>1, StoreFacts DEF hooksCoverPage
  <2>3. e \in Entry /\ Slot(a.page) \in Slots
    BY <1>2, <2>1, HeapFacts, SlotRange DEF IInv, Entry
  <2>4. wtlb' \in [Slots -> Entry]
        /\ \A s \in Slots : wtlb'[s] = IF s = Slot(a.page) THEN e ELSE wtlb[s]
    BY <1>3, <1>9, <2>3 DEF IInv, TypeOK
  <2>5. TypeOK'
    BY <1>1, <1>4, <1>5, <2>4 DEF IInv, TypeOK
  <2>6. WriteCoherent' /\ DecodedNotWritable'
    BY <1>1, <1>6, <1>7, <2>2, <2>4 DEF WriteCoherent, DecodedNotWritable
  <2> QED
    BY <1>1, <1>5, <2>5, <2>6 DEF IInv, Caches, FlightShape
<1> QED
  BY <1>8, <1>9

(***************************************************************************)
(* Fetches.  A new code page is one nothing refers to; an old one is that   *)
(* of the page, and decodes what the page holds.                            *)
(***************************************************************************)
LEMMA CodeForFacts ==
  ASSUME IInv, NEW v \in Pages, Allows("X", v), NEW d \in BOOLEAN, NEW c \in CodeFor(v, d)
  PROVE  /\ c \in Codes
         /\ ~NewCode(v, d) => heap[table[v]].code = c
         /\ NewCode(v, d) => heap[table[v]].code = NoCode /\ \A o \in Objs : heap[o].code # c
         /\ CodeRecord(v, d, c) \in CodePage
         /\ CodeRecord(v, d, c).pg = table[v]
         /\ CodeRecord(v, d, c).inst \in {NotDecoded, heap[table[v]].val}
<1> USE DEF IInv
<1>1. table[v] \in Objs /\ heap[table[v]] \in Page /\ Mapped(v) /\ v # NoVPN /\ CSlot(v) \in CSlots
  BY HeapFacts, EntryFacts, SlotRange
<1>2. ASSUME ~NewCode(v, d) PROVE heap[table[v]].code = c /\ c \in Codes
  <2>1. CASE OnPage(v, d)
    BY <1>1, <2>1, EntryFacts DEF OnPage, CodeFor, Caches, CodeFound, Finds
  <2>2. CASE ~OnPage(v, d) /\ CacheHit(v)
    BY <1>1, <2>2, EntryFacts DEF CacheHit, CodeFor, Caches, CodeFound, Finds
  <2>3. CASE ~OnPage(v, d) /\ ~CacheHit(v)
    BY <1>1, <1>2, <2>3 DEF NewCode, CodeFor, Page
  <2> QED
    BY <2>1, <2>2, <2>3
<1>3. ASSUME NewCode(v, d)
      PROVE  c \in Codes /\ heap[table[v]].code = NoCode /\ \A o \in Objs : heap[o].code # c
  <2>1. c \in FreshCodes /\ heap[table[v]].code = NoCode
    BY <1>3 DEF NewCode, CodeFor
  <2> QED
    BY <2>1 DEF FreshCodes
<1>4. CASE NewCode(v, d)
  BY <1>1, <1>3, <1>4 DEF CodeRecord, CodePage
<1>5. CASE ~NewCode(v, d)
  <2>1. CodeRecord(v, d, c) = decoded[c] /\ c \in Codes /\ heap[table[v]].code = c
    BY <1>2, <1>5 DEF CodeRecord
  <2>2. HasCode(v)
    BY <1>1, <2>1, DistinctAssumption DEF HasCode
  <2> QED
    BY <1>5, <2>1, <2>2 DEF CodeTrue, TypeOK
<1> QED
  BY <1>4, <1>5, <1>2, <1>3

LEMMA FetchKeeps ==
  ASSUME IInv, NEW v \in Pages, Allows("X", v), NEW d \in BOOLEAN, NEW c \in CodeFor(v, d),
         fetchPage(v, d, c),
         NEW r \in CodePage, r.pg = table[v], r.inst \in {NotDecoded, heap[table[v]].val},
         decoded' = [decoded EXCEPT ![c] = r],
         (flight = Nothing \/ WellShaped(flight))'
  PROVE  IInv'
<1> USE DEF IInv
<1>1. UNCHANGED <<table, rtlb, hooks>> /\ fetch' = [vpn |-> v, code |-> c]
  BY DEF fetchPage
<1>2. /\ c \in Codes
      /\ ~NewCode(v, d) => heap[table[v]].code = c
      /\ NewCode(v, d) => heap[table[v]].code = NoCode /\ \A o \in Objs : heap[o].code # c
  BY CodeForFacts
<1>3. /\ table[v] \in Objs /\ heap[table[v]] \in Page /\ Mapped(v) /\ v # NoVPN
      /\ CSlot(v) \in CSlots /\ Slot(v) \in Slots
  BY HeapFacts, EntryFacts, SlotRange
<1>4. \A o \in Objs : /\ heap'[o] \in Page /\ heap'[o].prot = heap[o].prot
                      /\ heap'[o].written = heap[o].written /\ heap'[o].val = heap[o].val
                      /\ heap'[o].code = IF o = table[v] THEN c ELSE heap[o].code
  <2>1. CASE NewCode(v, d)
    <3>1. heap' = [heap EXCEPT ![table[v]].code = c]
      BY <2>1 DEF fetchPage
    <3> QED
      BY <3>1, <1>2, <1>3, HeapFacts DEF Page, TypeOK
  <2>2. CASE ~NewCode(v, d)
    BY <1>2, <1>3, <2>2, HeapFacts DEF fetchPage
  <2> QED
    BY <2>1, <2>2
<1>5. heap' \in [Objs -> Page]
  BY <1>4 DEF fetchPage, TypeOK
<1>6. \A w \in Pages : Mapped(w) =>
        /\ table[w] \in Objs /\ (table[w] = table[v] => w = v)
        /\ (pageData(w))' = pageData(w)
        /\ w # v => heap'[table[w]].code = heap[table[w]].code
  BY <1>1, <1>3, <1>4, HeapFacts DEF Unshared, pageData
<1>7. \A k, w : Allows(k, w) => (Allows(k, w))'
  BY <1>1, <1>4, HeapFacts DEF Allows, Mapped, lookup
<1>8. fetch' \in CodeEntry /\ heap'[table[v]].code = c /\ (Allows("X", v))'
  BY <1>1, <1>2, <1>3, <1>4, <1>7 DEF CodeEntry
<1>9. ctlb' \in [CSlots -> CodeEntry] /\ \A s \in CSlots : ctlb'[s] \in {ctlb[s], fetch'}
  <2>1. [vpn |-> v, code |-> c] \in CodeEntry
    BY <1>1, <1>8
  <2> QED
    BY <2>1, <1>1, <1>3 DEF fetchPage, TypeOK
<1>10. /\ wtlb' \in [Slots -> Entry]
       /\ \A s \in Slots : wtlb'[s] = wtlb[s] \/ wtlb'[s] = NoEntry
       /\ \A s \in Slots : NewCode(v, d) /\ wtlb'[s].vpn # NoVPN => wtlb'[s].vpn # v
  <2>1. CASE ~NewCode(v, d)
    BY <2>1 DEF fetchPage, TypeOK
  <2>2. CASE NewCode(v, d)
    <3>1. wtlb' = [wtlb EXCEPT ![Slot(v)] = IF wtlb[Slot(v)].vpn = v THEN NoEntry ELSE wtlb[Slot(v)]]
      BY <2>2 DEF fetchPage, EvictWrite
    <3>2. \A s \in Slots : wtlb'[s] = IF s = Slot(v) /\ wtlb[s].vpn = v THEN NoEntry ELSE wtlb[s]
      BY <1>3, <3>1 DEF TypeOK
    <3>3. \A s \in Slots : wtlb[s].vpn = v => s = Slot(v)
      BY <1>3 DEF Caches, WriteCoherent
    <3>4. wtlb' \in [Slots -> Entry]
      BY <3>1, <1>3, EntryFacts DEF Entry, TypeOK
    <3> QED
      BY <3>2, <3>3, <3>4 DEF NoEntry
  <2> QED
    BY <2>1, <2>2
<1>11. decoded' \in [Codes -> CodePage] /\ decoded'[c] = r
       /\ \A x \in Codes : x # c => decoded'[x] = decoded[x]
  BY <1>2 DEF TypeOK
<1>12. TypeOK' /\ FlightShape' /\ Unshared'
  BY <1>1, <1>5, <1>8, <1>9, <1>10, <1>11
  DEF TypeOK, FlightShape, WellShaped, Unshared
<1>13. ReadCoherent'
  BY <1>1, <1>6, <1>7, HeapFacts DEF Caches, ReadCoherent, hooksCoverPage
<1>14. \A s \in Slots : wtlb'[s].vpn # NoVPN =>
         LET w == wtlb[s].vpn
         IN /\ wtlb'[s] = wtlb[s] /\ Slot(w) = s /\ Allows("W", w) /\ heap[table[w]].written
            /\ wtlb[s].data = table[w] /\ ~hooksCoverPage("W", w) /\ ~HasCode(w)
            /\ w \in Pages /\ table[w] \in Objs
  BY <1>10, HeapFacts DEF Caches, WriteCoherent, DecodedNotWritable, NoEntry
<1>15. WriteCoherent'
  BY <1>1, <1>4, <1>7, <1>14 DEF WriteCoherent, hooksCoverPage
<1>16. \A s \in Slots : wtlb'[s].vpn # NoVPN => wtlb'[s].vpn # v
  <2> SUFFICES ASSUME NEW s \in Slots, wtlb'[s].vpn # NoVPN, wtlb'[s].vpn = v PROVE FALSE
    OBVIOUS
  <2>1. ~HasCode(v) /\ ~NewCode(v, d)
    BY <1>10, <1>14
  <2> QED
    BY <1>2, <1>3, <2>1, DistinctAssumption DEF HasCode
<1>17. \A w \in Pages : w # v => (HasCode(w))' = HasCode(w)
  BY <1>1, <1>4, <1>6 DEF HasCode, Mapped, lookup
<1>18. DecodedNotWritable'
  BY <1>14, <1>16, <1>17 DEF DecodedNotWritable
<1>19. \A s \in CSlots : Finds(ctlb[s]) /\ (ctlb[s].vpn # NoVPN => ctlb[s].vpn \in Pages)
  BY EntryFacts DEF Caches, CodeFound
<1>20. CodeFound'
  <2>1. Finds(fetch)'
    BY <1>1, <1>8 DEF Finds
  <2>2. ASSUME NEW s \in CSlots, ctlb'[s].vpn # NoVPN
        PROVE  (Allows("X", ctlb[s].vpn) /\ heap[table[ctlb[s].vpn]].code = ctlb[s].code)'
    <3>1. CASE ctlb'[s] = fetch'
      BY <1>1, <1>8, <3>1
    <3>2. CASE ctlb'[s] = ctlb[s]
      <4>1. /\ Allows("X", ctlb[s].vpn) /\ heap[table[ctlb[s].vpn]].code = ctlb[s].code
            /\ ctlb[s].vpn \in Pages /\ ctlb[s].code \in Codes
        BY <1>19, <2>2, <3>2, EntryFacts DEF Finds
      <4>2. ctlb[s].vpn = v => ctlb[s].code = c
        BY <1>2, <4>1, DistinctAssumption
      <4> QED
        BY <1>1, <1>6, <1>7, <1>8, <3>2, <4>1, <4>2, HeapFacts
    <3> QED
      BY <1>9, <3>1, <3>2
  <2> QED
    BY <2>1, <2>2 DEF CodeFound, Finds
<1>21. CodeTrue'
  <2> SUFFICES ASSUME NEW w \in Pages, (HasCode(w))'
               PROVE  /\ decoded'[heap'[table[w]].code].pg = table[w]
                      /\ decoded'[heap'[table[w]].code].inst \in {NotDecoded, heap'[table[w]].val}
    BY <1>1 DEF CodeTrue
  <2>1. CASE w = v
    BY <1>3, <1>4, <1>8, <1>11, <2>1
  <2>2. CASE w # v
    <3>1. /\ HasCode(w) /\ Mapped(w) /\ table[w] \in Objs
          /\ heap'[table[w]].code = heap[table[w]].code
          /\ heap'[table[w]].val = heap[table[w]].val
          /\ heap[table[w]].code \in Codes
      BY <1>4, <1>6, <1>17, <2>2, HeapFacts DEF HasCode, Page
    <3>2. heap[table[w]].code # c
      <4>1. decoded[heap[table[w]].code].pg = table[w]
        BY <3>1 DEF CodeTrue
      <4>2. ~NewCode(v, d) => HasCode(v) /\ heap[table[v]].code = c
        BY <1>2, <1>3, DistinctAssumption DEF HasCode
      <4>3. ~NewCode(v, d) => decoded[c].pg = table[v]
        BY <4>2 DEF CodeTrue
      <4> QED
        BY <1>2, <1>6, <2>2, <3>1, <4>1, <4>3
    <3> QED
      BY <1>11, <3>1, <3>2 DEF CodeTrue
  <2> QED
    BY <2>1, <2>2
<1> QED
  BY <1>12, <1>13, <1>15, <1>18, <1>20, <1>21 DEF Caches

LEMMA ExecuteKeeps ==
  ASSUME IInv, NEW a \in Accesses, NEW d \in BOOLEAN, execute(a, d),
         Allows(a.kind, a.page)
  PROVE  IInv'
<1>1. PICK c \in CodeFor(a.page, d) :
        LET r == CodeRecord(a.page, d, c)
            x == IF r.inst = NotDecoded THEN heap[r.pg].val ELSE r.inst
        IN /\ fetchPage(a.page, d, c)
           /\ decoded' = [decoded EXCEPT ![c] = [r EXCEPT !.inst = x]]
           /\ Observe(a, d, <<x>>)
  BY DEF execute
<1> DEFINE q == CodeRecord(a.page, d, c)
           x == IF q.inst = NotDecoded THEN heap[q.pg].val ELSE q.inst
           r == [q EXCEPT !.inst = x]
<1>2. fetchPage(a.page, d, c) /\ decoded' = [decoded EXCEPT ![c] = r] /\ flight' = Nothing
  BY <1>1 DEF Observe
<1>3. a.page \in Pages /\ Allows("X", a.page)
  BY AccessFacts DEF execute
<1>4. q \in CodePage /\ q.pg = table[a.page] /\ q.inst \in {NotDecoded, heap[table[a.page]].val}
  BY <1>3, CodeForFacts
<1>5. table[a.page] \in Objs /\ heap[table[a.page]].val \in Vals
  BY <1>3, HeapFacts DEF IInv, Page
<1> HIDE DEF q
<1>6. r \in CodePage /\ r.pg = table[a.page] /\ r.inst \in {NotDecoded, heap[table[a.page]].val}
  BY <1>4, <1>5 DEF CodePage
<1> HIDE DEF r
<1> QED
  BY <1>2, <1>3, <1>6, FetchKeeps

LEMMA AnnounceKeeps ==
  ASSUME IInv, NEW f, Ready(f), Announce(f),
         ~f.access.cross => Allows(f.access.kind, f.access.page)
  PROVE  IInv'
<1> DEFINE a == f.access
<1>1. a \in Accesses /\ a.page \in Pages /\ a.page \in Nat /\ (a.kind = "X" => ~a.cross)
  BY AccessFacts DEF Ready, Flight
<1>2. flight' = InFlight(a, TRUE, IF a.cross THEN <<>> ELSE <<a.page>>)
  BY DEF Announce
<1>3. (IF a.cross THEN <<>> ELSE <<a.page>>) \in Seq(Nat)
  BY <1>1
<1>4. flight' \in Flight /\ flight'.access = a /\ flight'.appealed = FALSE
      /\ (~a.cross => flight'.todo = <<a.page>>)
  BY <1>1, <1>2, <1>3 DEF InFlight, Flight
<1>5. WellShaped(flight)'
  BY <1>4 DEF WellShaped
<1>6. CASE a.kind = "X"
  <2>1. PICK c \in CodeFor(a.page, FALSE) :
          /\ fetchPage(a.page, FALSE, c)
          /\ decoded' = [decoded EXCEPT ![c] = CodeRecord(a.page, FALSE, c)]
    BY <1>6 DEF Announce
  <2>2. Allows("X", a.page)
    BY <1>1, <1>6
  <2>3. /\ CodeRecord(a.page, FALSE, c) \in CodePage
        /\ CodeRecord(a.page, FALSE, c).pg = table[a.page]
        /\ CodeRecord(a.page, FALSE, c).inst \in {NotDecoded, heap[table[a.page]].val}
    BY <1>1, <2>2, CodeForFacts
  <2> HIDE DEF a
  <2> QED
    BY <1>1, <1>5, <2>1, <2>2, <2>3, FetchKeeps
<1>7. CASE a.kind # "X"
  <2>1. UNCHANGED <<table, heap, decoded, rtlb, wtlb, ctlb, fetch, hooks>>
    BY <1>7 DEF Announce, caches
  <2> QED
    BY <1>5, <2>1, OnlyForgets
<1> QED
  BY <1>6, <1>7

LEMMA GuestPageKeeps ==
  ASSUME IInv, NEW f, Ready(f), guestPage(f)
  PROVE  IInv'
<1>1. CASE Blocked(f) # {}
  BY <1>1, AppealKeeps, FaultKeeps DEF guestPage
<1>2. CASE Blocked(f) = {}
  <2>1. ~f.access.cross => Allows(f.access.kind, f.access.page)
    BY <1>2, UnblockedAllows
  <2>2. f.access \in Accesses /\ f.announced \in BOOLEAN
    BY DEF Ready, Flight
  <2>3. f.access.kind = "X" => ~f.access.cross
    BY <2>2, AccessFacts
  <2>4. execute(f.access, f.announced) => f.access.kind = "X"
    BY DEF execute
  <2>5. \/ Announce(f) \/ readSlow(f.access, f.announced)
        \/ writeSlow(f.access, f.announced) \/ execute(f.access, f.announced)
    BY <1>2 DEF guestPage
  <2> QED
    BY <2>1, <2>2, <2>3, <2>4, <2>5, AnnounceKeeps, ReadSlowKeeps, WriteSlowKeeps, ExecuteKeeps
<1> QED
  BY <1>1, <1>2

LEMMA AccessSlowKeeps == IInv /\ AccessSlow => IInv'
<1> SUFFICES ASSUME IInv, AccessSlow PROVE IInv'
  OBVIOUS
<1>1. PICK a \in Accesses : guestPage(InFlight(a, FALSE, PagesOf(a)))
  BY DEF AccessSlow
<1>2. PagesOf(a) \in Seq(Nat) /\ (~a.cross => PagesOf(a) = <<a.page>>)
  BY AccessFacts DEF PagesOf
<1>3. Ready(InFlight(a, FALSE, PagesOf(a)))
  BY <1>2 DEF Ready, InFlight, Flight
<1> QED
  BY <1>1, <1>3, GuestPageKeeps

LEMMA FlightReady ==
  ASSUME IInv, flight # Nothing
  PROVE  WellShaped(flight) /\ Ready(flight)
BY DEF IInv, FlightShape, WellShaped, Ready

LEMMA HookReturnsKeeps == IInv /\ HookReturns => IInv'
BY FlightReady, GuestPageKeeps DEF HookReturns

LEMMA InvalidHookReturnsKeeps == IInv /\ InvalidHookReturns => IInv'
<1> SUFFICES ASSUME IInv, InvalidHookReturns PROVE IInv'
  OBVIOUS
<1>1. flight # Nothing /\ flight.appealed /\ WellShaped(flight)
  BY FlightReady DEF InvalidHookReturns
<1> DEFINE f == InFlight(flight.access, flight.announced, Tail(flight.todo))
<1>2. ASSUME Allows(flight.access.kind, Head(flight.todo)) PROVE Ready(f)
  <2>1. flight.todo \in Seq(Nat) /\ flight.todo # <<>> /\ flight \in Flight
    BY <1>1 DEF WellShaped, Flight
  <2>2. Tail(flight.todo) \in Seq(Nat)
    BY <2>1, HeadTailProperties
  <2>3. f \in Flight /\ f.access = flight.access /\ f.todo = Tail(flight.todo)
    BY <2>1, <2>2 DEF Flight, InFlight
  <2>4. ASSUME ~flight.access.cross
        PROVE  Tail(flight.todo) = <<>> /\ Head(flight.todo) = flight.access.page
    <3>1. flight.todo = <<flight.access.page>>
      BY <1>1, <2>4 DEF WellShaped
    <3> QED
      BY <3>1
  <2> QED
    BY <1>2, <2>3, <2>4 DEF Ready
<1>3. \/ Allows(flight.access.kind, Head(flight.todo)) /\ guestPage(f)
      \/ Fault(flight)
  BY DEF InvalidHookReturns
<1> HIDE DEF f
<1> QED
  BY <1>2, <1>3, GuestPageKeeps, FaultKeeps

(* A store that hits goes to the array of a page without decoded code.        *)
LEMMA WriteFastKeeps == IInv /\ WriteFast => IInv'
<1> SUFFICES ASSUME IInv, WriteFast PROVE IInv'
  OBVIOUS
<1> USE DEF IInv
<1>1. PICK a \in Accesses :
        /\ WriteHit(a) /\ flight' = Nothing
        /\ heap' = [heap EXCEPT ![wtlb[Slot(a.page)].data].val = a.val]
  BY DEF WriteFast, Observe
<1>2. UNCHANGED <<table, decoded, rtlb, wtlb, ctlb, fetch, hooks>>
  BY DEF WriteFast, caches
<1> DEFINE v == a.page
<1>3. v \in Pages /\ v # NoVPN /\ Slot(v) \in Slots /\ a.val \in Vals
  BY AccessFacts, EntryFacts, SlotRange
<1>4. /\ Allows("W", v) /\ heap[table[v]].written /\ ~HasCode(v)
      /\ wtlb[Slot(v)].data = table[v] /\ Mapped(v) /\ table[v] \in Objs
  BY <1>1, <1>3, HeapFacts DEF WriteHit, Caches, WriteCoherent, DecodedNotWritable
<1>5. heap' = [heap EXCEPT ![table[v]].val = a.val]
  BY <1>1, <1>4
<1> HIDE DEF v
<1>6. \A o \in Objs : /\ heap'[o] \in Page /\ heap'[o].prot = heap[o].prot
                      /\ heap'[o].written = heap[o].written /\ heap'[o].code = heap[o].code
                      /\ o # table[v] => heap'[o] = heap[o]
  BY <1>3, <1>4, <1>5, HeapFacts DEF Page, TypeOK
<1>7. heap' \in [Objs -> Page]
  BY <1>5, <1>6 DEF TypeOK
<1>8. TypeOK' /\ Unshared' /\ FlightShape'
  BY <1>1, <1>2, <1>7 DEF TypeOK, Unshared, FlightShape
<1>9. \A w : /\ \A k : Allows(k, w) => (Allows(k, w))'
             /\ Mapped(w) => /\ w \in Pages /\ table[w] \in Objs /\ (pageData(w))' = pageData(w)
             /\ (HasCode(w))' = HasCode(w)
  BY <1>2, <1>6, HeapFacts DEF Allows, Mapped, lookup, HasCode, pageData
<1>10. Caches'
  <2>1. ReadCoherent'
    BY <1>2, <1>9, HeapFacts DEF Caches, ReadCoherent, hooksCoverPage
  <2>2. \A k, w : Allows(k, w) => /\ heap'[table[w]].written = heap[table[w]].written
                                 /\ heap'[table[w]].code = heap[table[w]].code
    BY <1>6, HeapFacts
  <2>3. WriteCoherent'
    BY <1>2, <1>9, <2>2 DEF Caches, WriteCoherent, hooksCoverPage
  <2>4. DecodedNotWritable'
    BY <1>2, <1>9 DEF Caches, DecodedNotWritable
  <2>5. CodeFound'
    BY <1>2, <1>9, <2>2 DEF Caches, CodeFound, Finds
  <2> QED
    BY <2>1, <2>3, <2>4, <2>5 DEF Caches
<1>11. \A w \in Pages : HasCode(w) => table[w] # table[v] /\ table[w] \in Objs
  BY <1>3, <1>4, HeapFacts DEF HasCode, Unshared
<1>12. CodeTrue'
  BY <1>2, <1>6, <1>9, <1>11 DEF CodeTrue
<1> QED
  BY <1>8, <1>10, <1>12

LEMMA NextKeeps == IInv /\ [Next]_vars => IInv'
<1> SUFFICES ASSUME IInv, [Next]_vars PROVE IInv'
  OBVIOUS
<1>1. CASE UNCHANGED vars
  <2>1. UNCHANGED <<table, heap, decoded, rtlb, wtlb, ctlb, hooks, fetch, flight>>
    BY <1>1 DEF vars, caches
  <2>2. (flight = Nothing \/ WellShaped(flight))'
    BY <2>1, FlightReady DEF WellShaped
  <2> QED
    BY <2>1, <2>2, OnlyForgets
<1>2. CASE Retire
  <2>1. UNCHANGED <<table, heap, decoded, rtlb, wtlb, ctlb, hooks, fetch, flight>>
    BY <1>2 DEF Retire, caches
  <2>2. (flight = Nothing \/ WellShaped(flight))'
    BY <2>1, FlightReady DEF WellShaped
  <2> QED
    BY <2>1, <2>2, OnlyForgets
<1>3. CASE Host
  BY <1>3, MapKeeps, UnmapKeeps, ProtectKeeps, HostWriteKeeps, DropCodeKeeps, AddHookKeeps,
     RemoveHookKeeps, ReleaseKeeps DEF Host
<1>4. CASE ReadFast
  BY <1>4, OnlyForgets DEF ReadFast, Observe, caches
<1>5. CASE CodeHookDiverts
  BY <1>5, OnlyForgets DEF CodeHookDiverts
<1>6. CASE Raise
  BY <1>6, OnlyForgets DEF Raise
<1> QED
  BY <1>1, <1>2, <1>3, <1>4, <1>5, <1>6, WriteFastKeeps, AccessSlowKeeps, InvalidHookReturnsKeeps,
     HookReturnsKeeps DEF Next, Guest

(***************************************************************************)
(* The theorems.                                                            *)
(***************************************************************************)
(* The invariant the theorems below are read off from.                        *)
THEOREM Invariant == Spec => []IInv
BY InitIInv, NextKeeps, PTL DEF Spec

(* Memory, its caches and the access in flight keep their shapes whatever     *)
(* the host does from inside hooks (mem.go, Memory).                          *)
THEOREM Typed == Spec => []TypeOK
<1>1. IInv => TypeOK
  BY DEF IInv
<1> QED
  BY <1>1, Invariant, PTL

(* A TLB entry is never stale: what Read8 .. Write64 do without asking the    *)
(* page table is what asking would give (mem.go, tlbEntry).                   *)
THEOREM NeverStale == Spec => []TlbCoherent
<1>1. IInv => TlbCoherent
  BY CachesGive DEF IInv
<1> QED
  BY <1>1, Invariant, PTL

(* No store reaches a page with decoded instructions past dropCode, because   *)
(* such a page is not in the write TLB (cpu.go, fetch).                       *)
THEOREM StoresSeeCode == Spec => []DecodedNotWritable
<1>1. IInv => DecodedNotWritable
  BY CachesGive DEF IInv
<1> QED
  BY <1>1, Invariant, PTL

(* What execution finds decoded is what the page holds: self-modifying and    *)
(* remapped code is never executed from a stale decoding (cpu.go, fetch).     *)
THEOREM NoStaleCode == Spec => []CodeCurrent
<1>1. IInv => CodeCurrent
  BY CodeGives DEF IInv, Caches
<1> QED
  BY <1>1, Invariant, PTL

-----------------------------------------------------------------------------
(***************************************************************************)
(* PageCache implements GuestMemory: the TLBs, the decoded pages and the     *)
(* fetch page change no answer, fault or hook call, for every number of     *)
(* pages, cache slots, page structs, values, protections and hooks.         *)
(*                                                                         *)
(* Coherence of the caches (above) is most of it.  Two more facts           *)
(* are needed.  A page without an array reads as zero (Blank).  And an      *)
(* access that was interrupted has only pages of its own left to resolve,   *)
(* and has run its hooks unless it waits for the handler (Begun).           *)
(***************************************************************************)

Blank == \A o \in Objs : ~heap[o].written => heap[o].val = Zero

PageSet(a) == IF a.cross THEN {a.page, a.page + 1} ELSE {a.page}
Within(f) == \A i \in DOMAIN f.todo : f.todo[i] \in PageSet(f.access)
Begun == flight # Nothing => Within(flight) /\ (flight.appealed \/ flight.announced)

(* What GuestMemory sees.                                                     *)
MemAt(v) == IF Mapped(v) THEN [val |-> heap[table[v]].val, prot |-> heap[table[v]].prot] ELSE NoPage
MemSeen == [v \in Pages |-> MemAt(v)]
FlightSeen == IF flight = Nothing THEN Nothing
              ELSE [access |-> flight.access, announced |-> flight.announced,
                    appealed |-> flight.appealed]

LEMMA SameWords ==
  /\ M!Pages = Pages /\ M!Kinds = Kinds /\ M!Access = Access
  /\ \A a : M!PagesOf(a) = PagesOf(a) /\ M!AddrOf(a) = AddrOf(a)
BY DEF M!Pages, Pages, M!Kinds, Kinds, M!Access, Access, M!PagesOf, PagesOf, M!AddrOf, AddrOf

LEMMA SameAnswers ==
  ASSUME IInv
  PROVE  /\ \A v : M!Mapped(v) <=> Mapped(v)
         /\ \A k, v : M!Allows(k, v) <=> Allows(k, v)
         /\ \A v : M!Content(v) = Content(v)
         /\ \A a : M!Watched(a) <=> Watched(a)
<1>1. ASSUME NEW v \in Pages, Mapped(v)
      PROVE  [val |-> heap[table[v]].val, prot |-> heap[table[v]].prot] # NoPage
  <2>1. heap[table[v]] \in Page
    BY <1>1, HeapFacts DEF IInv
  <2>2. [val |-> heap[table[v]].val, prot |-> heap[table[v]].prot] \in [val : Vals, prot : SUBSET Kinds]
    BY <2>1 DEF Page
  <2> QED
    BY <2>2, NothingAssumption
<1>2. \A v : Mapped(v) => v \in Pages
  BY HeapFacts DEF IInv
<1>3. \A v : M!Mapped(v) <=> Mapped(v)
  BY <1>1, <1>2, SameWords DEF M!Mapped
<1>4. \A k, v : M!Allows(k, v) <=> Allows(k, v)
  BY <1>2, <1>3 DEF M!Allows, Allows
<1>5. \A v : M!Content(v) = Content(v)
  BY <1>2, <1>3 DEF M!Content, Content
<1>6. \A a : M!Watched(a) <=> Watched(a)
  BY SameWords DEF M!Watched, Watched
<1> QED
  BY <1>3, <1>4, <1>5, <1>6

LEMMA AllowedIs ==
  ASSUME IInv, NEW a \in Accesses
  PROVE  /\ M!Allowed(a) <=> \A v \in PageSet(a) : Allows(a.kind, v)
         /\ PageSet(a) = {PagesOf(a)[i] : i \in DOMAIN PagesOf(a)}
         /\ a.page \in Nat
<1>1. a.page \in Nat /\ a.cross \in BOOLEAN
  BY AccessFacts
<1>2. CASE a.cross
  <2>1. PagesOf(a) = <<a.page, a.page + 1>> /\ DOMAIN <<a.page, a.page + 1>> = {1, 2}
    BY <1>2 DEF PagesOf
  <2>2. PageSet(a) = {PagesOf(a)[i] : i \in DOMAIN PagesOf(a)}
    BY <1>2, <2>1 DEF PageSet
  <2>3. M!Allowed(a) <=> Allows(a.kind, a.page) /\ Allows(a.kind, a.page + 1)
    BY <2>1, SameWords, SameAnswers DEF M!Allowed
  <2> QED
    BY <1>1, <1>2, <2>2, <2>3 DEF PageSet
<1>3. CASE ~a.cross
  <2>1. PagesOf(a) = <<a.page>> /\ DOMAIN <<a.page>> = {1}
    BY <1>3 DEF PagesOf
  <2>2. PageSet(a) = {PagesOf(a)[i] : i \in DOMAIN PagesOf(a)}
    BY <1>3, <2>1 DEF PageSet
  <2>3. M!Allowed(a) <=> Allows(a.kind, a.page)
    BY <2>1, SameWords, SameAnswers DEF M!Allowed
  <2> QED
    BY <1>1, <1>3, <2>2, <2>3 DEF PageSet
<1> QED
  BY <1>1, <1>2, <1>3

-----------------------------------------------------------------------------
(* How memory is seen after a step.                                          *)

LEMMA MemSame ==
  ASSUME IInv, table' = table,
         \A o \in Objs : heap'[o].val = heap[o].val /\ heap'[o].prot = heap[o].prot
  PROVE  MemSeen' = MemSeen
<1>1. \A v \in Pages : (Mapped(v))' <=> Mapped(v)
  BY DEF Mapped, lookup
<1>2. \A v \in Pages : Mapped(v) => table[v] \in Objs
  BY HeapFacts DEF IInv
<1>3. \A v \in Pages : (MemAt(v))' = MemAt(v)
  BY <1>1, <1>2 DEF MemAt
<1> QED
  BY <1>3 DEF MemSeen

\* Storing x to the pages of vs.
StoredAt(vs, x) ==
  [v \in Pages |-> IF v \in vs /\ Mapped(v) THEN [val |-> x, prot |-> heap[table[v]].prot] ELSE MemAt(v)]

LEMMA StoredIs == ASSUME IInv, NEW vs, NEW x PROVE M!Stored(vs, x) = StoredAt(vs, x)
<1> DEFINE r(v) == [val |-> heap[table[v]].val, prot |-> heap[table[v]].prot]
<1>1. M!Stored(vs, x) = [v \in Pages |-> IF v \in vs /\ Mapped(v) THEN [MemSeen[v] EXCEPT !.val = x] ELSE MemSeen[v]]
  BY SameWords, SameAnswers DEF M!Stored, MemSeen, MemAt
<1>2. \A v \in Pages : Mapped(v) => [MemSeen[v] EXCEPT !.val = x] = [val |-> x, prot |-> heap[table[v]].prot]
  BY DEF MemSeen, MemAt
<1>3. \A v \in Pages : MemSeen[v] = MemAt(v)
  BY DEF MemSeen
<1> QED
  BY <1>1, <1>2, <1>3 DEF StoredAt

LEMMA FilledSeen ==
  ASSUME IInv, NEW vs, NEW x, table' = table, heap' = Filled(vs, x)
  PROVE  MemSeen' = StoredAt(vs, x)
<1> SUFFICES ASSUME NEW v \in Pages
             PROVE  (MemAt(v))' = IF v \in vs /\ Mapped(v) THEN [val |-> x, prot |-> heap[table[v]].prot]
                                  ELSE MemAt(v)
  BY DEF MemSeen, StoredAt
<1>1. (Mapped(v))' <=> Mapped(v)
  BY DEF Mapped, lookup
<1>2. ASSUME Mapped(v) PROVE table[v] \in Objs /\ heap[table[v]] \in Page /\ table[v] # NoPage
  BY <1>2, HeapFacts DEF IInv
<1>3. ASSUME Mapped(v) PROVE table[v] \in {table[w] : w \in Backed(vs)} <=> v \in vs
  <2>1. \A w \in Backed(vs) : w \in vs /\ w \in Pages
    BY HeapFacts DEF Backed, IInv
  <2> QED
    BY <1>2, <1>3, <2>1 DEF Backed, IInv, Unshared
<1>4. CASE Mapped(v) /\ v \in vs
  <2>1. heap'[table[v]].val = x /\ heap'[table[v]].prot = heap[table[v]].prot
    BY <1>2, <1>3, <1>4 DEF Filled, Page
  <2> QED
    BY <1>1, <1>4, <2>1 DEF MemAt
<1>5. CASE Mapped(v) /\ v \notin vs
  <2>1. heap'[table[v]] = heap[table[v]]
    BY <1>2, <1>3, <1>5 DEF Filled
  <2> QED
    BY <1>1, <1>5, <2>1 DEF MemAt
<1>6. CASE ~Mapped(v)
  BY <1>1, <1>6 DEF MemAt
<1> QED
  BY <1>4, <1>5, <1>6

-----------------------------------------------------------------------------
(* The two further invariants.                                               *)

LEMMA BlankSame ==
  ASSUME Blank, \A o \in Objs : heap'[o].val = heap[o].val /\ heap'[o].written = heap[o].written
  PROVE  Blank'
BY DEF Blank

LEMMA BlankFilled ==
  ASSUME IInv, Blank, NEW vs, NEW x, heap' = Filled(vs, x)
  PROVE  Blank'
<1> SUFFICES ASSUME NEW o \in Objs, ~heap'[o].written PROVE heap'[o].val = Zero
  BY DEF Blank
<1>1. heap[o] \in Page
  BY HeapFacts DEF IInv
<1>2. CASE o \in {table[v] : v \in Backed(vs)}
  <2>1. heap'[o].written = TRUE
    BY <1>1, <1>2 DEF Filled, Page
  <2> QED
    BY <2>1
<1>3. CASE o \notin {table[v] : v \in Backed(vs)}
  BY <1>3 DEF Filled, Blank
<1> QED
  BY <1>2, <1>3

LEMMA FetchSame ==
  ASSUME IInv, NEW v \in Pages, NEW d, NEW c, fetchPage(v, d, c)
  PROVE  /\ UNCHANGED <<table, hooks>>
         /\ \A o \in Objs : /\ heap'[o].val = heap[o].val /\ heap'[o].written = heap[o].written
                            /\ heap'[o].prot = heap[o].prot
<1>1. heap' = heap \/ heap' = [heap EXCEPT ![table[v]].code = c]
  BY DEF fetchPage
<1>2. \A o \in Objs : heap[o] \in Page
  BY HeapFacts DEF IInv
<1>3. heap \in [Objs -> Page]
  BY DEF IInv, TypeOK
<1>4. \A o \in Objs : heap'[o] = heap[o] \/ heap'[o] = [heap[o] EXCEPT !.code = c]
  BY <1>1, <1>3
<1>5. \A o \in Objs : /\ heap'[o].val = heap[o].val /\ heap'[o].written = heap[o].written
                      /\ heap'[o].prot = heap[o].prot
  BY <1>2, <1>4 DEF Page
<1> QED
  BY <1>5 DEF fetchPage

\* What an access being resolved is: its pages are its own.
Starts(f) == f \in Flight /\ Ready(f) /\ Within(f)

LEMMA AppealBegun ==
  ASSUME IInv, Blank, NEW f, Starts(f), Appeal(f)
  PROVE  Blank' /\ Begun' /\ flight'.access = f.access /\ flight'.announced = f.announced
         /\ flight'.appealed = TRUE /\ flight' # Nothing
<1>1. PICK i \in Blocked(f) :
        flight' = [f EXCEPT !.appealed = TRUE, !.todo = SubSeq(f.todo, i, Len(f.todo))]
  BY DEF Appeal
<1>2. heap' = heap /\ f.todo \in Seq(Nat) /\ i \in 1 .. Len(f.todo) /\ Len(f.todo) \in Nat
  BY DEF Appeal, Blocked, Starts, Flight
<1> DEFINE s == SubSeq(f.todo, i, Len(f.todo))
<1>3. /\ s \in Seq(Nat)
      /\ \A j \in DOMAIN s : s[j] \in PageSet(f.access)
  <2>1. \A j \in 1 .. Len(f.todo) : f.todo[j] \in PageSet(f.access) /\ f.todo[j] \in Nat
    BY <1>2 DEF Starts, Within
  <2>2. Len(s) = Len(f.todo) + 1 - i /\ \A j \in 1 .. Len(f.todo) + 1 - i : s[j] = f.todo[i + j - 1]
    BY <1>2
  <2>3. s \in Seq(Nat)
    BY <1>2
  <2>4. \A j \in 1 .. Len(f.todo) + 1 - i : i + j - 1 \in 1 .. Len(f.todo)
    BY <1>2
  <2>5. DOMAIN s = 1 .. Len(f.todo) + 1 - i
    BY <2>2, <2>3
  <2> HIDE DEF s
  <2> QED
    BY <2>1, <2>2, <2>3, <2>4, <2>5
<1> HIDE DEF s
<1>4. flight' = [f EXCEPT !.appealed = TRUE, !.todo = s]
  BY <1>1 DEF s
<1>5. /\ flight'.access = f.access /\ flight'.announced = f.announced /\ flight'.appealed = TRUE
      /\ flight'.todo = s
  BY <1>4 DEF Starts, Flight
<1>6. flight' # Nothing
  <2>1. flight' \in [access : Access, announced : BOOLEAN, appealed : BOOLEAN, todo : Seq(Nat)]
    BY <1>3, <1>4, AccessFacts DEF Starts, Flight
  <2> QED
    BY <2>1, NothingAssumption
<1>7. Begun'
  BY <1>3, <1>5 DEF Begun, Within
<1>8. Blank'
  BY <1>2, BlankSame
<1> QED
  BY <1>5, <1>6, <1>7, <1>8

LEMMA AnnounceBegun ==
  ASSUME IInv, Blank, NEW f, Starts(f), Announce(f), f.access.kind = "X" => f.access.page \in Pages
  PROVE  /\ Blank' /\ Begun' /\ flight' # Nothing
         /\ flight'.access = f.access /\ flight'.announced = TRUE /\ flight'.appealed = FALSE
         /\ UNCHANGED <<table, hooks>>
         /\ \A o \in Objs : heap'[o].val = heap[o].val /\ heap'[o].prot = heap[o].prot
<1> DEFINE a == f.access
           s == IF a.cross THEN <<>> ELSE <<a.page>>
<1>1. a \in Accesses /\ a.page \in Nat
  BY AccessFacts DEF Starts, Flight
<1>2. flight' = InFlight(a, TRUE, s)
  BY DEF Announce
<1>3. s \in Seq(Nat) /\ \A j \in DOMAIN s : s[j] \in PageSet(a)
  BY <1>1 DEF PageSet
<1> HIDE DEF s
<1>4. flight'.access = a /\ flight'.announced = TRUE /\ flight'.appealed = FALSE /\ flight'.todo = s
  BY <1>2 DEF InFlight
<1>5. flight' # Nothing
  <2>1. flight' \in [access : Access, announced : BOOLEAN, appealed : BOOLEAN, todo : Seq(Nat)]
    BY <1>1, <1>2, <1>3, AccessFacts DEF InFlight
  <2> QED
    BY <2>1, NothingAssumption
<1>6. Begun'
  BY <1>3, <1>4 DEF Begun, Within
<1>7. /\ UNCHANGED <<table, hooks>>
      /\ \A o \in Objs : /\ heap'[o].val = heap[o].val /\ heap'[o].written = heap[o].written
                         /\ heap'[o].prot = heap[o].prot
  <2>1. CASE a.kind = "X"
    <3>1. \E c \in CodeFor(a.page, FALSE) : fetchPage(a.page, FALSE, c)
      BY <2>1 DEF Announce
    <3> QED
      BY <2>1, <3>1, FetchSame
  <2>2. CASE a.kind # "X"
    BY <2>2 DEF Announce
  <2> QED
    BY <2>1, <2>2
<1> QED
  BY <1>4, <1>5, <1>6, <1>7, BlankSame

-----------------------------------------------------------------------------
(* From callback to callback.                                                *)

LEMMA FlightIs ==
  ASSUME IInv, flight # Nothing
  PROVE  /\ FlightSeen # Nothing /\ flight \in Flight
         /\ flight.access \in Accesses /\ flight.access \in Access /\ flight.announced \in BOOLEAN
         /\ FlightSeen = [access |-> flight.access, announced |-> flight.announced,
                          appealed |-> flight.appealed]
<1>1. flight \in Flight
  BY DEF IInv, TypeOK
<1>2. flight.access \in Accesses /\ flight.announced \in BOOLEAN /\ flight.appealed \in BOOLEAN
  BY <1>1 DEF Flight
<1>3. flight.access \in Access
  BY <1>2, AccessFacts
<1> QED
  BY <1>1, <1>2, <1>3, NothingAssumption DEF FlightSeen

\* f is what the access in flight, or a new one, has become.
From(f) ==
  /\ Starts(f)
  /\ \/ flight = Nothing /\ f.announced = FALSE /\ f.todo = PagesOf(f.access)
     \/ flight # Nothing /\ flight.access = f.access /\ flight.announced = f.announced

LEMMA Goes ==
  ASSUME IInv, NEW a \in Access, NEW d \in BOOLEAN,
         \/ flight = Nothing /\ d = FALSE
         \/ flight # Nothing /\ flight.access = a /\ flight.announced = d,
         \/ ~d /\ M!Announce(a)
         \/ M!Appeal(a, d)
         \/ M!Answer(a, d)
         \/ M!Refuse(a, d)
  PROVE  M!MemNext
<1>1. CASE flight = Nothing /\ d = FALSE
  <2>1. FlightSeen = Nothing /\ a \in M!Access
    BY <1>1, SameWords DEF FlightSeen
  <2>2. M!Announce(a) \/ M!Appeal(a, FALSE) \/ M!Answer(a, FALSE) \/ M!Refuse(a, FALSE)
    BY <1>1
  <2>3. M!GuestAccess
    BY <2>1, <2>2 DEF M!GuestAccess, FlightSeen
  <2> QED
    BY <2>3 DEF M!MemNext
<1>2. CASE flight # Nothing /\ flight.access = a /\ flight.announced = d
  <2>1. FlightSeen # Nothing /\ FlightSeen.access = a /\ FlightSeen.announced = d
    BY <1>2, FlightIs
  <2>2. M!Continue
    <3>1. CASE ~d /\ M!Announce(a)
      BY <2>1, <3>1 DEF M!Continue, M!Announce, M!Interrupt, FlightSeen
    <3>2. CASE M!Appeal(a, d)
      BY <2>1, <3>2 DEF M!Continue, M!Appeal, M!Interrupt, FlightSeen
    <3>3. CASE M!Answer(a, d)
      <4> DEFINE b == FlightSeen.access
      <4>1. b = a /\ M!PagesOf(b) = M!PagesOf(a)
        BY <2>1
      <4>2. /\ {M!PagesOf(b)[i] : i \in DOMAIN M!PagesOf(b)} = {M!PagesOf(a)[i] : i \in DOMAIN M!PagesOf(a)}
            /\ [i \in DOMAIN M!PagesOf(b) |-> M!Content(M!PagesOf(b)[i])]
                 = [i \in DOMAIN M!PagesOf(a) |-> M!Content(M!PagesOf(a)[i])]
        BY <4>1
      <4>3. M!Answer(b, FlightSeen.announced)
        BY <2>1, <3>3, <4>1, <4>2 DEF M!Answer, FlightSeen
      <4> QED
        BY <2>1, <4>3 DEF M!Continue, FlightSeen
    <3>4. CASE M!Refuse(a, d)
      BY <2>1, <3>4 DEF M!Continue, M!Refuse, FlightSeen
    <3> QED
      BY <3>1, <3>2, <3>3, <3>4
  <2> QED
    BY <2>2 DEF M!MemNext
<1> QED
  BY <1>1, <1>2

LEMMA Answers ==
  ASSUME IInv, NEW a \in Accesses, NEW d \in BOOLEAN, d \/ ~Watched(a),
         (\A v \in PageSet(a) : Allows(a.kind, v)) \/ (a.cross /\ flight # Nothing),
         MemSeen' = IF a.kind = "W" THEN StoredAt(PageSet(a), a.val) ELSE MemSeen,
         Observe(a, d, IF a.kind = "W" THEN <<a.val>>
                       ELSE [i \in DOMAIN PagesOf(a) |-> Content(PagesOf(a)[i])]),
         hooks' = hooks
  PROVE  M!Answer(a, d)
<1>1. d \/ ~M!Watched(a)
  BY SameAnswers
<1>2. M!Allowed(a) \/ (a.cross /\ FlightSeen # Nothing)
  BY AllowedIs, FlightIs
<1>3. MemSeen' = IF a.kind = "W" THEN M!Stored({M!PagesOf(a)[i] : i \in DOMAIN M!PagesOf(a)}, a.val)
                                 ELSE MemSeen
  <2>1. M!Stored({M!PagesOf(a)[i] : i \in DOMAIN M!PagesOf(a)}, a.val) = StoredAt(PageSet(a), a.val)
    BY SameWords, AllowedIs, StoredIs
  <2> QED
    BY <2>1
<1>4. obs' = [access |-> a, announced |-> d,
              result |-> IF a.kind = "W" THEN <<a.val>>
                         ELSE [i \in DOMAIN M!PagesOf(a) |-> M!Content(M!PagesOf(a)[i])]]
  <2>1. [i \in DOMAIN M!PagesOf(a) |-> M!Content(M!PagesOf(a)[i])]
          = [i \in DOMAIN PagesOf(a) |-> Content(PagesOf(a)[i])]
    BY SameWords, SameAnswers
  <2> QED
    BY <2>1 DEF Observe
<1>5. FlightSeen' = Nothing
  BY DEF Observe, FlightSeen
<1> QED
  BY <1>1, <1>2, <1>3, <1>4, <1>5 DEF M!Answer, MemSeen, MemAt, FlightSeen

LEMMA Refuses ==
  ASSUME IInv, NEW a \in Accesses, NEW d \in BOOLEAN,
         (\E v \in PageSet(a) : ~Allows(a.kind, v)) \/ (flight # Nothing /\ flight.appealed),
         Observe(a, d, <<>>), UNCHANGED <<table, heap, hooks>>
  PROVE  M!Refuse(a, d)
<1>1. ~M!Allowed(a) \/ (FlightSeen # Nothing /\ FlightSeen.appealed)
  BY AllowedIs, FlightIs
<1>2. MemSeen' = MemSeen
  BY MemSame
<1>3. FlightSeen' = Nothing
  BY DEF Observe, FlightSeen
<1> QED
  BY <1>1, <1>2, <1>3 DEF M!Refuse, Observe, MemSeen, MemAt, FlightSeen

LEMMA Appeals ==
  ASSUME IInv, NEW a \in Accesses, NEW d \in BOOLEAN, \E v \in PageSet(a) : ~Allows(a.kind, v),
         FlightSeen' = [access |-> a, announced |-> d, appealed |-> TRUE],
         obs' = Nothing, UNCHANGED <<table, heap, hooks>>
  PROVE  M!Appeal(a, d)
<1>1. ~M!Allowed(a)
  BY AllowedIs
<1>2. MemSeen' = MemSeen
  BY MemSame
<1> QED
  BY <1>1, <1>2 DEF M!Appeal, M!Interrupt, MemSeen, MemAt, FlightSeen

LEMMA Announces ==
  ASSUME IInv, NEW a \in Accesses, Watched(a),
         FlightSeen' = [access |-> a, announced |-> TRUE, appealed |-> FALSE],
         obs' = Nothing, hooks' = hooks, MemSeen' = MemSeen
  PROVE  M!Announce(a)
<1>1. M!Watched(a)
  BY SameAnswers
<1> QED
  BY <1>1 DEF M!Announce, M!Interrupt, MemSeen, MemAt, FlightSeen

-----------------------------------------------------------------------------
(* guestPage, outcome by outcome.                                            *)

LEMMA FromFacts ==
  ASSUME IInv, NEW f, From(f)
  PROVE  /\ f.access \in Accesses /\ f.access \in Access /\ f.announced \in BOOLEAN
         /\ f.access.page \in Pages /\ f.access.kind \in Kinds
         /\ Starts(f) /\ Ready(f) /\ f \in Flight
         /\ \/ flight = Nothing /\ f.announced = FALSE
            \/ flight # Nothing /\ flight.access = f.access /\ flight.announced = f.announced
BY AccessFacts DEF From, Starts, Flight

LEMMA BlockedRefused ==
  ASSUME IInv, NEW f, From(f), Blocked(f) # {}
  PROVE  \E v \in PageSet(f.access) : ~Allows(f.access.kind, v)
<1>1. PICK i \in DOMAIN f.todo : ~Resolved(f, i)
  BY DEF Blocked
<1>2. ~Allows(f.access.kind, f.todo[i])
  BY <1>1 DEF Resolved
<1>3. f.todo[i] \in PageSet(f.access)
  BY <1>1 DEF From, Starts, Within
<1> QED
  BY <1>2, <1>3

LEMMA UnblockedPermitted ==
  ASSUME IInv, NEW f, From(f), Blocked(f) = {}
  PROVE  \/ \A v \in PageSet(f.access) : Allows(f.access.kind, v)
         \/ f.access.cross /\ flight # Nothing
<1>1. CASE ~f.access.cross
  BY <1>1, FromFacts, UnblockedAllows DEF PageSet
<1>2. CASE f.access.cross /\ flight = Nothing
  <2>1. f.todo = <<f.access.page, f.access.page + 1>> /\ DOMAIN f.todo = {1, 2}
    BY <1>2 DEF From, PagesOf
  <2>2. f.access.kind # "X"
    BY <1>2, FromFacts, AccessFacts
  <2>3. Resolved(f, 1) /\ Resolved(f, 2)
    BY <2>1 DEF Blocked
  <2>4. f.todo[1] = f.access.page /\ f.todo[2] = f.access.page + 1
    BY <2>1
  <2>5. Allows(f.access.kind, f.access.page) /\ Allows(f.access.kind, f.access.page + 1)
    BY <2>2, <2>3, <2>4 DEF Resolved
  <2> QED
    BY <1>2, <2>5 DEF PageSet
<1>3. f.access.cross \in BOOLEAN
  BY FromFacts, AccessFacts
<1> QED
  BY <1>1, <1>2, <1>3

Good == Blank' /\ Begun'

LEMMA FaultMaps ==
  ASSUME IInv, Blank, NEW f, Fault(f), NEW a \in Accesses, NEW d \in BOOLEAN,
         a = f.access, d = f.announced,
         \/ \E v \in PageSet(a) : ~Allows(a.kind, v)
         \/ flight # Nothing /\ flight.appealed
  PROVE  Good /\ M!Refuse(a, d)
<1>1. Observe(a, d, <<>>) /\ UNCHANGED <<table, heap, hooks>>
  BY DEF Fault
<1>2. Good
  BY <1>1, BlankSame DEF Observe, Begun, Good
<1> QED
  BY <1>1, <1>2, Refuses

LEMMA AppealMaps ==
  ASSUME IInv, Blank, NEW f, From(f), Appeal(f), NEW a, NEW d, a = f.access, d = f.announced,
         \E v \in PageSet(a) : ~Allows(a.kind, v)
  PROVE  Good /\ M!Appeal(a, d)
<1>1. /\ Good /\ flight'.access = a /\ flight'.announced = d /\ flight'.appealed = TRUE
      /\ flight' # Nothing
  BY FromFacts, AppealBegun DEF Good
<1>2. FlightSeen' = [access |-> a, announced |-> d, appealed |-> TRUE]
  BY <1>1 DEF FlightSeen
<1>3. obs' = Nothing /\ UNCHANGED <<table, heap, hooks>>
  BY DEF Appeal
<1>4. a \in Accesses /\ d \in BOOLEAN
  BY FromFacts
<1> QED
  BY <1>1, <1>2, <1>3, <1>4, Appeals

LEMMA AnnounceMaps ==
  ASSUME IInv, Blank, NEW f, From(f), Announce(f), NEW a, a = f.access, Watched(a)
  PROVE  Good /\ M!Announce(a)
<1>1. /\ Good /\ flight' # Nothing
      /\ flight'.access = a /\ flight'.announced = TRUE /\ flight'.appealed = FALSE
      /\ UNCHANGED <<table, hooks>>
      /\ \A o \in Objs : heap'[o].val = heap[o].val /\ heap'[o].prot = heap[o].prot
  BY FromFacts, AnnounceBegun DEF Good
<1>2. FlightSeen' = [access |-> a, announced |-> TRUE, appealed |-> FALSE]
  BY <1>1 DEF FlightSeen
<1>3. obs' = Nothing
  BY DEF Announce
<1>4. a \in Accesses
  BY FromFacts
<1>5. MemSeen' = MemSeen
  BY <1>1, MemSame
<1> QED
  BY <1>1, <1>2, <1>3, <1>4, <1>5, Announces

LEMMA ReadMaps ==
  ASSUME IInv, Blank, NEW a \in Accesses, NEW d \in BOOLEAN, d \/ ~Watched(a),
         (\A v \in PageSet(a) : Allows(a.kind, v)) \/ (a.cross /\ flight # Nothing),
         readSlow(a, d)
  PROVE  Good /\ M!Answer(a, d)
<1>1. /\ a.kind = "R" /\ UNCHANGED <<table, heap, hooks>>
      /\ Observe(a, d, [i \in DOMAIN PagesOf(a) |-> Content(PagesOf(a)[i])])
  BY DEF readSlow
<1>2. MemSeen' = MemSeen
  BY <1>1, MemSame
<1>3. Good
  BY <1>1, BlankSame DEF Observe, Begun, Good
<1>4. Observe(a, d, IF a.kind = "W" THEN <<a.val>>
                    ELSE [i \in DOMAIN PagesOf(a) |-> Content(PagesOf(a)[i])])
  BY <1>1
<1> QED
  BY <1>1, <1>2, <1>3, <1>4, Answers

LEMMA WriteMaps ==
  ASSUME IInv, Blank, NEW a \in Accesses, NEW d \in BOOLEAN, d \/ ~Watched(a),
         (\A v \in PageSet(a) : Allows(a.kind, v)) \/ (a.cross /\ flight # Nothing),
         writeSlow(a, d)
  PROVE  Good /\ M!Answer(a, d)
<1>1. /\ a.kind = "W" /\ UNCHANGED <<table, hooks>> /\ Observe(a, d, <<a.val>>)
      /\ heap' = Filled({PagesOf(a)[i] : i \in DOMAIN PagesOf(a)}, a.val)
  BY DEF writeSlow
<1>2. heap' = Filled(PageSet(a), a.val)
  BY <1>1, AllowedIs
<1>3. MemSeen' = StoredAt(PageSet(a), a.val)
  BY <1>1, <1>2, FilledSeen
<1>4. Good
  BY <1>1, <1>2, BlankFilled DEF Observe, Begun, Good
<1>5. Observe(a, d, IF a.kind = "W" THEN <<a.val>>
                    ELSE [i \in DOMAIN PagesOf(a) |-> Content(PagesOf(a)[i])])
  BY <1>1
<1> QED
  BY <1>1, <1>3, <1>4, <1>5, Answers

LEMMA ExecuteMaps ==
  ASSUME IInv, Blank, NEW a \in Accesses, NEW d \in BOOLEAN, d \/ ~Watched(a),
         \A v \in PageSet(a) : Allows(a.kind, v),
         execute(a, d)
  PROVE  Good /\ M!Answer(a, d)
<1> DEFINE v == a.page
<1>1. a.kind = "X" /\ ~a.cross /\ v \in Pages
  BY AccessFacts DEF execute
<1>2. Allows("X", v)
  BY <1>1 DEF PageSet
<1>3. PICK c \in CodeFor(v, d) :
        /\ fetchPage(v, d, c)
        /\ Observe(a, d, <<IF CodeRecord(v, d, c).inst = NotDecoded THEN heap[CodeRecord(v, d, c).pg].val
                           ELSE CodeRecord(v, d, c).inst>>)
  BY DEF execute
<1>4. CodeRecord(v, d, c).pg = table[v] /\ CodeRecord(v, d, c).inst \in {NotDecoded, heap[table[v]].val}
  BY <1>1, <1>2, CodeForFacts
<1>5. Mapped(v)
  BY <1>2, HeapFacts DEF IInv
<1>6. Observe(a, d, <<Content(v)>>)
  BY <1>3, <1>4, <1>5 DEF Content
<1>7. PagesOf(a) = <<v>> /\ [i \in DOMAIN PagesOf(a) |-> Content(PagesOf(a)[i])] = <<Content(v)>>
  <2>1. PagesOf(a) = <<v>>
    BY <1>1 DEF PagesOf
  <2>2. \A w : [i \in DOMAIN <<w>> |-> Content(<<w>>[i])] = <<Content(w)>>
    OBVIOUS
  <2> QED
    BY <2>1, <2>2
<1>8. /\ UNCHANGED <<table, hooks>>
      /\ \A o \in Objs : /\ heap'[o].val = heap[o].val /\ heap'[o].written = heap[o].written
                         /\ heap'[o].prot = heap[o].prot
  BY <1>1, <1>3, FetchSame
<1>9. MemSeen' = MemSeen
  BY <1>8, MemSame
<1>10. Good
  BY <1>6, <1>8, BlankSame DEF Observe, Begun, Good
<1>11. Observe(a, d, IF a.kind = "W" THEN <<a.val>>
                     ELSE [i \in DOMAIN PagesOf(a) |-> Content(PagesOf(a)[i])])
  BY <1>1, <1>6, <1>7
<1>12. MemSeen' = IF a.kind = "W" THEN StoredAt(PageSet(a), a.val) ELSE MemSeen
  BY <1>1, <1>9
<1> QED
  BY <1>8, <1>10, <1>11, <1>12, Answers

LEMMA GuestPageMaps ==
  ASSUME IInv, Blank, NEW f, From(f), guestPage(f)
  PROVE  Good /\ M!MemNext
<1>1. PICK a \in Accesses : a = f.access
  BY FromFacts
<1>2. PICK d \in BOOLEAN : d = f.announced
  BY FromFacts
<1>3. /\ a \in Access
      /\ \/ flight = Nothing /\ d = FALSE
         \/ flight # Nothing /\ flight.access = a /\ flight.announced = d
  BY <1>1, <1>2, FromFacts
<1>4. CASE Blocked(f) # {}
  <2>1. \E v \in PageSet(f.access) : ~Allows(f.access.kind, v)
    BY <1>4, BlockedRefused
  <2>2. CASE Appeal(f)
    BY <1>1, <1>2, <1>3, <2>1, <2>2, AppealMaps, Goes
  <2>3. CASE Fault(f)
    BY <1>1, <1>2, <1>3, <2>1, <2>3, FaultMaps, Goes
  <2> QED
    BY <1>4, <2>2, <2>3 DEF guestPage
<1>5. CASE Blocked(f) = {} /\ Watched(a) /\ ~d
  <2>1. Announce(f)
    BY <1>1, <1>2, <1>5 DEF guestPage
  <2> QED
    BY <1>1, <1>2, <1>3, <1>5, <2>1, AnnounceMaps, Goes
<1>6. CASE Blocked(f) = {} /\ (d \/ ~Watched(a))
  <2>1. (\A v \in PageSet(a) : Allows(a.kind, v)) \/ (a.cross /\ flight # Nothing)
    BY <1>1, <1>6, UnblockedPermitted
  <2>2. readSlow(a, d) \/ writeSlow(a, d) \/ execute(a, d)
    BY <1>1, <1>2, <1>6 DEF guestPage
  <2>3. execute(a, d) => a.kind = "X" /\ ~a.cross
    BY AccessFacts DEF execute
  <2>4. Good /\ M!Answer(a, d)
    BY <1>6, <2>1, <2>2, <2>3, ReadMaps, WriteMaps, ExecuteMaps
  <2> QED
    BY <1>3, <2>4, Goes
<1> QED
  BY <1>4, <1>5, <1>6

-----------------------------------------------------------------------------
(* The guest's steps.                                                        *)

LEMMA SlowMaps == ASSUME IInv, Blank, AccessSlow PROVE Good /\ M!MemNext
<1>1. PICK a \in Accesses : guestPage(InFlight(a, FALSE, PagesOf(a))) /\ flight = Nothing
  BY DEF AccessSlow
<1> DEFINE f == InFlight(a, FALSE, PagesOf(a))
<1>2. PagesOf(a) \in Seq(Nat) /\ (~a.cross => PagesOf(a) = <<a.page>>)
  BY AccessFacts DEF PagesOf
<1>3. f \in Flight /\ Ready(f)
  BY <1>2 DEF Ready, InFlight, Flight
<1>4. f.access = a /\ f.announced = FALSE /\ f.todo = PagesOf(a)
  BY DEF InFlight
<1>5. \A i \in DOMAIN PagesOf(a) : PagesOf(a)[i] \in PageSet(a)
  BY AllowedIs
<1> HIDE DEF f
<1>6. From(f)
  BY <1>1, <1>3, <1>4, <1>5 DEF From, Starts, Within
<1> QED
  BY <1>1, <1>6, GuestPageMaps DEF f

LEMMA ReturnsMap == ASSUME IInv, Blank, Begun, HookReturns PROVE Good /\ M!MemNext
<1>1. flight # Nothing /\ guestPage(flight)
  BY DEF HookReturns
<1>2. From(flight)
  BY <1>1, FlightReady DEF From, Starts, Begun, Ready
<1> QED
  BY <1>1, <1>2, GuestPageMaps

LEMMA HandlerMaps == ASSUME IInv, Blank, Begun, InvalidHookReturns PROVE Good /\ M!MemNext
<1> DEFINE f == InFlight(flight.access, flight.announced, Tail(flight.todo))
<1>1. flight # Nothing /\ flight.appealed /\ WellShaped(flight) /\ Within(flight)
  BY FlightReady DEF InvalidHookReturns, Begun
<1>2. flight.todo \in Seq(Nat) /\ flight.todo # <<>> /\ flight \in Flight
  BY <1>1 DEF WellShaped, Flight
<1>3. CASE Allows(flight.access.kind, Head(flight.todo)) /\ guestPage(f)
  <2>1. /\ Tail(flight.todo) \in Seq(Nat)
        /\ \A i \in DOMAIN Tail(flight.todo) : Tail(flight.todo)[i] \in PageSet(flight.access)
    <3>1. ASSUME NEW s \in Seq(Nat), s # <<>>
          PROVE  Tail(s) \in Seq(Nat) /\ \A i \in DOMAIN Tail(s) : i + 1 \in DOMAIN s /\ Tail(s)[i] = s[i + 1]
      BY <3>1
    <3> QED
      BY <1>1, <1>2, <3>1 DEF Within
  <2>2. f \in Flight /\ f.access = flight.access /\ f.announced = flight.announced
        /\ f.todo = Tail(flight.todo)
    BY <1>2, <2>1 DEF InFlight, Flight
  <2>3. ~flight.access.cross => flight.todo = <<flight.access.page>>
    BY <1>1 DEF WellShaped
  <2>4. ~flight.access.cross => Tail(flight.todo) = <<>> /\ Head(flight.todo) = flight.access.page
    <3>1. \A p : Tail(<<p>>) = <<>> /\ Head(<<p>>) = p
      OBVIOUS
    <3> QED
      BY <2>3, <3>1
  <2> HIDE DEF f
  <2>5. From(f)
    BY <1>1, <1>3, <2>1, <2>2, <2>4 DEF From, Starts, Within, Ready
  <2> QED
    BY <1>3, <2>5, GuestPageMaps
<1>4. CASE Fault(flight)
  <2>1. PICK a \in Accesses : a = flight.access
    BY <1>1, FlightIs
  <2>2. PICK d \in BOOLEAN : d = flight.announced
    BY <1>1, FlightIs
  <2>3. a \in Access
    BY AccessFacts
  <2> QED
    BY <1>1, <1>4, <2>1, <2>2, <2>3, FaultMaps, Goes
<1> QED
  BY <1>3, <1>4 DEF InvalidHookReturns

\* A hit in the read TLB: nothing watches the page, and its entry is the page.
LEMMA FastReadMaps == ASSUME IInv, Blank, ReadFast PROVE Good /\ M!MemNext
<1>1. PICK a \in Accesses : ReadHit(a) /\ Observe(a, FALSE, <<Load(rtlb[Slot(a.page)].data)>>)
  BY DEF ReadFast
<1> DEFINE v == a.page
           s == Slot(v)
<1>2. /\ v \in Pages /\ v # NoVPN /\ s \in Slots /\ a.kind = "R" /\ ~a.cross /\ rtlb[s].vpn = v
      /\ a \in Access /\ a.end \in BOOLEAN /\ flight = Nothing
  BY <1>1, AccessFacts, EntryFacts, SlotRange DEF ReadHit, ReadFast, IInv, Access
<1>3. Allows("R", v) /\ rtlb[s].data = pageData(v) /\ ~hooksCoverPage("R", v)
  BY <1>2 DEF IInv, Caches, ReadCoherent
<1>4. ~Watched(a)
  BY <1>2, <1>3 DEF Watched, hooksCoverPage, AddrOf
<1>5. \A w \in PageSet(a) : Allows(a.kind, w)
  BY <1>2, <1>3 DEF PageSet
<1>6. Load(rtlb[s].data) = Content(v)
  <2>1. Mapped(v) /\ table[v] \in Objs /\ table[v] # ZeroPage
    BY <1>3, HeapFacts, DistinctAssumption DEF IInv
  <2>2. ~heap[table[v]].written => heap[table[v]].val = Zero
    BY <2>1 DEF Blank
  <2> QED
    BY <1>3, <2>1, <2>2 DEF Load, Content, pageData
<1>7. [i \in DOMAIN PagesOf(a) |-> Content(PagesOf(a)[i])] = <<Content(v)>>
  <2>1. PagesOf(a) = <<v>>
    BY <1>2 DEF PagesOf
  <2>2. \A w : [i \in DOMAIN <<w>> |-> Content(<<w>>[i])] = <<Content(w)>>
    OBVIOUS
  <2> QED
    BY <2>1, <2>2
<1>8. Observe(a, FALSE, IF a.kind = "W" THEN <<a.val>>
                        ELSE [i \in DOMAIN PagesOf(a) |-> Content(PagesOf(a)[i])])
  BY <1>1, <1>2, <1>6, <1>7
<1>9. UNCHANGED <<table, heap, hooks>> /\ flight' = Nothing
  BY <1>1 DEF ReadFast, Observe
<1>10. Good
  BY <1>9, BlankSame DEF Begun, Good
<1>11. MemSeen' = IF a.kind = "W" THEN StoredAt(PageSet(a), a.val) ELSE MemSeen
  BY <1>2, <1>9, MemSame
<1>12. M!Answer(a, FALSE)
  BY <1>4, <1>5, <1>8, <1>9, <1>11, Answers
<1> QED
  BY <1>2, <1>10, <1>12, Goes

LEMMA FastWriteMaps == ASSUME IInv, Blank, WriteFast PROVE Good /\ M!MemNext
<1>1. PICK a \in Accesses :
        /\ WriteHit(a) /\ Observe(a, FALSE, <<a.val>>)
        /\ heap' = [heap EXCEPT ![wtlb[Slot(a.page)].data].val = a.val]
  BY DEF WriteFast
<1> DEFINE v == a.page
           s == Slot(v)
<1>2. /\ v \in Pages /\ v # NoVPN /\ s \in Slots /\ a.kind = "W" /\ ~a.cross /\ wtlb[s].vpn = v
      /\ a \in Access /\ a.end \in BOOLEAN /\ flight = Nothing
  BY <1>1, AccessFacts, EntryFacts, SlotRange DEF WriteHit, WriteFast, IInv, Access
<1>3. Allows("W", v) /\ wtlb[s].data = table[v] /\ heap[table[v]].written /\ ~hooksCoverPage("W", v)
  BY <1>2 DEF IInv, Caches, WriteCoherent
<1>4. ~Watched(a)
  BY <1>2, <1>3 DEF Watched, hooksCoverPage, AddrOf
<1>5. \A w \in PageSet(a) : Allows(a.kind, w)
  BY <1>2, <1>3 DEF PageSet
<1>6. Mapped(v) /\ table[v] \in Objs /\ heap \in [Objs -> Page]
  BY <1>3, HeapFacts DEF IInv, TypeOK
<1>7. UNCHANGED <<table, hooks>> /\ flight' = Nothing
  BY <1>1 DEF WriteFast, Observe
<1>8. \A o \in Objs : heap'[o] = IF o = table[v] THEN [heap[o] EXCEPT !.val = a.val] ELSE heap[o]
  BY <1>1, <1>3, <1>6
<1>9. MemSeen' = StoredAt(PageSet(a), a.val)
  <2> SUFFICES ASSUME NEW w \in Pages
               PROVE  (MemAt(w))' = IF w \in PageSet(a) /\ Mapped(w)
                                    THEN [val |-> a.val, prot |-> heap[table[w]].prot] ELSE MemAt(w)
    BY DEF MemSeen, StoredAt
  <2>1. (Mapped(w))' <=> Mapped(w)
    BY <1>7 DEF Mapped, lookup
  <2>2. Mapped(w) => table[w] \in Objs /\ heap[table[w]] \in Page /\ table[w] # NoPage
    BY HeapFacts DEF IInv
  <2>3. w \in PageSet(a) <=> w = v
    BY <1>2 DEF PageSet
  <2>4. CASE w = v
    BY <1>6, <1>7, <1>8, <2>1, <2>2, <2>3, <2>4 DEF MemAt, Page
  <2>5. CASE w # v /\ Mapped(w)
    <3>1. table[w] # table[v]
      BY <1>2, <2>2, <2>5 DEF IInv, Unshared
    <3> QED
      BY <1>7, <1>8, <2>1, <2>2, <2>3, <2>5, <3>1 DEF MemAt
  <2>6. CASE ~Mapped(w)
    BY <2>1, <2>6 DEF MemAt
  <2> QED
    BY <2>4, <2>5, <2>6
<1>10. Good
  <2>1. Blank'
    BY <1>3, <1>6, <1>8, HeapFacts DEF Blank, Page
  <2> QED
    BY <1>7, <2>1 DEF Begun, Good
<1>11. Observe(a, FALSE, IF a.kind = "W" THEN <<a.val>>
                         ELSE [i \in DOMAIN PagesOf(a) |-> Content(PagesOf(a)[i])])
  BY <1>1, <1>2
<1>12. M!Answer(a, FALSE)
  BY <1>2, <1>4, <1>5, <1>7, <1>9, <1>11, Answers
<1> QED
  BY <1>2, <1>10, <1>12, Goes

LEMMA DivertMaps == ASSUME IInv, Blank, Begun, CodeHookDiverts PROVE Good /\ M!MemNext
<1>1. /\ flight # Nothing /\ ~flight.appealed /\ flight.access.kind = "X" /\ flight' = Nothing
      /\ obs' = Nothing /\ UNCHANGED <<table, heap, hooks>>
  BY DEF CodeHookDiverts
<1>2. Good
  BY <1>1, BlankSame DEF Begun, Good
<1>3. FlightSeen # Nothing /\ FlightSeen.access.kind = "X" /\ FlightSeen.announced /\ FlightSeen' = Nothing
  BY <1>1, FlightIs DEF Begun, FlightSeen
<1>4. MemSeen' = MemSeen
  BY <1>1, MemSame
<1>5. M!Abandon
  BY <1>1, <1>3, <1>4 DEF M!Abandon, MemSeen, MemAt, FlightSeen
<1> QED
  BY <1>2, <1>5 DEF M!MemNext

\* Steps that GuestMemory does not tell apart.
LEMMA OtherMaps ==
  ASSUME IInv, Blank, Begun, DropCode \/ Raise \/ Retire
  PROVE  Good /\ M!MemNext
<1>1. UNCHANGED <<table, hooks, flight>> /\ obs' = Nothing
  BY DEF DropCode, Raise, Retire
<1>2. \A o \in Objs : /\ heap'[o].val = heap[o].val /\ heap'[o].written = heap[o].written
                      /\ heap'[o].prot = heap[o].prot
  <2>1. CASE DropCode
    <3>1. \A o \in Objs : heap[o] \in Page
      BY HeapFacts DEF IInv
    <3> QED
      BY <2>1, <3>1 DEF DropCode, Page
  <2> QED
    BY <2>1 DEF Raise, Retire
<1>3. Good
  BY <1>1, <1>2, BlankSame DEF Begun, Within, Good
<1>4. MemSeen' = MemSeen /\ FlightSeen' = FlightSeen
  BY <1>1, <1>2, MemSame DEF FlightSeen
<1>5. M!HostOther
  BY <1>1, <1>4 DEF M!HostOther, MemSeen, MemAt, FlightSeen
<1> QED
  BY <1>3, <1>5 DEF M!MemNext

-----------------------------------------------------------------------------
(* The host's steps.                                                         *)

\* The page structs a range of pages refers to are those of no other page.
LEMMA RangeOwned ==
  ASSUME IInv, NEW lo \in Pages, NEW hi \in Pages, \A v \in lo .. hi : Mapped(v),
         NEW w \in Pages, Mapped(w)
  PROVE  table[w] \in {table[v] : v \in lo .. hi} <=> w \in lo .. hi
<1>1. \A v \in lo .. hi : v \in Pages
  BY HeapFacts DEF IInv
<1> QED
  BY <1>1, HeapFacts DEF IInv, Unshared

LEMMA MapMaps == ASSUME IInv, Blank, Begun, Map PROVE Good /\ M!MemNext
<1>1. PICK lo \in Pages, hi \in Pages, p \in Prots :
        /\ lo <= hi /\ \A v \in lo .. hi : ~Mapped(v)
        /\ \E f \in [lo .. hi -> Objs \ InUse] :
             /\ \A v, w \in lo .. hi : v # w => f[v] # f[w]
             /\ table' = [v \in Pages |-> IF v \in lo .. hi THEN f[v] ELSE table[v]]
             /\ heap' = [o \in Objs |-> IF o \in {f[v] : v \in lo .. hi} THEN FreshPage(p) ELSE heap[o]]
  BY Zenon DEF Map
<1>2. PICK f \in [lo .. hi -> Objs \ InUse] :
        /\ table' = [v \in Pages |-> IF v \in lo .. hi THEN f[v] ELSE table[v]]
        /\ heap' = [o \in Objs |-> IF o \in {f[v] : v \in lo .. hi} THEN FreshPage(p) ELSE heap[o]]
  BY <1>1
<1>3. UNCHANGED <<hooks, flight>> /\ obs' = Nothing
  BY DEF Map
<1>4. ASSUME NEW v \in Pages
      PROVE  (MemAt(v))' = IF v \in lo .. hi THEN [val |-> Zero, prot |-> p] ELSE MemAt(v)
  <2>1. CASE v \in lo .. hi
    <3>1. table'[v] = f[v] /\ f[v] \in Objs /\ f[v] # NoPage
      BY <1>2, <2>1, DistinctAssumption
    <3>2. heap'[f[v]] = FreshPage(p)
      BY <1>2, <2>1, <3>1
    <3>3. (Mapped(v))'
      BY <3>1 DEF Mapped, lookup
    <3> QED
      BY <2>1, <3>1, <3>2, <3>3 DEF MemAt, FreshPage
  <2>2. CASE v \notin lo .. hi /\ Mapped(v)
    <3>1. table'[v] = table[v] /\ table[v] \in Objs /\ table[v] \in InUse
      BY <1>2, <2>2, HeapFacts DEF InUse, IInv
    <3>2. heap'[table[v]] = heap[table[v]]
      BY <1>2, <3>1
    <3>3. (Mapped(v))'
      BY <2>2, <3>1 DEF Mapped, lookup
    <3> QED
      BY <2>2, <3>1, <3>2, <3>3 DEF MemAt
  <2>3. CASE v \notin lo .. hi /\ ~Mapped(v)
    <3>1. ~(Mapped(v))'
      BY <1>2, <2>3 DEF Mapped, lookup
    <3> QED
      BY <2>3, <3>1 DEF MemAt
  <2> QED
    BY <2>1, <2>2, <2>3
<1>5. MemSeen' = [v \in Pages |-> IF v \in lo .. hi THEN [val |-> Zero, prot |-> p] ELSE MemSeen[v]]
  BY <1>4 DEF MemSeen
<1>6. Good
  <2>1. Blank'
    BY <1>2 DEF Blank, FreshPage
  <2> QED
    BY <1>3, <2>1 DEF Begun, Within, Good
<1>7. M!HostMap
  <2>1. \A v \in lo .. hi : ~M!Mapped(v)
    BY <1>1, SameAnswers
  <2>2. FlightSeen' = FlightSeen
    BY <1>3 DEF FlightSeen
  <2>3. lo <= hi /\ lo \in M!Pages /\ hi \in M!Pages
    BY <1>1, SameWords
  <2> QED
    BY <1>3, <1>5, <2>1, <2>2, <2>3, SameWords DEF M!HostMap, MemSeen, MemAt, FlightSeen
<1> QED
  BY <1>6, <1>7 DEF M!MemNext

LEMMA UnmapMaps == ASSUME IInv, Blank, Begun, Unmap PROVE Good /\ M!MemNext
<1>1. PICK lo \in Pages, hi \in Pages :
        /\ lo <= hi /\ \A v \in lo .. hi : Mapped(v)
        /\ table' = [v \in Pages |-> IF v \in lo .. hi THEN NoPage ELSE table[v]]
  BY DEF Unmap
<1>2. UNCHANGED <<heap, hooks, flight>> /\ obs' = Nothing
  BY DEF Unmap
<1>3. ASSUME NEW v \in Pages
      PROVE  (MemAt(v))' = IF v \in lo .. hi THEN NoPage ELSE MemAt(v)
  BY <1>1, <1>2 DEF MemAt, Mapped, lookup
<1>4. MemSeen' = [v \in Pages |-> IF v \in lo .. hi THEN NoPage ELSE MemSeen[v]]
  BY <1>3 DEF MemSeen
<1>5. Good
  BY <1>2, BlankSame DEF Begun, Within, Good
<1>6. M!HostUnmap
  <2>1. \A v \in lo .. hi : M!Mapped(v)
    BY <1>1, SameAnswers
  <2>2. FlightSeen' = FlightSeen
    BY <1>2 DEF FlightSeen
  <2> QED
    BY <1>1, <1>2, <1>4, <2>1, <2>2, SameWords DEF M!HostUnmap, MemSeen, MemAt, FlightSeen
<1> QED
  BY <1>5, <1>6 DEF M!MemNext

LEMMA ProtectMaps == ASSUME IInv, Blank, Begun, Protect PROVE Good /\ M!MemNext
<1>1. PICK lo \in Pages, hi \in Pages, p \in Prots :
        /\ lo <= hi /\ \A v \in lo .. hi : Mapped(v)
        /\ heap' = [o \in Objs |-> IF o \in {table[v] : v \in lo .. hi}
                                   THEN [heap[o] EXCEPT !.prot = p] ELSE heap[o]]
  BY DEF Protect
<1>2. UNCHANGED <<table, hooks, flight>> /\ obs' = Nothing
  BY DEF Protect
<1>3. \A o \in Objs : heap[o] \in Page
  BY HeapFacts DEF IInv
<1>4. ASSUME NEW v \in Pages
      PROVE  (MemAt(v))' = IF v \in lo .. hi THEN [MemSeen[v] EXCEPT !.prot = p] ELSE MemSeen[v]
  <2>1. (Mapped(v))' <=> Mapped(v)
    BY <1>2 DEF Mapped, lookup
  <2>2. Mapped(v) => table[v] \in Objs
    BY HeapFacts DEF IInv
  <2>3. MemSeen[v] = MemAt(v)
    BY DEF MemSeen
  <2>4. CASE v \in lo .. hi
    <3>1. Mapped(v) /\ table[v] \in {table[w] : w \in lo .. hi}
      BY <1>1, <2>4
    <3>2. heap'[table[v]].val = heap[table[v]].val /\ heap'[table[v]].prot = p
      BY <1>1, <1>3, <2>2, <3>1 DEF Page
    <3> QED
      BY <1>2, <2>1, <2>3, <2>4, <3>1, <3>2 DEF MemAt
  <2>5. CASE v \notin lo .. hi /\ Mapped(v)
    <3>1. table[v] \notin {table[w] : w \in lo .. hi}
      BY <1>1, <2>5, RangeOwned
    <3>2. heap'[table[v]] = heap[table[v]]
      BY <1>1, <2>2, <2>5, <3>1
    <3> QED
      BY <1>2, <2>1, <2>3, <2>5, <3>2 DEF MemAt
  <2>6. CASE v \notin lo .. hi /\ ~Mapped(v)
    BY <2>1, <2>3, <2>6 DEF MemAt
  <2> QED
    BY <2>4, <2>5, <2>6
<1>5. MemSeen' = [v \in Pages |-> IF v \in lo .. hi THEN [MemSeen[v] EXCEPT !.prot = p] ELSE MemSeen[v]]
  BY <1>4 DEF MemSeen
<1>6. Good
  <2>1. \A o \in Objs : heap'[o].val = heap[o].val /\ heap'[o].written = heap[o].written
    BY <1>1, <1>3 DEF Page
  <2> QED
    BY <1>2, <2>1, BlankSame DEF Begun, Within, Good
<1>7. M!HostProtect
  <2>1. \A v \in lo .. hi : M!Mapped(v)
    BY <1>1, SameAnswers
  <2>2. FlightSeen' = FlightSeen
    BY <1>2 DEF FlightSeen
  <2> QED
    BY <1>1, <1>2, <1>5, <2>1, <2>2, SameWords DEF M!HostProtect, MemSeen, MemAt, FlightSeen
<1> QED
  BY <1>6, <1>7 DEF M!MemNext

LEMMA HostWriteMaps == ASSUME IInv, Blank, Begun, HostWrite PROVE Good /\ M!MemNext
<1>1. PICK lo \in Pages, hi \in Pages, x \in Vals :
        lo <= hi /\ (\A v \in lo .. hi : Mapped(v)) /\ heap' = Filled(lo .. hi, x)
  BY DEF HostWrite
<1>2. UNCHANGED <<table, hooks, flight>> /\ obs' = Nothing
  BY DEF HostWrite
<1>3. MemSeen' = M!Stored(lo .. hi, x)
  BY <1>1, <1>2, FilledSeen, StoredIs
<1>4. Good
  BY <1>1, <1>2, BlankFilled DEF Begun, Within, Good
<1>5. M!HostStore
  <2>1. \A v \in lo .. hi : M!Mapped(v)
    BY <1>1, SameAnswers
  <2>2. FlightSeen' = FlightSeen
    BY <1>2 DEF FlightSeen
  <2> QED
    BY <1>1, <1>2, <1>3, <2>1, <2>2, SameWords DEF M!HostStore, MemSeen, MemAt, FlightSeen
<1> QED
  BY <1>4, <1>5 DEF M!MemNext

LEMMA HooksMap == ASSUME IInv, Blank, Begun, AddHook \/ RemoveHook PROVE Good /\ M!MemNext
<1>1. UNCHANGED <<table, heap, flight>> /\ obs' = Nothing
  BY DEF AddHook, RemoveHook
<1>2. \E k \in Kinds, h \in HookRanges :
        hooks' = [hooks EXCEPT ![k] = IF h \in @ THEN @ \ {h} ELSE @ \cup {h}]
  <2>1. CASE AddHook
    <3>1. PICK k \in Kinds, h \in HookRanges : h \notin hooks[k] /\ hooks' = [hooks EXCEPT ![k] = @ \cup {h}]
      BY <2>1 DEF AddHook
    <3> QED
      BY <3>1
  <2>2. CASE RemoveHook
    <3>1. PICK k \in Kinds : \E h \in hooks[k] : hooks' = [hooks EXCEPT ![k] = @ \ {h}]
      BY <2>2 DEF RemoveHook
    <3>2. PICK h \in hooks[k] : hooks' = [hooks EXCEPT ![k] = @ \ {h}]
      BY <3>1
    <3>3. h \in HookRanges
      BY <3>1, <3>2 DEF IInv, TypeOK
    <3> QED
      BY <3>2, <3>3
  <2> QED
    BY <2>1, <2>2
<1>3. Good
  BY <1>1, BlankSame DEF Begun, Within, Good
<1>4. MemSeen' = MemSeen /\ FlightSeen' = FlightSeen
  BY <1>1, MemSame DEF FlightSeen
<1>5. M!HostHooks
  BY <1>1, <1>2, <1>4, SameWords DEF M!HostHooks, MemSeen, MemAt, FlightSeen
<1> QED
  BY <1>3, <1>5 DEF M!MemNext

LEMMA ReleaseMaps == ASSUME IInv, Blank, Begun, Release PROVE Good /\ M!MemNext
<1>1. /\ table' = [v \in Pages |-> NoPage] /\ hooks' = [k \in Kinds |-> {}] /\ obs' = Nothing
      /\ UNCHANGED <<heap, flight>>
  BY DEF Release
<1>2. Good
  BY <1>1, BlankSame DEF Begun, Within, Good
<1>3. MemSeen' = [v \in Pages |-> NoPage]
  BY <1>1 DEF MemSeen, MemAt, Mapped, lookup
<1>4. FlightSeen' = FlightSeen
  BY <1>1 DEF FlightSeen
<1>5. M!HostRelease
  BY <1>1, <1>3, <1>4, SameWords DEF M!HostRelease, MemSeen, MemAt, FlightSeen
<1> QED
  BY <1>2, <1>5 DEF M!MemNext

-----------------------------------------------------------------------------
(* The theorem.                                                              *)

LEMMA InitMaps == Init => Blank /\ Begun /\ M!MemInit
<1> SUFFICES ASSUME Init PROVE Blank /\ Begun /\ M!MemInit
  OBVIOUS
<1>1. Blank /\ Begun
  BY DEF Init, Blank, Begun, FreshPage
<1>2. MemSeen = [v \in Pages |-> NoPage]
  BY DEF Init, MemSeen, MemAt, Mapped, lookup
<1>3. FlightSeen = Nothing
  BY DEF Init, FlightSeen
<1>4. M!MemInit
  BY <1>2, <1>3, SameWords DEF Init, M!MemInit, MemSeen, MemAt, FlightSeen
<1> QED
  BY <1>1, <1>4

LEMMA StepMaps ==
  ASSUME IInv, Blank, Begun, [Next]_vars
  PROVE  Good /\ [M!MemNext]_(M!memVars)
<1>1. CASE Host
  BY <1>1, MapMaps, UnmapMaps, ProtectMaps, HostWriteMaps, OtherMaps, HooksMap, ReleaseMaps DEF Host
<1>2. CASE Guest
  BY <1>2, FastReadMaps, FastWriteMaps, SlowMaps, HandlerMaps, ReturnsMap, DivertMaps, OtherMaps DEF Guest
<1>3. CASE Retire
  BY <1>3, OtherMaps
<1>4. CASE UNCHANGED vars
  <2>1. UNCHANGED <<table, heap, hooks, flight, obs>>
    BY <1>4 DEF vars
  <2>2. Good
    BY <2>1, BlankSame DEF Begun, Within, Good
  <2>3. MemSeen' = MemSeen /\ FlightSeen' = FlightSeen
    BY <2>1, MemSame DEF FlightSeen
  <2>4. UNCHANGED M!memVars
    BY <2>1, <2>3 DEF M!memVars, MemSeen, MemAt, FlightSeen
  <2> QED
    BY <2>2, <2>4
<1> QED
  BY <1>1, <1>2, <1>3, <1>4 DEF Next

(* The invariant of this module: what reads as zero, and what an access in    *)
(* flight has left to do (mem.go, page and guestPage).                        *)
THEOREM Settled == Spec => [](Blank /\ Begun)
<1>1. Init => Blank /\ Begun
  BY InitMaps
<1>2. IInv /\ Blank /\ Begun /\ [Next]_vars => Blank' /\ Begun'
  BY StepMaps DEF Good
<1> QED
  BY <1>1, <1>2, Invariant, PTL DEF Spec

(* The caches of mem.go and cpu.go are transparent: every access completes,   *)
(* faults, and calls its hooks, as it would without them.                     *)
THEOREM Implements == Spec => ImplementsMemory
<1>1. Init => M!MemInit
  BY InitMaps
<1>2. IInv /\ Blank /\ Begun /\ [Next]_vars => [M!MemNext]_(M!memVars)
  BY StepMaps
<1> QED
  BY <1>1, <1>2, Invariant, Settled, PTL DEF Spec, ImplementsMemory, M!GuestMemorySpec
===============================================================================
