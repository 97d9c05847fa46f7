------------------------------ MODULE PageCache ------------------------------
(***************************************************************************)
(* The interpreter's guest memory (internal/arm64/mem.go) and the fetch and *)
(* hook part of its run loop (cpu.go): a page table in front of which sit a *)
(* read and a write TLB, a cache of decoded pages and the page execution is *)
(* on, each a place where an answer can go stale.                           *)
(*                                                                         *)
(* Go's heap is explicit where identity matters: a page struct and its      *)
(* backing array are one member of Objs (the array is allocated at most     *)
(* once), a codePage is a member of Codes.  A page holds one value and, as  *)
(* code, one instruction; an address is the page's start or its end.        *)
(* Hooks run host code inside an access: `flight` is the access they        *)
(* interrupt, and every host operation below may happen meanwhile.          *)
(***************************************************************************)
EXTENDS Integers, Sequences, FiniteSets

CONSTANTS
  NumPages,     \* pages are 0 .. NumPages - 1
  TlbSize, CtlbSize,
  Objs,         \* page structs
  NoPage,       \* nil in the page table
  ZeroPage,     \* the shared zeroPage array
  Codes, NoCode,
  Vals, Zero,
  NotDecoded,   \* an instruction slot not decoded yet
  Prots,        \* protections the host uses
  HookRanges,   \* address sets hooks are installed on
  MaxHooks,     \* bound on hooks installed at once
  Nothing

Kinds == {"R", "W", "X"}

ASSUME SizesAssumption ==
  /\ NumPages \in Nat /\ TlbSize \in Nat \ {0} /\ CtlbSize \in Nat \ {0}
  /\ MaxHooks \in Nat

ASSUME DistinctAssumption ==
  /\ NoPage \notin Objs /\ ZeroPage \notin Objs /\ NoCode \notin Codes
  /\ Zero \in Vals /\ NotDecoded \notin Vals /\ Prots \subseteq SUBSET Kinds

VARIABLES
  table,    \* the radix table: page number -> page
  heap,     \* the pages: content, written (data # nil), prot, code
  decoded,  \* the code pages: the page they decode, the instruction
  rtlb, wtlb, ctlb,
  fetch,    \* fetchVPN and fetchCode
  hooks,    \* rhooks, whooks and codeHooks
  flight,   \* the access a callback interrupts
  obs       \* the last completed access and what it read or stored (<<>>: a
            \* fault), Nothing after any other step

caches == <<rtlb, wtlb, ctlb, fetch>>
vars == <<table, heap, decoded, caches, hooks, flight, obs>>

Pages == 0 .. NumPages - 1
NoVPN == -1
Slots == 0 .. TlbSize - 1
CSlots == 0 .. CtlbSize - 1
Slot(v) == v % TlbSize
CSlot(v) == v % CtlbSize

Page == [val : Vals, written : BOOLEAN, prot : SUBSET Kinds, code : Codes \cup {NoCode}]
FreshPage(p) == [val |-> Zero, written |-> FALSE, prot |-> p, code |-> NoCode]

CodePage == [pg : Objs \cup {NoPage}, inst : Vals \cup {NotDecoded}]
NoEntry == [vpn |-> NoVPN, data |-> ZeroPage]
NoCodeEntry == [vpn |-> NoVPN, code |-> NoCode]

Access == [kind : Kinds, page : Pages, end : BOOLEAN, cross : BOOLEAN, val : Vals]
AddrOf(a) == <<a.page, a.end>>
PagesOf(a) == IF a.cross THEN <<a.page, a.page + 1>> ELSE <<a.page>>

\* Only an access at a page's end crosses, an instruction never does, and a
\* value is only of interest to a store.
Accesses ==
  {a \in Access : /\ a.cross => a.end /\ a.kind # "X"
                  /\ a.kind # "W" => a.val = Zero}

ASSUME NothingAssumption ==
  /\ NoPage \notin [val : Vals, prot : SUBSET Kinds]
  /\ Nothing \notin [access : Access, announced : BOOLEAN, appealed : BOOLEAN]
  /\ Nothing \notin [access : Access, announced : BOOLEAN, appealed : BOOLEAN, todo : Seq(Nat)]

Init ==
  /\ table = [v \in Pages |-> NoPage]
  /\ heap = [o \in Objs |-> FreshPage({})]
  /\ decoded = [c \in Codes |-> [pg |-> NoPage, inst |-> NotDecoded]]
  /\ rtlb = [s \in Slots |-> NoEntry] /\ wtlb = [s \in Slots |-> NoEntry]
  /\ ctlb = [s \in CSlots |-> NoCodeEntry] /\ fetch = NoCodeEntry
  /\ hooks = [k \in Kinds |-> {}]
  /\ flight = Nothing /\ obs = Nothing

-----------------------------------------------------------------------------
(* The page table.                                                           *)

lookup(v) == IF v \in Pages THEN table[v] ELSE NoPage
Mapped(v) == lookup(v) # NoPage
Allows(k, v) == Mapped(v) /\ k \in heap[table[v]].prot
InUse == {table[v] : v \in Pages} \ {NoPage}

flushTLB ==
  /\ rtlb' = [s \in Slots |-> NoEntry] /\ wtlb' = [s \in Slots |-> NoEntry]
  /\ ctlb' = [s \in CSlots |-> NoCodeEntry] /\ fetch' = NoCodeEntry

Map ==
  /\ \E lo, hi \in Pages, p \in Prots :
       /\ lo <= hi /\ \A v \in lo .. hi : ~Mapped(v)
       /\ \E f \in [lo .. hi -> Objs \ InUse] :
            /\ \A v, w \in lo .. hi : v # w => f[v] # f[w]
            /\ table' = [v \in Pages |-> IF v \in lo .. hi THEN f[v] ELSE table[v]]
            /\ heap' = [o \in Objs |-> IF o \in {f[v] : v \in lo .. hi} THEN FreshPage(p)
                                                                     ELSE heap[o]]
  /\ obs' = Nothing
  /\ UNCHANGED <<decoded, caches, hooks, flight>>

UnmapNoFlush ==
  /\ \E lo, hi \in Pages :
       /\ lo <= hi /\ \A v \in lo .. hi : Mapped(v)
       /\ table' = [v \in Pages |-> IF v \in lo .. hi THEN NoPage ELSE table[v]]
  /\ obs' = Nothing
  /\ UNCHANGED <<heap, decoded, caches, hooks, flight>>

Unmap ==
  /\ \E lo, hi \in Pages :
       /\ lo <= hi /\ \A v \in lo .. hi : Mapped(v)
       /\ table' = [v \in Pages |-> IF v \in lo .. hi THEN NoPage ELSE table[v]]
  /\ flushTLB /\ obs' = Nothing
  /\ UNCHANGED <<heap, decoded, hooks, flight>>

Protect ==
  /\ \E lo, hi \in Pages, p \in Prots :
       /\ lo <= hi /\ \A v \in lo .. hi : Mapped(v)
       /\ heap' = [o \in Objs |-> IF o \in {table[v] : v \in lo .. hi}
                                  THEN [heap[o] EXCEPT !.prot = p] ELSE heap[o]]
  /\ flushTLB /\ obs' = Nothing
  /\ UNCHANGED <<table, decoded, hooks, flight>>

-----------------------------------------------------------------------------
(* Stores: writable on each page of vs, then the value.  The first write to  *)
(* a page allocates its array and drops the read entry that shows the zero   *)
(* page; decoded instructions go, from the page and from where they are      *)
(* cached.                                                                   *)

Backed(vs) == {v \in vs : Mapped(v)}

NewData(v) == Mapped(v) /\ ~heap[table[v]].written
HasCode(v) == Mapped(v) /\ heap[table[v]].code # NoCode

Filled(vs, x) ==
  [o \in Objs |-> IF o \in {table[v] : v \in Backed(vs)}
                  THEN [heap[o] EXCEPT !.val = x, !.written = TRUE, !.code = NoCode]
                  ELSE heap[o]]

DropRead(vs) ==
  [s \in Slots |-> IF rtlb[s].vpn \in vs /\ NewData(rtlb[s].vpn) THEN NoEntry ELSE rtlb[s]]

dropCodeKeepsCache(vs) ==
  /\ ctlb' = ctlb
  /\ fetch' = IF fetch.vpn \in vs /\ HasCode(fetch.vpn) THEN NoCodeEntry ELSE fetch

dropCode(vs) ==
  /\ ctlb' = [s \in CSlots |-> IF ctlb[s].vpn \in vs /\ HasCode(ctlb[s].vpn)
                               THEN NoCodeEntry ELSE ctlb[s]]
  /\ fetch' = IF fetch.vpn \in vs /\ HasCode(fetch.vpn) THEN NoCodeEntry ELSE fetch

HostWrite ==
  /\ \E lo, hi \in Pages, x \in Vals :
       /\ lo <= hi /\ \A v \in lo .. hi : Mapped(v)
       /\ heap' = Filled(lo .. hi, x)
       /\ rtlb' = DropRead(lo .. hi) /\ dropCode(lo .. hi)
  /\ obs' = Nothing
  /\ UNCHANGED <<table, decoded, wtlb, hooks, flight>>

DropCode ==
  /\ heap' = [o \in Objs |-> [heap[o] EXCEPT !.code = NoCode]]
  /\ ctlb' = [s \in CSlots |-> NoCodeEntry] /\ fetch' = NoCodeEntry
  /\ obs' = Nothing
  /\ UNCHANGED <<table, decoded, rtlb, wtlb, hooks, flight>>

-----------------------------------------------------------------------------
(* Hooks come and go; the read and write ones flush when they come.          *)

AddHookNoFlush ==
  /\ Cardinality(UNION {{k} \X hooks[k] : k \in Kinds}) < MaxHooks
  /\ \E k \in Kinds, h \in HookRanges :
       /\ h \notin hooks[k]
       /\ hooks' = [hooks EXCEPT ![k] = @ \cup {h}]
  /\ obs' = Nothing
  /\ UNCHANGED <<table, heap, decoded, caches, flight>>

AddHook ==
  /\ Cardinality(UNION {{k} \X hooks[k] : k \in Kinds}) < MaxHooks
  /\ \E k \in Kinds, h \in HookRanges :
       /\ h \notin hooks[k]
       /\ hooks' = [hooks EXCEPT ![k] = @ \cup {h}]
       /\ IF k = "X" THEN UNCHANGED caches ELSE flushTLB
  /\ obs' = Nothing
  /\ UNCHANGED <<table, heap, decoded, flight>>

RemoveHook ==
  /\ \E k \in Kinds : \E h \in hooks[k] : hooks' = [hooks EXCEPT ![k] = @ \ {h}]
  /\ obs' = Nothing
  /\ UNCHANGED <<table, heap, decoded, caches, flight>>

Watched(a) == \E h \in hooks[a.kind] : AddrOf(a) \in h
hooksCoverPage(k, v) == \E h \in hooks[k] : \E e \in BOOLEAN : <<v, e>> \in h

Release ==
  /\ flight = Nothing
  /\ table' = [v \in Pages |-> NoPage] /\ hooks' = [k \in Kinds |-> {}]
  /\ flushTLB /\ obs' = Nothing
  /\ UNCHANGED <<heap, decoded, flight>>

-----------------------------------------------------------------------------
(* Completing a guest access.                                                *)

Observe(a, d, r) ==
  /\ obs' = [access |-> a, announced |-> d, result |-> r]
  /\ flight' = Nothing

Content(v) == IF Mapped(v) THEN heap[table[v]].val ELSE Zero
pageDataNil(v) == IF heap[table[v]].written THEN table[v] ELSE NoPage
pageData(v) == IF heap[table[v]].written THEN table[v] ELSE ZeroPage
Cacheable(a, d) == ~a.cross /\ ~d /\ ~hooksCoverPage(a.kind, a.page)

readSlow(a, d) ==
  /\ a.kind = "R"
  /\ Observe(a, d, [i \in DOMAIN PagesOf(a) |-> Content(PagesOf(a)[i])])
  /\ rtlb' = IF Cacheable(a, d)
             THEN [rtlb EXCEPT ![Slot(a.page)] = [vpn |-> a.page, data |-> pageData(a.page)]]
             ELSE rtlb
  /\ UNCHANGED <<table, heap, decoded, wtlb, ctlb, fetch, hooks>>

writeSlow(a, d) ==
  /\ a.kind = "W"
  /\ LET vs == {PagesOf(a)[i] : i \in DOMAIN PagesOf(a)}
     IN /\ heap' = Filled(vs, a.val)
        /\ rtlb' = DropRead(vs) /\ dropCode(vs)
  /\ wtlb' = IF Cacheable(a, d)
             THEN [wtlb EXCEPT ![Slot(a.page)] = [vpn |-> a.page, data |-> table[a.page]]]
             ELSE wtlb
  /\ Observe(a, d, <<a.val>>)
  /\ UNCHANGED <<table, decoded, hooks>>

(* fetch: the page execution is on (forgotten when a code hook has run), the *)
(* cache, the page's own decoded instructions, or a new codePage.            *)
OnPage(v, d) == ~d /\ fetch.vpn = v
CacheHit(v) == ctlb[CSlot(v)].vpn = v
FreshCodes == Codes \ ({heap[o].code : o \in Objs} \cup {ctlb[s].code : s \in CSlots}
                       \cup {fetch.code})

CodeFor(v, d) ==
  IF OnPage(v, d) THEN {fetch.code}
  ELSE IF CacheHit(v) THEN {ctlb[CSlot(v)].code}
  ELSE IF heap[table[v]].code # NoCode THEN {heap[table[v]].code} ELSE FreshCodes

NewCode(v, d) == ~OnPage(v, d) /\ ~CacheHit(v) /\ heap[table[v]].code = NoCode

EvictWriteNever(v) == wtlb
EvictWrite(v) == [wtlb EXCEPT ![Slot(v)] = IF @.vpn = v THEN NoEntry ELSE @]

fetchPage(v, d, c) ==
  /\ heap' = IF NewCode(v, d) THEN [heap EXCEPT ![table[v]].code = c] ELSE heap
  /\ wtlb' = IF NewCode(v, d) THEN EvictWrite(v) ELSE wtlb
  /\ ctlb' = IF OnPage(v, d) \/ CacheHit(v) THEN ctlb
             ELSE [ctlb EXCEPT ![CSlot(v)] = [vpn |-> v, code |-> c]]
  /\ fetch' = [vpn |-> v, code |-> c]
  /\ UNCHANGED <<table, rtlb, hooks>>

CodeRecord(v, d, c) ==
  IF NewCode(v, d) THEN [pg |-> table[v], inst |-> NotDecoded] ELSE decoded[c]

\* Decode on first use, and execute.
execute(a, d) ==
  /\ a.kind = "X"
  /\ \E c \in CodeFor(a.page, d) :
       LET r == CodeRecord(a.page, d, c)
           x == IF r.inst = NotDecoded THEN heap[r.pg].val ELSE r.inst
       IN /\ fetchPage(a.page, d, c)
          /\ decoded' = [decoded EXCEPT ![c] = [r EXCEPT !.inst = x]]
          /\ Observe(a, d, <<x>>)

-----------------------------------------------------------------------------
(* Guest accesses, from callback to callback.  f is the access in flight:    *)
(* `todo` are the pages guestPage has still to resolve.                      *)

InFlight(a, d, t) == [access |-> a, announced |-> d, appealed |-> FALSE, todo |-> t]

Resolved(f, i) ==
  \/ Allows(f.access.kind, f.todo[i])
  \/ f.access.kind = "X" /\ (OnPage(f.todo[i], f.announced) \/ CacheHit(f.todo[i]))

Blocked(f) == {i \in DOMAIN f.todo : ~Resolved(f, i)}

\* The hook sees the access before the page is resolved again; a fetch has
\* already found its code.
Announce(f) ==
  LET a == f.access
  IN /\ flight' = InFlight(a, TRUE, IF a.cross THEN <<>> ELSE <<a.page>>)
     /\ obs' = Nothing
     /\ IF a.kind = "X"
        THEN \E c \in CodeFor(a.page, FALSE) :
               /\ fetchPage(a.page, FALSE, c)
               /\ decoded' = [decoded EXCEPT ![c] = CodeRecord(a.page, FALSE, c)]
        ELSE UNCHANGED <<table, heap, decoded, caches, hooks>>

\* fetchVPN is reset once code hooks have run.
StillOn(f) == IF f.access.kind = "X" /\ f.announced THEN NoCodeEntry ELSE fetch

Appeal(f) ==
  /\ \E i \in Blocked(f) :
       /\ \A j \in Blocked(f) : i <= j
       /\ flight' = [f EXCEPT !.appealed = TRUE, !.todo = SubSeq(f.todo, i, Len(f.todo))]
  /\ fetch' = StillOn(f) /\ obs' = Nothing
  /\ UNCHANGED <<table, heap, decoded, rtlb, wtlb, ctlb, hooks>>

Fault(f) ==
  /\ Observe(f.access, f.announced, <<>>)
  /\ fetch' = StillOn(f)
  /\ UNCHANGED <<table, heap, decoded, rtlb, wtlb, ctlb, hooks>>

guestPage(f) ==
  IF Blocked(f) # {} THEN Appeal(f) \/ Fault(f)
  ELSE IF Watched(f.access) /\ ~f.announced THEN Announce(f)
  ELSE \/ readSlow(f.access, f.announced)
       \/ writeSlow(f.access, f.announced)
       \/ execute(f.access, f.announced)

ReadHit(a) == a.kind = "R" /\ ~a.cross /\ rtlb[Slot(a.page)].vpn = a.page
WriteHit(a) == a.kind = "W" /\ ~a.cross /\ wtlb[Slot(a.page)].vpn = a.page
Load(d) == IF d = ZeroPage THEN Zero ELSE heap[d].val

ReadFast ==
  /\ flight = Nothing
  /\ \E a \in Accesses :
       ReadHit(a) /\ Observe(a, FALSE, <<Load(rtlb[Slot(a.page)].data)>>)
  /\ UNCHANGED <<table, heap, decoded, caches, hooks>>

WriteFast ==
  /\ flight = Nothing
  /\ \E a \in Accesses :
       /\ WriteHit(a) /\ Observe(a, FALSE, <<a.val>>)
       /\ heap' = [heap EXCEPT ![wtlb[Slot(a.page)].data].val = a.val]
  /\ UNCHANGED <<table, decoded, caches, hooks>>

AccessSlow ==
  /\ flight = Nothing
  /\ \E a \in Accesses :
       /\ ~ReadHit(a) /\ ~WriteHit(a)
       /\ guestPage(InFlight(a, FALSE, PagesOf(a)))

\* The invalid-access hook returns; guestPage retries once.
InvalidHookReturns ==
  /\ flight # Nothing /\ flight.appealed
  /\ \E handled \in BOOLEAN :
       IF handled /\ Allows(flight.access.kind, Head(flight.todo))
       THEN guestPage(InFlight(flight.access, flight.announced, Tail(flight.todo)))
       ELSE Fault(flight)

HookReturnsUnresolved ==
  /\ flight # Nothing /\ ~flight.appealed
  /\ guestPage([flight EXCEPT !.todo = <<>>])

HookReturns ==
  /\ flight # Nothing /\ ~flight.appealed
  /\ guestPage(flight)

\* A code hook stopped the CPU or moved PC.
CodeHookDiverts ==
  /\ flight # Nothing /\ ~flight.appealed /\ flight.access.kind = "X"
  /\ flight' = Nothing /\ fetch' = NoCodeEntry /\ obs' = Nothing
  /\ UNCHANGED <<table, heap, decoded, rtlb, wtlb, ctlb, hooks>>

\* An exception: the interrupt hooks have run.
Raise ==
  /\ flight = Nothing
  /\ fetch' = NoCodeEntry /\ obs' = Nothing
  /\ UNCHANGED <<table, heap, decoded, rtlb, wtlb, ctlb, hooks, flight>>

Host == Map \/ Unmap \/ Protect \/ HostWrite \/ DropCode \/ AddHook \/ RemoveHook
        \/ Release

Guest == ReadFast \/ WriteFast \/ AccessSlow \/ InvalidHookReturns \/ HookReturns
         \/ CodeHookDiverts \/ Raise

\* The instruction takes its answer.
Retire == obs # Nothing /\ obs' = Nothing /\ UNCHANGED <<table, heap, decoded, caches, hooks, flight>>

Next == (obs = Nothing /\ (Host \/ Guest)) \/ Retire

Spec == Init /\ [][Next]_vars

-----------------------------------------------------------------------------
(* Properties.                                                               *)

Entry == [vpn : Pages, data : Objs \cup {ZeroPage}] \cup {NoEntry}
CodeEntry == [vpn : Pages, code : Codes] \cup {NoCodeEntry}
Flight == [access : Accesses, announced : BOOLEAN, appealed : BOOLEAN, todo : Seq(Nat)]

TypeOK ==
  /\ table \in [Pages -> Objs \cup {NoPage}]
  /\ heap \in [Objs -> Page]
  /\ decoded \in [Codes -> CodePage]
  /\ rtlb \in [Slots -> Entry] /\ wtlb \in [Slots -> Entry]
  /\ ctlb \in [CSlots -> CodeEntry] /\ fetch \in CodeEntry
  /\ hooks \in [Kinds -> SUBSET HookRanges] 
  /\ flight = Nothing \/ flight \in Flight

(* What the TLBs say is what the page table would answer now: the page is     *)
(* mapped, permits the access, backs it with this very array, and no hook     *)
(* watches any address of it.                                                 *)
TlbCoherent ==
  /\ \A s \in Slots : rtlb[s].vpn # NoVPN =>
       LET v == rtlb[s].vpn
       IN Slot(v) = s /\ Allows("R", v) /\ rtlb[s].data = pageData(v)
          /\ ~hooksCoverPage("R", v)
  /\ \A s \in Slots : wtlb[s].vpn # NoVPN =>
       LET v == wtlb[s].vpn
       IN Slot(v) = s /\ Allows("W", v) /\ heap[table[v]].written
          /\ wtlb[s].data = table[v] /\ ~hooksCoverPage("W", v)

(* "a page whose instructions have been decoded is never in the write TLB".   *)
DecodedNotWritable ==
  \A s \in Slots : wtlb[s].vpn # NoVPN => ~HasCode(wtlb[s].vpn)

(* Wherever execution can find decoded instructions, they belong to a mapped, *)
(* executable page and are those of its present content.                      *)
CodeCurrent ==
  /\ \A e \in {ctlb[s] : s \in CSlots} \cup {fetch} : e.vpn # NoVPN =>
       Allows("X", e.vpn) /\ heap[table[e.vpn]].code = e.code
  /\ \A v \in Pages : HasCode(v) =>
       LET r == decoded[heap[table[v]].code]
       IN r.pg = table[v] /\ r.inst \in {NotDecoded, heap[table[v]].val}

M == INSTANCE GuestMemory WITH
       Absent <- NoPage,
       mem <- [v \in Pages |-> IF Mapped(v) THEN [val |-> heap[table[v]].val,
                                                  prot |-> heap[table[v]].prot]
                                            ELSE NoPage],
       flight <- IF flight = Nothing THEN Nothing
                 ELSE [access |-> flight.access, announced |-> flight.announced,
                       appealed |-> flight.appealed]

(* The caches are transparent: every access answers, faults and calls its     *)
(* hooks as in GuestMemory, which has none.                                   *)
ImplementsMemory == M!GuestMemorySpec
=============================================================================
