----------------------------- MODULE GuestMemory -----------------------------
(***************************************************************************)
(* What the interpreter's memory promises: pages with a protection and a    *)
(* content, accesses that see what is there when they complete, and hooks   *)
(* that miss no access they watch.  There is no cache of any kind.          *)
(*                                                                         *)
(* A hook runs caller code in the middle of an access: `flight` is the      *)
(* access it interrupts, and meanwhile the host may map, unmap, protect,    *)
(* write, and add or remove hooks.                                          *)
(***************************************************************************)
EXTENDS Integers

CONSTANTS
  NumPages,    \* pages are 0 .. NumPages - 1
  Vals, Zero,  \* page contents, and the content of a page never written
  Prots,       \* protections: subsets of Kinds
  HookRanges,  \* the address sets hooks watch
  Absent,      \* not mapped
  Nothing      \* no access in flight, nothing observed

VARIABLES mem, hooks, flight, obs

memVars == <<mem, hooks, flight, obs>>

Kinds == {"R", "W", "X"}              \* load, store, fetch
Pages == 0 .. NumPages - 1

(* An access: its kind, page, whether it starts at the page's end (the other  *)
(* address modelled is its start) and goes on to the next page, and the value *)
(* stored.                                                                    *)
Access == [kind : Kinds, page : Pages, end : BOOLEAN, cross : BOOLEAN, val : Vals]

AddrOf(a) == <<a.page, a.end>>
PagesOf(a) == IF a.cross THEN <<a.page, a.page + 1>> ELSE <<a.page>>

Mapped(v) == v \in Pages /\ mem[v] # Absent
Allows(k, v) == Mapped(v) /\ k \in mem[v].prot
Allowed(a) == \A i \in DOMAIN PagesOf(a) : Allows(a.kind, PagesOf(a)[i])
Watched(a) == \E h \in hooks[a.kind] : AddrOf(a) \in h

Content(v) == IF Mapped(v) THEN mem[v].val ELSE Zero

MemInit ==
  /\ mem = [v \in Pages |-> Absent] /\ hooks = [k \in Kinds |-> {}]
  /\ flight = Nothing /\ obs = Nothing

HostMap ==
  /\ \E lo, hi \in Pages, p \in Prots :
       /\ lo <= hi /\ \A v \in lo .. hi : ~Mapped(v)
       /\ mem' = [v \in Pages |-> IF v \in lo .. hi THEN [val |-> Zero, prot |-> p]
                                                   ELSE mem[v]]
  /\ obs' = Nothing /\ UNCHANGED <<hooks, flight>>

HostUnmap ==
  /\ \E lo, hi \in Pages :
       /\ lo <= hi /\ \A v \in lo .. hi : Mapped(v)
       /\ mem' = [v \in Pages |-> IF v \in lo .. hi THEN Absent ELSE mem[v]]
  /\ obs' = Nothing /\ UNCHANGED <<hooks, flight>>

HostProtect ==
  /\ \E lo, hi \in Pages, p \in Prots :
       /\ lo <= hi /\ \A v \in lo .. hi : Mapped(v)
       /\ mem' = [v \in Pages |-> IF v \in lo .. hi THEN [mem[v] EXCEPT !.prot = p]
                                                   ELSE mem[v]]
  /\ obs' = Nothing /\ UNCHANGED <<hooks, flight>>

Stored(vs, x) ==
  [v \in Pages |-> IF v \in vs /\ Mapped(v) THEN [mem[v] EXCEPT !.val = x] ELSE mem[v]]

HostStore ==
  /\ \E lo, hi \in Pages, x \in Vals :
       /\ lo <= hi /\ \A v \in lo .. hi : Mapped(v)
       /\ mem' = Stored(lo .. hi, x)
  /\ obs' = Nothing /\ UNCHANGED <<hooks, flight>>

HostHooks ==
  /\ \E k \in Kinds, h \in HookRanges :
       hooks' = [hooks EXCEPT ![k] = IF h \in @ THEN @ \ {h} ELSE @ \cup {h}]
  /\ obs' = Nothing /\ UNCHANGED <<mem, flight>>

HostRelease ==
  /\ mem' = [v \in Pages |-> Absent] /\ hooks' = [k \in Kinds |-> {}]
  /\ obs' = Nothing /\ UNCHANGED flight

\* What else the host or an exception does leaves memory and hooks alone.
HostOther == obs' = Nothing /\ UNCHANGED <<mem, hooks, flight>>

(* An access stops at a callback: a hook that watches it, or the handler of   *)
(* an access that is not allowed.                                             *)
Interrupt(a, announced, appealed) ==
  /\ flight' = [access |-> a, announced |-> announced, appealed |-> appealed]
  /\ obs' = Nothing /\ UNCHANGED <<mem, hooks>>

Announce(a) == Watched(a) /\ Interrupt(a, TRUE, FALSE)
Appeal(a, announced) == ~Allowed(a) /\ Interrupt(a, announced, TRUE)

(* It completes on the pages as they are now, and only once the hooks that    *)
(* watch it have run.  When a callback takes a page away from an access that  *)
(* crosses into the next one, that part reads as zero and is not stored.      *)
Answer(a, announced) ==
  /\ announced \/ ~Watched(a)
  /\ Allowed(a) \/ (a.cross /\ flight # Nothing)
  /\ mem' = IF a.kind = "W" THEN Stored({PagesOf(a)[i] : i \in DOMAIN PagesOf(a)}, a.val)
                            ELSE mem
  /\ obs' = [access |-> a, announced |-> announced,
             result |-> IF a.kind = "W" THEN <<a.val>>
                        ELSE [i \in DOMAIN PagesOf(a) |-> Content(PagesOf(a)[i])]]
  /\ flight' = Nothing /\ UNCHANGED hooks

(* It faults when a page is missing or protected, also when the handler       *)
(* declines although it mended the page.                                      *)
Refuse(a, announced) ==
  /\ ~Allowed(a) \/ (flight # Nothing /\ flight.appealed)
  /\ obs' = [access |-> a, announced |-> announced, result |-> <<>>]
  /\ flight' = Nothing /\ UNCHANGED <<mem, hooks>>

(* A fetch hook may also stop the CPU or move its PC: nothing is executed.    *)
Abandon ==
  /\ flight # Nothing /\ flight.access.kind = "X" /\ flight.announced
  /\ flight' = Nothing /\ obs' = Nothing /\ UNCHANGED <<mem, hooks>>

GuestAccess ==
  /\ flight = Nothing
  /\ \E a \in Access : Announce(a) \/ Appeal(a, FALSE) \/ Answer(a, FALSE) \/ Refuse(a, FALSE)

Continue ==
  /\ flight # Nothing
  /\ LET a == flight.access
         d == flight.announced
     IN \/ ~d /\ Announce(a)
        \/ Appeal(a, d) \/ Answer(a, d) \/ Refuse(a, d)

MemNext ==
  \/ HostMap \/ HostUnmap \/ HostProtect \/ HostStore \/ HostHooks \/ HostRelease
  \/ HostOther \/ GuestAccess \/ Continue \/ Abandon

GuestMemorySpec == MemInit /\ [][MemNext]_memVars
=============================================================================
