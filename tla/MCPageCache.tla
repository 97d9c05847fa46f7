----------------------------- MODULE MCPageCache -----------------------------
(***************************************************************************)
(* An instance of PageCache for TLC: two pages that share every cache slot. *)
(***************************************************************************)
EXTENDS PageCache, TLC

MCProts == {{"R", "W", "X"}, {"R"}}

(* A hook on one address of page 0, where accesses that cross start.          *)
MCHookRanges == {{<<0, TRUE>>}}

(* Page structs and code pages are interchangeable.                           *)
Renamings == Permutations(Objs) \cup Permutations(Codes)

(* What is left of a page struct or a code page nothing refers to any more    *)
(* does not tell states apart: the next Map, or the next decoding, sets all   *)
(* of it.                                                                     *)
Cached == {ctlb[s].code : s \in CSlots} \cup {fetch.code}
LivePages == InUse \cup {rtlb[s].data : s \in Slots} \cup {wtlb[s].data : s \in Slots}
             \cup {decoded[c].pg : c \in Cached \cap Codes}
LiveCodes == Cached \cup {heap[o].code : o \in LivePages \cap Objs}

Reachable ==
  <<table, [o \in LivePages \cap Objs |-> heap[o]], [c \in LiveCodes \cap Codes |-> decoded[c]],
    caches, hooks, flight, obs>>
=============================================================================
