--------------------------- MODULE MCAddressSpace ----------------------------
(***************************************************************************)
(* Instances of AddressSpace for TLC.                                       *)
(***************************************************************************)
EXTENDS AddressSpace, TLC

(* A page of data, or two pages of text, which a guest may unmap in part.      *)
MCData == {[lo |-> 0, size |-> 1, prot |-> {"R", "W"}]}
MCLongText == {[lo |-> 0, size |-> 2, prot |-> {"R", "X"}]}

Kind(ps, b, n) == [prots |-> ps, boot |-> b, calls |-> n]

MCGuests == ({} :> Kind({{"R", "W"}, {}}, 2, 3)) @@ (AllHabits :> Kind({{"R", "W"}}, 1, 2))
MCShrinks == {"shrink"} :> Kind({{"R", "W"}, {"R"}}, 2, 3)
=============================================================================
