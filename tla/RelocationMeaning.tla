--------------------------- MODULE RelocationMeaning ---------------------------
(***************************************************************************)
(* What the relocation tables of Relocations say: an encoder that writes    *)
(* them, and the relocations a table stands for, as sums over the entries    *)
(* that come before.                                                        *)
(***************************************************************************)
EXTENDS Relocations, FiniteSetsExt

Limit(n) == 2^(GroupBits * n - 1)
Enc(v) ==
  LET n == CHOOSE k \in 1 .. 4 : /\ 0 - Limit(k) <= v /\ v < Limit(k)
                                 /\ k = 1 \/ ~(0 - Limit(k - 1) <= v /\ v < Limit(k - 1))
  IN [k \in 1 .. n |-> Low(Lsr(Low(v, GroupBits * n), GroupBits * (k - 1)), GroupBits)
                       + IF k < n THEN 2^GroupBits ELSE 0]

Sum(f(_), S) == MapThenFoldSet(LAMBDA x, y : x + y, 0, f, LAMBDA T : CHOOSE x \in T : TRUE, S)

(* A stream's first number: its groups up to the first byte that ends it.      *)
SlebRight(b) ==
  LET ends == {k \in DOMAIN b : ~Continues(b[k])}
      n == Min(ends)
      all == Sum(LAMBDA k : Payload(b[k]) * 2^(GroupBits * (k - 1)), 1 .. n)
      x == next(b, 1)
  IN IF ends = {} \/ (IF ends = {} THEN TRUE ELSE n > 4) THEN ~x.ok
     ELSE x = [ok |-> TRUE, pos |-> n + 1,
               val |-> Signed(Low(Signed(all, GroupBits * n), XLEN), XLEN)]

-----------------------------------------------------------------------------
(* APS2: groups of entries [d, i, a]; a flag says what the group shares.       *)

sharing(g, f) == BitOf(g.flags, f) = 1
Field(flag, v) == IF flag THEN Enc(v) ELSE <<>>

EncGroup(g) ==
  LET entry(e) == Field(~sharing(g, apsGroupedByOffsetDelta), e.d) \o Field(~sharing(g, apsGroupedByInfo), e.i)
                  \o Field(sharing(g, apsGroupHasAddend) /\ ~sharing(g, apsGroupedByAddend), e.a)
  IN Enc(Len(g.entries)) \o Enc(g.flags)
     \o Field(sharing(g, apsGroupedByOffsetDelta), g.delta) \o Field(sharing(g, apsGroupedByInfo), g.info)
     \o Field(sharing(g, apsGroupHasAddend) /\ sharing(g, apsGroupedByAddend), g.addend)
     \o FlattenSeq([k \in DOMAIN g.entries |-> entry(g.entries[k])])

Encode(first, groups) ==
  Enc(Sum(LAMBDA j : Len(groups[j].entries), DOMAIN groups)) \o Enc(first)
  \o FlattenSeq([j \in DOMAIN groups |-> EncGroup(groups[j])])

(* The relocations, in order: entry k of group j.                              *)
Meant(first, groups, implicit) ==
  LET upTo(j, k) == {p \in (DOMAIN groups) \X (1 .. 5) :
                       p[2] <= Len(groups[p[1]].entries) /\ (p[1] < j \/ (p[1] = j /\ p[2] <= k))}
      e(p) == groups[p[1]].entries[p[2]]
      moved(p) == IF sharing(groups[p[1]], apsGroupedByOffsetDelta) THEN groups[p[1]].delta ELSE e(p).d
      bare == {i \in DOMAIN groups : ~sharing(groups[i], apsGroupHasAddend)}
      since(j) == {i \in 1 .. j : \A b \in bare : b <= j => i > b}
      shared(i) == IF sharing(groups[i], apsGroupedByAddend) THEN groups[i].addend ELSE 0
      own(p) == IF p[1] \in bare \/ sharing(groups[p[1]], apsGroupedByAddend) THEN 0 ELSE e(p).a
      addend(j, k) == Sum(shared, since(j)) + Sum(own, {p \in upTo(j, k) : p[1] \in since(j)})
      reloc(j, k) ==
        LET at == Low(first + Sum(moved, upTo(j, k)), XLEN)
            info == Low(IF sharing(groups[j], apsGroupedByInfo) THEN groups[j].info ELSE e(<<j, k>>).i, XLEN)
        IN [offset |-> at, type |-> info % 2^TypeBits, sym |-> info \div 2^TypeBits,
            addend |-> IF j \in bare THEN implicit[at] ELSE Low(addend(j, k), XLEN)]
  IN FlattenSeq([j \in DOMAIN groups |-> [k \in DOMAIN groups[j].entries |-> reloc(j, k)]])

(* Decoded whole it is what was meant; cut short anywhere it is refused.       *)
PackedRight(first, groups, implicit) ==
  LET b == Encode(first, groups)
  IN /\ decodeAPS2(b, implicit) = [ok |-> TRUE, relocs |-> Meant(first, groups, implicit)]
     /\ \A n \in 0 .. Len(b) - 1 : ~decodeAPS2(SubSeq(b, 1, n), implicit).ok

-----------------------------------------------------------------------------
(* RELR: bit j of the n-th bitmap after an address a is a + Slot + ...         *)
Bitmaps(words, implicit) ==
  LET addresses(k) == {j \in 1 .. k - 1 : words[j] % 2 = 0}
      anchor(k) == IF addresses(k) = {} THEN 0 ELSE words[Max(addresses(k))] + Slot
      before(k) == IF addresses(k) = {} THEN k - 1 ELSE k - 1 - Max(addresses(k))
      slots(k) == {((XLEN - 1) * before(k) + j - 1) * Slot : j \in {i \in 1 .. XLEN - 1 : BitOf(words[k], i) = 1}}
      at(k) == IF words[k] % 2 = 0 THEN <<words[k]>>
               ELSE LET order == SetToSortSeq(slots(k), LAMBDA x, y : x < y)
                    IN [n \in DOMAIN order |-> Low(anchor(k) + order[n], XLEN)]
      all == FlattenSeq([k \in DOMAIN words |-> at(k)])
  IN [n \in DOMAIN all |-> [offset |-> all[n], type |-> RELATIVE, sym |-> 0,
                            addend |-> implicit[all[n]]]]

BitmapsRight(words, implicit) == decodeRELR(words, implicit) = Bitmaps(words, implicit)

-----------------------------------------------------------------------------
(* An image: sections as written in the file, over segments whose file part    *)
(* holds the given words.  A packed section is given by its groups.            *)

Packs(sec) == sec.type \in {"ANDROID_REL", "ANDROID_RELA"}
Written(sec) == [type |-> sec.type, data |-> IF Packs(sec) THEN Encode(24, sec.groups) ELSE sec.data]

ImageRight(sections, segments, file) ==
  LET stored == [a \in Word(XLEN) |->
        IF \E p \in segments : a .. a + 7 \subseteq p.vaddr .. p.vaddr + p.filesz - 1 THEN file[a] ELSE 0]
      plain(e, addend) == [offset |-> e.offset, type |-> e.info % 2^TypeBits,
                           sym |-> e.info \div 2^TypeBits, addend |-> addend]
      of(sec) == CASE sec.type = "ANDROID_RELA" -> Meant(24, sec.groups, [a \in Word(XLEN) |-> 0])
                   [] sec.type = "ANDROID_REL" -> Meant(24, sec.groups, stored)
                   [] sec.type = "RELR" -> Bitmaps(sec.data, stored)
                   [] sec.type = "REL" -> [k \in DOMAIN sec.data |-> plain(sec.data[k], stored[sec.data[k].offset])]
                   [] OTHER -> [k \in DOMAIN sec.data |-> plain(sec.data[k], sec.data[k].addend)]
      image == [k \in DOMAIN sections |-> Written(sections[k])]
      implicit == implicitAddendFunc(segments, file)
  IN /\ RelocsOf(image, implicit)
          = [ok |-> TRUE, relocs |-> FlattenSeq([k \in DOMAIN sections |-> of(sections[k])])]
     /\ \A k \in DOMAIN image : Packs(sections[k]) =>
          ~RelocsOf([image EXCEPT ![k].data = SubSeq(@, 1, Len(@) - 1)], implicit).ok
=============================================================================
