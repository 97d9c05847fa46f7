------------------------------ MODULE Relocations ------------------------------
(***************************************************************************)
(* The relocation tables of an ELF image and how the loader expands them    *)
(* (internal/loader/packed.go, the section loop of elf.go): plain REL and   *)
(* RELA, Android's packed APS2 stream and the RELR bitmaps.                 *)
(*                                                                         *)
(* Words are scaled as in Words: an address has XLEN bits, a slot is still  *)
(* eight bytes.  A byte of a LEB128 stream has GroupBits of payload below   *)
(* its continuation bit, chosen, like the seven of the code, so that the    *)
(* last byte of a full word is used in part; r_info splits at TypeBits.     *)
(***************************************************************************)
EXTENDS Words, Sequences, SequencesExt

GroupBits == 3
LastShift == 9            \* the code's 70: the groups that cover a word
TypeBits == XLEN \div 2
Slot == 8
maxPackedRelocs == 5

RELATIVE == 3
Zeroes == [a \in Word(XLEN) |-> 0]       \* no implicit addends

apsGroupedByInfo == 0     \* bit numbers of the group flags
apsGroupedByOffsetDelta == 1
apsGroupedByAddend == 2
apsGroupHasAddend == 3

-----------------------------------------------------------------------------
(* Signed LEB128.                                                            *)

Continues(c) == c >= 2^GroupBits
Payload(c) == c % 2^GroupBits

RECURSIVE slebFrom(_, _, _, _)
slebFrom(b, pos, shift, v) ==
  LET c == b[pos]
      w == IF shift < XLEN THEN Low(v + Payload(c) * 2^shift, XLEN) ELSE v
      after == shift + GroupBits
      val == IF after < XLEN THEN Signed(w, after) ELSE Signed(w, XLEN)
  IN CASE pos > Len(b) -> [ok |-> FALSE]
       [] pos <= Len(b) /\ ~Continues(c) -> [ok |-> TRUE, pos |-> pos + 1, val |-> val]
       [] OTHER -> IF after > LastShift THEN [ok |-> FALSE] ELSE slebFrom(b, pos + 1, after, w)

next(b, pos) == slebFrom(b, pos, 0, 0)

-----------------------------------------------------------------------------
(* APS2.  The decoder's state: position, the value read last, the stream's     *)
(* number of relocations, the group's flags and what the group shares, the     *)
(* running offset and addend, the entry's r_info, and what has been emitted.   *)

Started == [ok |-> TRUE, pos |-> 1, val |-> 0, total |-> 0, flags |-> 0, delta |-> 0, info |-> 0,
            step |-> 0, offset |-> 0, addend |-> 0, entry |-> 0, out |-> <<>>]

Taken(s, x) == IF x.ok THEN [s EXCEPT !.pos = x.pos, !.val = x.val] ELSE [s EXCEPT !.ok = FALSE]
Take(b, s) == IF s.ok THEN Taken(s, next(b, s.pos)) ELSE s

\* A field is read into the state when it is there.
Keep(field, s) == [s EXCEPT ![field] = s.val]
Read(b, present, field, otherwise, s) ==
  Keep(field, IF present THEN Take(b, s) ELSE [s EXCEPT !.val = otherwise])

has(s, flag) == BitOf(Low(s.flags, XLEN), flag) = 1

Reloc(offset, info, addend) ==
  [offset |-> offset, type |-> Low(info, TypeBits), sym |-> Lsr(Low(info, XLEN), TypeBits),
   addend |-> addend]

Moved(s) == [s EXCEPT !.offset = Low(@ + s.val, XLEN)]
Added(s) == [s EXCEPT !.addend = Low(@ + s.val, XLEN)]
Emit(implicit, s) ==
  IF ~s.ok THEN s
  ELSE [s EXCEPT !.out = Append(@, Reloc(s.offset, s.entry, IF has(s, apsGroupHasAddend) THEN s.addend
                                                            ELSE implicit[s.offset]))]

EntryOffset(b, s) == Moved(Read(b, ~has(s, apsGroupedByOffsetDelta), "val", s.delta, s))
EntryInfo(b, s) == Read(b, ~has(s, apsGroupedByInfo), "entry", s.info, s)
EntryAddend(b, s) ==
  Added(Read(b, has(s, apsGroupHasAddend) /\ ~has(s, apsGroupedByAddend), "val", 0, s))
Entry(b, implicit, s) == Emit(implicit, EntryAddend(b, EntryInfo(b, EntryOffset(b, s))))

(* The running addend a group starts from.  Mutant: it survives a group that   *)
(* has none.                                                                  *)
AddendKept(s) == Low(s.addend + s.step, XLEN)
AddendOf(s) == IF has(s, apsGroupHasAddend) THEN Low(s.addend + s.step, XLEN) ELSE 0

GroupDelta(b, s) == Read(b, has(s, apsGroupedByOffsetDelta), "delta", 0, s)
GroupInfo(b, s) == Read(b, has(s, apsGroupedByInfo), "info", 0, s)
GroupAddend(b, s) ==
  Read(b, has(s, apsGroupHasAddend) /\ has(s, apsGroupedByAddend), "step", 0, s)
GroupStart(s) == [s EXCEPT !.addend = AddendOf(s)]
Header(b, s) == GroupStart(GroupAddend(b, GroupInfo(b, GroupDelta(b, Read(b, TRUE, "flags", 0, s)))))

\* s has just read the group's size.
Sized(b, implicit, s) ==
  IF ~s.ok \/ s.val <= 0 \/ s.val > s.total - Len(s.out) THEN [s EXCEPT !.ok = FALSE]
  ELSE FoldLeft(LAMBDA t, k : Entry(b, implicit, t), Header(b, s), [k \in 1 .. s.val |-> k])

RECURSIVE Groups(_, _, _)
Groups(b, implicit, s) ==
  IF ~s.ok \/ Len(s.out) >= s.total THEN s
  ELSE Groups(b, implicit, Sized(b, implicit, Take(b, s)))

Opened(s) ==
  [s EXCEPT !.offset = Low(s.val, XLEN), !.ok = @ /\ s.total >= 0 /\ s.total <= maxPackedRelocs]
Decoded(s) == IF s.ok THEN [ok |-> TRUE, relocs |-> s.out] ELSE [ok |-> FALSE]

(* b is the stream after the magic.                                           *)
decodeAPS2(b, implicit) ==
  Decoded(Groups(b, implicit, Opened(Take(b, Read(b, TRUE, "total", 0, Started)))))

-----------------------------------------------------------------------------
(* RELR: an even word is an address, an odd word a bitmap of the slots that    *)
(* follow the cursor.                                                         *)

decodeRELR(words, implicit) ==
  LET emit(out, at) == Append(out, Reloc(at, RELATIVE, implicit[at]))
      address(s, e) == [where |-> Low(e + Slot, XLEN), out |-> emit(s.out, e)]
      bitmap(s, e) ==
        LET slots == SelectSeq([k \in 1 .. XLEN - 1 |-> k], LAMBDA k : BitOf(e, k) = 1)
            bit(out, k) == emit(out, Low(s.where + Slot * (k - 1), XLEN))
        IN [where |-> Low(s.where + (XLEN - 1) * Slot, XLEN), out |-> FoldLeft(bit, s.out, slots)]
      word(s, e) == IF e % 2 = 0 THEN address(s, e) ELSE bitmap(s, e)
  IN FoldLeft(word, [where |-> 0, out |-> <<>>], words).out

decodeREL(entries, implicit) ==
  [k \in DOMAIN entries |-> Reloc(entries[k].offset, entries[k].info, implicit[entries[k].offset])]

decodeRELA(entries) ==
  [k \in DOMAIN entries |-> Reloc(entries[k].offset, entries[k].info, entries[k].addend)]

(* The word the file holds at an address, 0 past every segment's file part.    *)
implicitAddendFunc(segments, file) ==
  [a \in Word(XLEN) |->
     IF \E p \in segments : a >= p.vaddr /\ a + Slot <= p.vaddr + p.filesz THEN file[a] ELSE 0]

(* All sections in their order; a bad packed stream fails the image.           *)
RelocsOf(sections, implicit) ==
  LET of(sec) == CASE sec.type = "RELA" -> [ok |-> TRUE, relocs |-> decodeRELA(sec.data)]
                   [] sec.type = "ANDROID_RELA" -> decodeAPS2(sec.data, Zeroes)
                   [] sec.type = "ANDROID_REL" -> decodeAPS2(sec.data, implicit)
                   [] sec.type = "RELR" -> [ok |-> TRUE, relocs |-> decodeRELR(sec.data, implicit)]
                   [] OTHER -> [ok |-> TRUE, relocs |-> decodeREL(sec.data, implicit)]
      join(s, x) == IF s.ok /\ x.ok THEN [ok |-> TRUE, relocs |-> s.relocs \o x.relocs]
                    ELSE [ok |-> FALSE]
  IN FoldLeft(LAMBDA s, sec : join(s, of(sec)), [ok |-> TRUE, relocs |-> <<>>], sections)
=============================================================================
