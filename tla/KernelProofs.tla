----------------------------- MODULE KernelProofs -----------------------------
(***************************************************************************)
(* The kernel's descriptors, the overlay and the snapshots of both, for any  *)
(* number of descriptors, paths and snapshots and any contents.             *)
(*                                                                         *)
(* The descriptors in use and those in each snapshot are sound by the       *)
(* overlay of their own time (Sound), but what a reader shares is a prefix  *)
(* of the overlay's file as it is now, in a snapshot too (Views): a write   *)
(* changes the array under the snapshot's reader.  What a snapshot was when *)
(* it was taken differs from what it is by those bytes only (Alike).        *)
(***************************************************************************)
EXTENDS KernelFiles, SequenceTheorems, TLAPS

Contents == [Paths -> Seq(Vals) \cup {Absent}]

(* Descriptors, the next number and the overlay that go together.             *)
Sound(fs, next, w) ==
  /\ next \in FirstFd .. FirstFd + MaxFd /\ w \in Contents
  /\ DOMAIN fs \subseteq Fds /\ fs \in [DOMAIN fs -> OpenFile]
  /\ \A fd \in DOMAIN fs : fd < next
  /\ \A fd \in DOMAIN fs : fs[fd].writable => w[fs[fd].path] \in Seq(Vals) /\ ~fs[fd].shares

Others(ds, ex, r) == ds \subseteq Paths /\ ex \in BOOLEAN /\ r \in 0 .. MaxRand \cup {Absent}

Prefix(a, b) == Len(a) <= Len(b) /\ \A i \in 1 .. Len(a) : a[i] = b[i]

Views(fs, w) ==
  \A fd \in DOMAIN fs : fs[fd].shares => w[fs[fd].path] \in Seq(Vals) /\ Prefix(fs[fd].data, w[fs[fd].path])

(* gs is fs, but for the bytes some readers shared and for who shares still.  *)
Alike(gs, fs) ==
  /\ DOMAIN gs = DOMAIN fs
  /\ \A fd \in DOMAIN fs :
       /\ gs[fd].path = fs[fd].path /\ gs[fd].pos = fs[fd].pos /\ gs[fd].writable = fs[fd].writable
       /\ gs[fd].shares => fs[fd].shares
       /\ fs[fd].shares \/ gs[fd].data = fs[fd].data

Live == Sound(files, nextFd, wfiles) /\ Others(dirs, exited, rng) /\ Views(files, wfiles)

Keeps(t, was) ==
  /\ t = [files |-> t.files, nextFd |-> t.nextFd, wfiles |-> t.wfiles, dirs |-> t.dirs,
          exited |-> t.exited, rng |-> t.rng]
  /\ Sound(t.files, t.nextFd, t.wfiles) /\ Others(t.dirs, t.exited, t.rng)
  /\ Alike(t.files, was.files)
  /\ t.nextFd = was.nextFd /\ t.wfiles = was.wfiles /\ t.dirs = was.dirs
  /\ t.exited = was.exited /\ t.rng = was.rng

Kept ==
  /\ DOMAIN snaps = Snaps /\ DOMAIN taken = Snaps
  /\ \A s \in Snaps : snaps[s] # Absent => Keeps(snaps[s], taken[s]) /\ Views(snaps[s].files, wfiles)

(* Only a writable descriptor owns its file.                                  *)
Owned ==
  /\ streams \subseteq DOMAIN files
  /\ \A fd \in streams : files[fd].writable /\ files[fd].pos = Len(wfiles[files[fd].path])

IInv == Live /\ Kept /\ Owned /\ panicked \in BOOLEAN

-----------------------------------------------------------------------------
(* Contents.                                                                 *)

(* A store at a position: how long what it leaves is, and what it holds.      *)
LEMMA Overlays ==
  ASSUME NEW old \in Seq(Vals), NEW pos \in Nat, NEW d \in Seq(Vals)
  PROVE  /\ Overlaid(old, pos, d) \in Seq(Vals)
         /\ Len(old) > pos + Len(d) => Len(Overlaid(old, pos, d)) = Len(old)
         /\ ~(Len(old) > pos + Len(d)) => Len(Overlaid(old, pos, d)) = pos + Len(d)
         /\ \A i \in 1 .. Len(Overlaid(old, pos, d)) :
              Overlaid(old, pos, d)[i] = IF i > pos /\ i <= pos + Len(d) THEN d[i - pos]
                                         ELSE IF i <= Len(old) THEN old[i] ELSE 0
<1> DEFINE n == IF Len(old) > pos + Len(d) THEN Len(old) ELSE pos + Len(d)
           at(i) == IF i > pos /\ i <= pos + Len(d) THEN d[i - pos] ELSE IF i <= Len(old) THEN old[i] ELSE 0
<1>1. Len(old) \in Nat /\ Len(d) \in Nat /\ n \in Nat
  OBVIOUS
<1>2. \A i \in 1 .. n : at(i) \in Vals
  <2> SUFFICES ASSUME NEW i \in 1 .. n PROVE at(i) \in Vals
    OBVIOUS
  <2>1. CASE i > pos /\ i <= pos + Len(d)
    BY <1>1, <2>1, i - pos \in 1 .. Len(d), ElementOfSeq
  <2>2. CASE ~(i > pos /\ i <= pos + Len(d)) /\ i <= Len(old)
    BY <1>1, <2>2, i \in 1 .. Len(old), ElementOfSeq
  <2>3. CASE ~(i > pos /\ i <= pos + Len(d)) /\ ~(i <= Len(old))
    BY <2>3 DEF Vals
  <2> QED
    BY <2>1, <2>2, <2>3
<1>3. Overlaid(old, pos, d) = [i \in 1 .. n |-> at(i)]
  BY DEF Overlaid
<1> HIDE DEF at
<1>4. n = IF Len(old) > pos + Len(d) THEN Len(old) ELSE pos + Len(d)
  OBVIOUS
<1> HIDE DEF n
<1>5. [i \in 1 .. n |-> at(i)] \in Seq(Vals) /\ Len([i \in 1 .. n |-> at(i)]) = n
  BY <1>1, <1>2
<1>6. \A i \in 1 .. n : Overlaid(old, pos, d)[i] = at(i)
  BY <1>3
<1> QED
  BY <1>3, <1>4, <1>5, <1>6 DEF at

(* What is a prefix, as the operator that takes it says.                      *)
LEMMA PrefixIsSubSeq ==
  ASSUME NEW a \in Seq(Vals), NEW b \in Seq(Vals), Prefix(a, b)
  PROVE  a = SubSeq(b, 1, Len(a))
<1>1. Len(a) \in Nat /\ Len(b) \in Nat /\ Len(a) <= Len(b) /\ \A i \in 1 .. Len(a) : a[i] = b[i]
  BY DEF Prefix
<1>2. \A i \in 1 .. Len(a) : b[i] \in Vals
  BY <1>1, ElementOfSeq
<1>3. /\ SubSeq(b, 1, Len(a)) \in Seq(Vals) /\ Len(SubSeq(b, 1, Len(a))) = Len(a)
      /\ \A i \in 1 .. Len(a) : SubSeq(b, 1, Len(a))[i] = b[i]
  BY <1>1, <1>2, SubSeqProperties
<1> QED
  BY <1>1, <1>3, SeqEqual

(* A store that fits leaves a prefix a prefix when both take it.              *)
LEMMA OverlaidPrefix ==
  ASSUME NEW a \in Seq(Vals), NEW b \in Seq(Vals), Prefix(a, b), NEW pos \in Nat, NEW d \in Seq(Vals),
         Len(b) >= pos + Len(d)
  PROVE  /\ SubSeq(Overlaid(a, pos, d), 1, Len(a)) \in Seq(Vals)
         /\ Prefix(SubSeq(Overlaid(a, pos, d), 1, Len(a)), Overlaid(b, pos, d))
<1> DEFINE x == Overlaid(a, pos, d)
           y == Overlaid(b, pos, d)
<1>1. /\ x \in Seq(Vals) /\ y \in Seq(Vals) /\ Len(a) \in Nat /\ Len(b) \in Nat /\ Len(d) \in Nat
      /\ Len(a) <= Len(b) /\ Len(y) = Len(b) /\ Len(x) >= Len(a)
  BY Overlays DEF Prefix
<1>2. \A i \in 1 .. Len(a) : x[i] = y[i] /\ x[i] \in Vals
  <2> SUFFICES ASSUME NEW i \in 1 .. Len(a) PROVE x[i] = y[i] /\ x[i] \in Vals
    OBVIOUS
  <2>1. i \in 1 .. Len(x) /\ i \in 1 .. Len(y) /\ a[i] = b[i]
    BY <1>1 DEF Prefix
  <2>2. /\ x[i] = IF i > pos /\ i <= pos + Len(d) THEN d[i - pos] ELSE IF i <= Len(a) THEN a[i] ELSE 0
        /\ y[i] = IF i > pos /\ i <= pos + Len(d) THEN d[i - pos] ELSE IF i <= Len(b) THEN b[i] ELSE 0
    BY <2>1, Overlays
  <2> HIDE DEF x, y
  <2> QED
    BY <1>1, <2>1, <2>2, ElementOfSeq
<1> HIDE DEF x, y
<1>3. /\ SubSeq(x, 1, Len(a)) \in Seq(Vals) /\ Len(SubSeq(x, 1, Len(a))) = Len(a)
      /\ \A i \in 1 .. Len(a) : SubSeq(x, 1, Len(a))[i] = x[i]
  BY <1>1, <1>2, SubSeqProperties
<1> QED
  BY <1>1, <1>2, <1>3 DEF Prefix, x, y

LEMMA AppendedPrefix ==
  ASSUME NEW a \in Seq(Vals), NEW b \in Seq(Vals), NEW d \in Seq(Vals), Prefix(a, b)
  PROVE  Prefix(a, b \o d)
BY ConcatProperties DEF Prefix

LEMMA PrefixOfItself == \A a \in Seq(Vals) : Prefix(a, a)
BY DEF Prefix

-----------------------------------------------------------------------------
(* Descriptors.                                                              *)

LEMMA AlikeSame == \A fs : Alike(fs, fs)
BY DEF Alike

LEMMA AlikeTrans ==
  ASSUME NEW fs, NEW gs, NEW hs, Alike(gs, fs), Alike(hs, gs)
  PROVE  Alike(hs, fs)
BY DEF Alike

(* Descriptors that are alike, with their types, are as sound.                *)
LEMMA AlikeSound ==
  ASSUME NEW fs, NEW gs, NEW next, NEW w, Sound(fs, next, w), Alike(gs, fs), gs \in [DOMAIN gs -> OpenFile]
  PROVE  Sound(gs, next, w)
BY DEF Sound, Alike

LEMMA PartedAlike ==
  ASSUME NEW fs, fs \in [DOMAIN fs -> OpenFile], NEW p
  PROVE  /\ Parted(fs, p) \in [DOMAIN Parted(fs, p) -> OpenFile] /\ Alike(Parted(fs, p), fs)
         /\ \A fd \in DOMAIN fs : Parted(fs, p)[fd].shares => fs[fd].shares /\ fs[fd].path # p
         /\ \A fd \in DOMAIN fs : Parted(fs, p)[fd].data = fs[fd].data
<1>1. DOMAIN Parted(fs, p) = DOMAIN fs
  BY DEF Parted
<1>2. ASSUME NEW fd \in DOMAIN fs
      PROVE  /\ Parted(fs, p)[fd] \in OpenFile
             /\ Parted(fs, p)[fd].path = fs[fd].path /\ Parted(fs, p)[fd].pos = fs[fd].pos
             /\ Parted(fs, p)[fd].writable = fs[fd].writable /\ Parted(fs, p)[fd].data = fs[fd].data
             /\ Parted(fs, p)[fd].shares => fs[fd].shares /\ fs[fd].path # p
  <2>1. fs[fd] \in OpenFile
    OBVIOUS
  <2>2. CASE fs[fd].path = p
    <3>1. Parted(fs, p)[fd] = [fs[fd] EXCEPT !.shares = FALSE]
      BY <2>2 DEF Parted
    <3> QED
      BY <2>1, <3>1 DEF OpenFile
  <2>3. CASE fs[fd].path # p
    BY <2>1, <2>3 DEF Parted
  <2> QED
    BY <2>2, <2>3
<1>3. Parted(fs, p) = [fd \in DOMAIN fs |-> Parted(fs, p)[fd]]
  BY DEF Parted
<1> QED
  BY <1>1, <1>2, <1>3 DEF Alike

LEMMA CopiedAlike ==
  ASSUME NEW fs, fs \in [DOMAIN fs -> OpenFile]
  PROVE  /\ Copied(fs) \in [DOMAIN Copied(fs) -> OpenFile] /\ Alike(Copied(fs), fs)
         /\ \A fd \in DOMAIN fs : ~Copied(fs)[fd].shares
<1>1. DOMAIN Copied(fs) = DOMAIN fs /\ \A fd \in DOMAIN fs : Copied(fs)[fd] = [fs[fd] EXCEPT !.shares = FALSE]
  BY DEF Copied
<1>2. ASSUME NEW fd \in DOMAIN fs
      PROVE  /\ Copied(fs)[fd] \in OpenFile
             /\ Copied(fs)[fd].path = fs[fd].path /\ Copied(fs)[fd].pos = fs[fd].pos
             /\ Copied(fs)[fd].writable = fs[fd].writable /\ Copied(fs)[fd].data = fs[fd].data
             /\ ~Copied(fs)[fd].shares
  BY <1>1 DEF OpenFile
<1>3. Copied(fs) = [fd \in DOMAIN fs |-> Copied(fs)[fd]]
  BY DEF Copied
<1> QED
  BY <1>1, <1>2, <1>3 DEF Alike

(* A write in the array: the readers that share it go on sharing a prefix.    *)
LEMMA SeenAlike ==
  ASSUME NEW fs, fs \in [DOMAIN fs -> OpenFile], NEW w, Views(fs, w), NEW p, w[p] \in Seq(Vals),
         NEW pos \in Nat, NEW d \in Seq(Vals), Len(w[p]) >= pos + Len(d)
  PROVE  /\ Seen(fs, p, pos, d) \in [DOMAIN Seen(fs, p, pos, d) -> OpenFile]
         /\ Alike(Seen(fs, p, pos, d), fs)
         /\ \A fd \in DOMAIN fs : Seen(fs, p, pos, d)[fd].shares /\ fs[fd].path = p =>
              Prefix(Seen(fs, p, pos, d)[fd].data, Overlaid(w[p], pos, d))
         /\ \A fd \in DOMAIN fs : fs[fd].path # p => Seen(fs, p, pos, d)[fd] = fs[fd]
<1> DEFINE gs == Seen(fs, p, pos, d)
           cut(f) == SubSeq(Overlaid(f.data, pos, d), 1, Len(f.data))
<1>1. /\ DOMAIN gs = DOMAIN fs /\ gs = [fd \in DOMAIN fs |-> gs[fd]]
      /\ \A fd \in DOMAIN fs :
           gs[fd] = IF fs[fd].path = p /\ fs[fd].shares THEN [fs[fd] EXCEPT !.data = cut(fs[fd])] ELSE fs[fd]
  BY DEF Seen
<1> HIDE DEF gs, cut
<1>2. ASSUME NEW fd \in DOMAIN fs
      PROVE  /\ gs[fd] \in OpenFile
             /\ gs[fd].path = fs[fd].path /\ gs[fd].pos = fs[fd].pos /\ gs[fd].writable = fs[fd].writable
             /\ gs[fd].shares => fs[fd].shares
             /\ fs[fd].shares \/ gs[fd].data = fs[fd].data
             /\ gs[fd].shares /\ fs[fd].path = p => Prefix(gs[fd].data, Overlaid(w[p], pos, d))
             /\ fs[fd].path # p => gs[fd] = fs[fd]
  <2>1. fs[fd] \in OpenFile
    OBVIOUS
  <2>2. CASE fs[fd].path = p /\ fs[fd].shares
    <3>1. gs[fd] = [fs[fd] EXCEPT !.data = cut(fs[fd])]
      BY <1>1, <2>2
    <3>2. fs[fd].data \in Seq(Vals) /\ Prefix(fs[fd].data, w[p])
      BY <2>1, <2>2 DEF Views, OpenFile
    <3>3. cut(fs[fd]) \in Seq(Vals) /\ Prefix(cut(fs[fd]), Overlaid(w[p], pos, d))
      BY <3>2, OverlaidPrefix DEF cut
    <3> QED
      BY <2>1, <2>2, <3>1, <3>3 DEF OpenFile
  <2>3. CASE ~(fs[fd].path = p /\ fs[fd].shares)
    <3>1. gs[fd] = fs[fd]
      BY <1>1, <2>3
    <3> QED
      BY <2>1, <2>3, <3>1
  <2> QED
    BY <2>2, <2>3
<1> QED
  BY <1>1, <1>2 DEF gs, Alike

(* What the readers see of p's file after each kind of write to it.           *)
LEMMA PartedViews ==
  ASSUME NEW fs, fs \in [DOMAIN fs -> OpenFile], NEW w \in Contents, Views(fs, w), NEW p \in Paths, NEW c
  PROVE  Views(Parted(fs, p), [w EXCEPT ![p] = c])
<1>1. \A q \in Paths : q # p => [w EXCEPT ![p] = c][q] = w[q]
  BY DEF Contents
<1> QED
  BY <1>1, PartedAlike DEF Views, Alike, OpenFile

LEMMA SeenViews ==
  ASSUME NEW fs, fs \in [DOMAIN fs -> OpenFile], NEW w \in Contents, Views(fs, w),
         NEW p \in Paths, w[p] \in Seq(Vals),
         NEW pos \in Nat, NEW d \in Seq(Vals), Len(w[p]) >= pos + Len(d)
  PROVE  Views(Seen(fs, p, pos, d), [w EXCEPT ![p] = Overlaid(w[p], pos, d)])
<1> DEFINE v == [w EXCEPT ![p] = Overlaid(w[p], pos, d)]
           gs == Seen(fs, p, pos, d)
<1>1. v[p] = Overlaid(w[p], pos, d) /\ v[p] \in Seq(Vals) /\ \A q \in Paths : q # p => v[q] = w[q]
  BY Overlays DEF Contents
<1>2. /\ Alike(gs, fs) /\ \A fd \in DOMAIN fs : fs[fd].path # p => gs[fd] = fs[fd]
      /\ \A fd \in DOMAIN fs : gs[fd].shares /\ fs[fd].path = p => Prefix(gs[fd].data, v[p])
  BY <1>1, SeenAlike
<1> HIDE DEF v, gs
<1>3. Views(gs, v)
  <2> SUFFICES ASSUME NEW fd \in DOMAIN gs, gs[fd].shares
               PROVE  v[gs[fd].path] \in Seq(Vals) /\ Prefix(gs[fd].data, v[gs[fd].path])
    BY DEF Views
  <2>1. fd \in DOMAIN fs /\ gs[fd].path = fs[fd].path /\ fs[fd].shares /\ fs[fd].path \in Paths
    BY <1>2 DEF Alike, OpenFile
  <2>2. CASE fs[fd].path = p
    BY <1>1, <1>2, <2>1, <2>2
  <2>3. CASE fs[fd].path # p
    BY <1>1, <1>2, <2>1, <2>3 DEF Views
  <2> QED
    BY <2>2, <2>3
<1> QED
  BY <1>3 DEF v, gs

LEMMA AppendedViews ==
  ASSUME NEW fs, fs \in [DOMAIN fs -> OpenFile], NEW w \in Contents, Views(fs, w),
         NEW p \in Paths, w[p] \in Seq(Vals), NEW d \in Seq(Vals)
  PROVE  Views(fs, [w EXCEPT ![p] = w[p] \o d])
<1> DEFINE v == [w EXCEPT ![p] = w[p] \o d]
<1>1. v[p] = w[p] \o d /\ v[p] \in Seq(Vals) /\ \A q \in Paths : q # p => v[q] = w[q]
  BY ConcatProperties DEF Contents
<1> HIDE DEF v
<1>2. Views(fs, v)
  <2> SUFFICES ASSUME NEW fd \in DOMAIN fs, fs[fd].shares
               PROVE  v[fs[fd].path] \in Seq(Vals) /\ Prefix(fs[fd].data, v[fs[fd].path])
    BY DEF Views
  <2>1. fs[fd].path \in Paths /\ fs[fd].data \in Seq(Vals) /\ Prefix(fs[fd].data, w[fs[fd].path])
    BY DEF Views, OpenFile
  <2>2. CASE fs[fd].path = p
    BY <1>1, <2>1, <2>2, AppendedPrefix
  <2>3. CASE fs[fd].path # p
    BY <1>1, <2>1, <2>3 DEF Views
  <2> QED
    BY <2>2, <2>3
<1> QED
  BY <1>2 DEF v

-----------------------------------------------------------------------------
(* The descriptors in the snapshots.                                         *)

(* An operation on descriptors that leaves their soundness and views whole.   *)
LEMMA SnapshotsFollow ==
  ASSUME Kept, DOMAIN snaps' = Snaps, taken' = taken,
         \A s \in Snaps : /\ snaps[s] = Absent => snaps'[s] = Absent
                          /\ snaps[s] # Absent =>
                               /\ snaps'[s] = [snaps[s] EXCEPT !.files = snaps'[s].files]
                               /\ Alike(snaps'[s].files, snaps[s].files)
                               /\ snaps'[s].files \in [DOMAIN snaps'[s].files -> OpenFile]
                               /\ Views(snaps'[s].files, wfiles')
  PROVE  Kept'
<1>1. DOMAIN snaps' = Snaps /\ DOMAIN taken' = Snaps
  BY DEF Kept
<1>2. ASSUME NEW s \in Snaps, snaps'[s] # Absent
      PROVE  Keeps(snaps'[s], taken'[s]) /\ Views(snaps'[s].files, wfiles')
  <2> DEFINE t == snaps[s]
             u == snaps'[s]
  <2>1. Keeps(t, taken[s]) /\ u = [t EXCEPT !.files = u.files] /\ Alike(u.files, t.files)
        /\ u.files \in [DOMAIN u.files -> OpenFile] /\ Views(u.files, wfiles')
    BY <1>2 DEF Kept
  <2>2. t = [files |-> t.files, nextFd |-> t.nextFd, wfiles |-> t.wfiles, dirs |-> t.dirs,
             exited |-> t.exited, rng |-> t.rng]
    BY <2>1 DEF Keeps
  <2> HIDE DEF t, u
  <2>3. /\ u = [files |-> u.files, nextFd |-> u.nextFd, wfiles |-> u.wfiles, dirs |-> u.dirs,
                exited |-> u.exited, rng |-> u.rng]
        /\ u.nextFd = t.nextFd /\ u.wfiles = t.wfiles /\ u.dirs = t.dirs
        /\ u.exited = t.exited /\ u.rng = t.rng
    <3> DEFINE r == [files |-> u.files, nextFd |-> t.nextFd, wfiles |-> t.wfiles, dirs |-> t.dirs,
                     exited |-> t.exited, rng |-> t.rng]
    <3>1. u = r
      BY <2>1, <2>2
    <3>2. r.nextFd = t.nextFd /\ r.wfiles = t.wfiles /\ r.dirs = t.dirs /\ r.exited = t.exited /\ r.rng = t.rng
      OBVIOUS
    <3> HIDE DEF r
    <3>3. u.nextFd = t.nextFd /\ u.wfiles = t.wfiles /\ u.dirs = t.dirs /\ u.exited = t.exited /\ u.rng = t.rng
      BY <3>1, <3>2
    <3> QED
      BY <3>1, <3>3 DEF r
  <2>4. Sound(u.files, u.nextFd, u.wfiles)
    BY <2>1, <2>3, AlikeSound DEF Keeps
  <2>5. Alike(u.files, taken[s].files)
    BY <2>1, AlikeTrans DEF Keeps
  <2>6. Keeps(u, taken[s])
    BY <2>1, <2>3, <2>4, <2>5 DEF Keeps
  <2> QED
    BY <2>1, <2>6 DEF u
<1> QED
  BY <1>1, <1>2 DEF Kept

(* Where the overlay and the snapshots stay as they are.                      *)
LEMMA SnapshotsStay ==
  ASSUME Kept, snaps' = snaps, taken' = taken, wfiles' = wfiles
  PROVE  Kept'
BY DEF Kept

(* The array of p's file is replaced, here or by a store that does not fit.   *)
LEMMA SnapshotsParted ==
  ASSUME Kept, NEW p \in Paths, NEW c, wfiles' = [wfiles EXCEPT ![p] = c], wfiles \in Contents,
         snaps' = [s \in Snaps |-> IF snaps[s] = Absent THEN Absent
                                   ELSE [snaps[s] EXCEPT !.files = Parted(snaps[s].files, p)]],
         taken' = taken
  PROVE  Kept'
<1>1. ASSUME NEW s \in Snaps, snaps[s] # Absent
      PROVE  /\ snaps'[s] = [snaps[s] EXCEPT !.files = snaps'[s].files]
             /\ Alike(snaps'[s].files, snaps[s].files)
             /\ snaps'[s].files \in [DOMAIN snaps'[s].files -> OpenFile]
             /\ Views(snaps'[s].files, wfiles')
  <2>1. /\ snaps[s].files \in [DOMAIN snaps[s].files -> OpenFile]
        /\ Views(snaps[s].files, wfiles)
        /\ snaps[s] = [files |-> snaps[s].files, nextFd |-> snaps[s].nextFd, wfiles |-> snaps[s].wfiles,
                       dirs |-> snaps[s].dirs, exited |-> snaps[s].exited, rng |-> snaps[s].rng]
    BY <1>1 DEF Kept, Keeps, Sound
  <2>2. /\ snaps'[s] = [snaps[s] EXCEPT !.files = Parted(snaps[s].files, p)]
        /\ snaps'[s].files = Parted(snaps[s].files, p)
    BY <1>1, <2>1
  <2>4. Views(Parted(snaps[s].files, p), wfiles')
    BY <2>1, PartedViews
  <2>5. snaps'[s] = [snaps[s] EXCEPT !.files = snaps'[s].files]
    BY <2>2
  <2>6. /\ Alike(Parted(snaps[s].files, p), snaps[s].files)
        /\ Parted(snaps[s].files, p) \in [DOMAIN Parted(snaps[s].files, p) -> OpenFile]
    BY <2>1, PartedAlike
  <2> QED
    BY <2>2, <2>4, <2>5, <2>6
<1> QED
  BY <1>1, SnapshotsFollow

(* A store in the array of p's file.                                          *)
LEMMA SnapshotsSeen ==
  ASSUME Kept, NEW p \in Paths, wfiles \in Contents, wfiles[p] \in Seq(Vals),
         NEW pos \in Nat, NEW d \in Seq(Vals), Len(wfiles[p]) >= pos + Len(d),
         wfiles' = [wfiles EXCEPT ![p] = Overlaid(wfiles[p], pos, d)],
         snaps' = [s \in Snaps |-> IF snaps[s] = Absent THEN Absent
                                   ELSE [snaps[s] EXCEPT !.files = Seen(snaps[s].files, p, pos, d)]],
         taken' = taken
  PROVE  Kept'
<1>1. ASSUME NEW s \in Snaps, snaps[s] # Absent
      PROVE  /\ snaps'[s] = [snaps[s] EXCEPT !.files = snaps'[s].files]
             /\ Alike(snaps'[s].files, snaps[s].files)
             /\ snaps'[s].files \in [DOMAIN snaps'[s].files -> OpenFile]
             /\ Views(snaps'[s].files, wfiles')
  <2> DEFINE fs == snaps[s].files
  <2>1. /\ fs \in [DOMAIN fs -> OpenFile] /\ Views(fs, wfiles)
        /\ snaps[s] = [files |-> snaps[s].files, nextFd |-> snaps[s].nextFd, wfiles |-> snaps[s].wfiles,
                       dirs |-> snaps[s].dirs, exited |-> snaps[s].exited, rng |-> snaps[s].rng]
    BY <1>1 DEF Kept, Keeps, Sound
  <2>2. snaps'[s] = [snaps[s] EXCEPT !.files = Seen(fs, p, pos, d)] /\ snaps'[s].files = Seen(fs, p, pos, d)
    BY <1>1, <2>1
  <2>3. snaps'[s] = [snaps[s] EXCEPT !.files = snaps'[s].files]
    BY <2>2
  <2> HIDE DEF fs
  <2>4. Alike(Seen(fs, p, pos, d), fs) /\ Seen(fs, p, pos, d) \in [DOMAIN Seen(fs, p, pos, d) -> OpenFile]
    BY <2>1, SeenAlike
  <2>5. Views(Seen(fs, p, pos, d), wfiles')
    BY <2>1, SeenViews
  <2> QED
    BY <2>2, <2>3, <2>4, <2>5 DEF fs
<1> QED
  BY <1>1, SnapshotsFollow

(* Nobody shares with the copy of the overlay a restore leaves.               *)
LEMMA SnapshotsCopied ==
  ASSUME Kept,
         snaps' = [s \in Snaps |-> IF snaps[s] = Absent THEN Absent
                                   ELSE [snaps[s] EXCEPT !.files = Copied(snaps[s].files)]],
         taken' = taken
  PROVE  Kept'
<1>1. ASSUME NEW s \in Snaps, snaps[s] # Absent
      PROVE  /\ snaps'[s] = [snaps[s] EXCEPT !.files = snaps'[s].files]
             /\ Alike(snaps'[s].files, snaps[s].files)
             /\ snaps'[s].files \in [DOMAIN snaps'[s].files -> OpenFile]
             /\ Views(snaps'[s].files, wfiles')
  <2> DEFINE fs == snaps[s].files
  <2>1. /\ fs \in [DOMAIN fs -> OpenFile]
        /\ snaps[s] = [files |-> snaps[s].files, nextFd |-> snaps[s].nextFd, wfiles |-> snaps[s].wfiles,
                       dirs |-> snaps[s].dirs, exited |-> snaps[s].exited, rng |-> snaps[s].rng]
    BY <1>1 DEF Kept, Keeps, Sound
  <2>2. snaps'[s] = [snaps[s] EXCEPT !.files = Copied(fs)] /\ snaps'[s].files = Copied(fs)
    BY <1>1, <2>1
  <2>3. snaps'[s] = [snaps[s] EXCEPT !.files = snaps'[s].files]
    BY <2>2
  <2> HIDE DEF fs
  <2>4. /\ Alike(Copied(fs), fs) /\ Copied(fs) \in [DOMAIN Copied(fs) -> OpenFile]
        /\ \A fd \in DOMAIN fs : ~Copied(fs)[fd].shares
    BY <2>1, CopiedAlike
  <2>5. Views(Copied(fs), wfiles')
    BY <2>4 DEF Views, Alike
  <2> QED
    BY <2>2, <2>3, <2>4, <2>5 DEF fs
<1> QED
  BY <1>1, SnapshotsFollow

(* An append in place: a prefix stays one.                                    *)
LEMMA SnapshotsAppended ==
  ASSUME Kept, NEW p \in Paths, wfiles \in Contents, wfiles[p] \in Seq(Vals), NEW d \in Seq(Vals),
         wfiles' = [wfiles EXCEPT ![p] = wfiles[p] \o d],
         snaps' = [s \in Snaps |-> IF snaps[s] = Absent THEN Absent
                                   ELSE [snaps[s] EXCEPT !.files = snaps[s].files]],
         taken' = taken
  PROVE  Kept'
<1>1. ASSUME NEW s \in Snaps, snaps[s] # Absent
      PROVE  /\ snaps'[s] = [snaps[s] EXCEPT !.files = snaps'[s].files]
             /\ Alike(snaps'[s].files, snaps[s].files)
             /\ snaps'[s].files \in [DOMAIN snaps'[s].files -> OpenFile]
             /\ Views(snaps'[s].files, wfiles')
  <2> DEFINE fs == snaps[s].files
  <2>1. /\ fs \in [DOMAIN fs -> OpenFile] /\ Views(fs, wfiles)
        /\ snaps[s] = [files |-> snaps[s].files, nextFd |-> snaps[s].nextFd, wfiles |-> snaps[s].wfiles,
                       dirs |-> snaps[s].dirs, exited |-> snaps[s].exited, rng |-> snaps[s].rng]
    BY <1>1 DEF Kept, Keeps, Sound
  <2>2. snaps'[s] = [snaps[s] EXCEPT !.files = fs] /\ snaps'[s].files = fs
    BY <1>1, <2>1
  <2>3. snaps'[s] = [snaps[s] EXCEPT !.files = snaps'[s].files]
    BY <2>2
  <2> HIDE DEF fs
  <2>4. Views(fs, wfiles')
    BY <2>1, AppendedViews
  <2> QED
    BY <2>1, <2>2, <2>3, <2>4, AlikeSame DEF fs
<1> QED
  BY <1>1, SnapshotsFollow

-----------------------------------------------------------------------------
(* The descriptors in use.                                                   *)

(* A file gets another content.                                               *)
LEMMA SoundUpdated ==
  ASSUME NEW fs, NEW next, NEW w, Sound(fs, next, w), NEW p \in Paths, NEW c \in Seq(Vals)
  PROVE  Sound(fs, next, [w EXCEPT ![p] = c])
<1>1. [w EXCEPT ![p] = c] \in Contents /\ \A q \in Paths : [w EXCEPT ![p] = c][q] = IF q = p THEN c ELSE w[q]
  BY DEF Sound, Contents
<1>2. \A fd \in DOMAIN fs : fs[fd].path \in Paths
  BY DEF Sound, OpenFile
<1> QED
  BY <1>1, <1>2 DEF Sound

(* An open takes the next number, which is nobody's.                          *)
LEMMA Opened ==
  ASSUME NEW fs, NEW next \in Fds, NEW w, Sound(fs, next, w), Views(fs, w), NEW f \in OpenFile,
         f.writable => w[f.path] \in Seq(Vals) /\ ~f.shares,
         f.shares => w[f.path] \in Seq(Vals) /\ Prefix(f.data, w[f.path]),
         NEW gs, DOMAIN gs = DOMAIN fs \cup {next}, gs \in [DOMAIN gs -> OpenFile],
         \A g \in DOMAIN gs : gs[g] = IF g = next THEN f ELSE fs[g]
  PROVE  Sound(gs, next + 1, w) /\ Views(gs, w) /\ next \notin DOMAIN fs
<1>1. DOMAIN fs \cup {next} \subseteq Fds
  BY DEF Sound
<1>2. next + 1 \in FirstFd .. FirstFd + MaxFd /\ next \notin DOMAIN fs /\ \A g \in DOMAIN gs : g < next + 1
  BY BoundsAssumption DEF Sound, Fds, FirstFd
<1>3. \A g \in DOMAIN gs : gs[g].writable => w[gs[g].path] \in Seq(Vals) /\ ~gs[g].shares
  BY DEF Sound
<1>4. Views(gs, w)
  BY DEF Views
<1> QED
  BY <1>1, <1>2, <1>3, <1>4 DEF Sound

(* A descriptor moves in its file.                                            *)
LEMMA Moved ==
  ASSUME NEW fs, NEW next, NEW w, Sound(fs, next, w), Views(fs, w), NEW fd \in DOMAIN fs, NEW x \in Int, NEW gs,
         DOMAIN gs = DOMAIN fs, gs = [g \in DOMAIN gs |-> gs[g]], gs[fd] = [fs[fd] EXCEPT !.pos = x],
         \A g \in DOMAIN fs : g # fd => gs[g] = fs[g]
  PROVE  /\ Sound(gs, next, w) /\ Views(gs, w)
         /\ \A g \in DOMAIN fs : /\ gs[g].path = fs[g].path /\ gs[g].writable = fs[g].writable
                                 /\ gs[g].pos = IF g = fd THEN x ELSE fs[g].pos
<1>1. fs[fd] \in OpenFile
  BY DEF Sound
<1>2. /\ gs[fd] \in OpenFile /\ gs[fd].path = fs[fd].path /\ gs[fd].writable = fs[fd].writable
      /\ gs[fd].pos = x /\ gs[fd].shares = fs[fd].shares /\ gs[fd].data = fs[fd].data
  BY <1>1 DEF OpenFile
<1>3. gs \in [DOMAIN gs -> OpenFile]
  BY <1>2 DEF Sound
<1> QED
  BY <1>2, <1>3 DEF Sound, Views

(* Steps that leave the files, the overlay and the snapshots alone.           *)
LEMMA Elsewhere ==
  ASSUME IInv, UNCHANGED <<files, nextFd, wfiles, snaps, taken, streams>>,
         Others(dirs', exited', rng'), panicked' \in BOOLEAN
  PROVE  IInv'
<1>1. Live'
  BY DEF IInv, Live
<1>2. Kept'
  BY SnapshotsStay DEF IInv
<1>3. Owned'
  BY DEF IInv, Owned
<1> QED
  BY <1>1, <1>2, <1>3 DEF IInv

LEMMA ElsewhereAll ==
  ASSUME IInv, UNCHANGED <<kernel, snaps, taken, streams>>, panicked' \in BOOLEAN
  PROVE  IInv'
BY Elsewhere DEF IInv, Live, kernel

-----------------------------------------------------------------------------
(* The system calls.                                                         *)

(* A file opened for writing that is fresh leaves those that read the old     *)
(* array, in use and in the snapshots, with it.                               *)
LEMMA OpenWritableKeeps == ASSUME IInv, OpenWritable PROVE IInv'
<1>1. nextFd \in Fds /\ nextFd' = nextFd + 1 /\ UNCHANGED <<dirs, exited, rng, panicked, taken>>
  BY DEF OpenWritable
<1>2. PICK p \in Paths, trunc \in BOOLEAN, append \in BOOLEAN :
        LET fresh == trunc \/ wfiles[p] = Absent
            old == IF fresh THEN <<>> ELSE wfiles[p]
            fs == IF fresh THEN Parted(files, p) ELSE files
            f == [path |-> p, data |-> <<>>, writable |-> TRUE, shares |-> FALSE,
                  pos |-> IF append THEN Len(old) ELSE 0]
        IN /\ wfiles' = [wfiles EXCEPT ![p] = old]
           /\ files' = [g \in DOMAIN fs \cup {nextFd} |-> IF g = nextFd THEN f ELSE fs[g]]
           /\ snaps' = IF fresh THEN InSnaps(LAMBDA gs : Parted(gs, p)) ELSE snaps
           /\ streams' = (IF fresh THEN Owners(p, {}) ELSE streams)
                         \cup (IF f.pos = Len(old) THEN {nextFd} ELSE {})
  BY DEF OpenWritable
<1> DEFINE fresh == trunc \/ wfiles[p] = Absent
           old == IF fresh THEN <<>> ELSE wfiles[p]
           fs == IF fresh THEN Parted(files, p) ELSE files
           f == [path |-> p, data |-> <<>>, writable |-> TRUE, shares |-> FALSE,
                 pos |-> IF append THEN Len(old) ELSE 0]
<1>3. /\ wfiles' = [wfiles EXCEPT ![p] = old]
      /\ files' = [g \in DOMAIN fs \cup {nextFd} |-> IF g = nextFd THEN f ELSE fs[g]]
      /\ streams' = (IF fresh THEN Owners(p, {}) ELSE streams) \cup (IF f.pos = Len(old) THEN {nextFd} ELSE {})
      /\ fresh => snaps' = [s \in Snaps |-> IF snaps[s] = Absent THEN Absent
                                            ELSE [snaps[s] EXCEPT !.files = Parted(snaps[s].files, p)]]
      /\ ~fresh => snaps' = snaps
  BY <1>2 DEF InSnaps
<1>4. /\ Sound(files, nextFd, wfiles) /\ Views(files, wfiles) /\ files \in [DOMAIN files -> OpenFile]
      /\ wfiles \in Contents /\ Others(dirs, exited, rng) /\ Kept /\ Owned
  BY DEF IInv, Live, Sound
<1>5. old \in Seq(Vals) /\ (fresh => old = <<>>) /\ (~fresh => old = wfiles[p])
  BY <1>4 DEF Contents
<1>6. fs \in [DOMAIN fs -> OpenFile] /\ Alike(fs, files)
  BY <1>4, PartedAlike, AlikeSame
<1>7. f \in OpenFile /\ f.path = p /\ f.writable /\ ~f.shares /\ f.pos \in Int
  <2> HIDE DEF old
  <2>1. Len(old) \in Int /\ <<>> \in Seq(Vals)
    BY <1>5
  <2> QED
    BY <2>1 DEF OpenFile
<1>8. Views(fs, wfiles') /\ (~fresh => wfiles' = wfiles)
  <2>1. CASE fresh
    BY <1>3, <1>4, <2>1, PartedViews
  <2>2. CASE ~fresh
    BY <1>3, <1>4, <1>5, <2>2 DEF Contents
  <2> QED
    BY <2>1, <2>2
<1> HIDE DEF fresh, old, fs, f
<1>9. Sound(fs, nextFd, wfiles')
  BY <1>3, <1>4, <1>5, <1>6, AlikeSound, SoundUpdated
<1>10. wfiles'[f.path] \in Seq(Vals) /\ wfiles'[p] = old
  BY <1>3, <1>4, <1>5, <1>7 DEF Contents
<1>11. Sound(files', nextFd', wfiles') /\ Views(files', wfiles') /\ nextFd \notin DOMAIN fs
  <2>1. /\ DOMAIN files' = DOMAIN fs \cup {nextFd} /\ files' \in [DOMAIN files' -> OpenFile]
        /\ \A g \in DOMAIN files' : files'[g] = IF g = nextFd THEN f ELSE fs[g]
    BY <1>3, <1>6, <1>7
  <2> QED
    BY <1>1, <1>7, <1>8, <1>9, <1>10, <2>1, Opened
<1>12. Live'
  BY <1>1, <1>4, <1>11 DEF Live
<1>13. Kept'
  <2>1. CASE fresh
    BY <1>1, <1>3, <1>4, <2>1, SnapshotsParted
  <2>2. CASE ~fresh
    BY <1>1, <1>3, <1>4, <1>8, <2>2, SnapshotsStay
  <2> QED
    BY <2>1, <2>2
<1>14. Owned'
  <2> SUFFICES ASSUME NEW fd \in streams'
               PROVE  fd \in DOMAIN files' /\ files'[fd].writable /\ files'[fd].pos = Len(wfiles'[files'[fd].path])
    BY DEF Owned
  <2>1. (fd = nextFd /\ f.pos = Len(old)) \/ (fd \in streams /\ (fresh => files[fd].path # p))
    BY <1>3 DEF Owners
  <2>2. CASE fd = nextFd /\ f.pos = Len(old)
    BY <1>3, <1>7, <1>10, <2>2
  <2>3. CASE fd \in streams /\ (fresh => files[fd].path # p)
    <3>1. fd \in DOMAIN files /\ files[fd].writable /\ files[fd].pos = Len(wfiles[files[fd].path])
          /\ files[fd].path \in Paths
      BY <1>4, <2>3 DEF Owned, OpenFile
    <3>2. fd \in DOMAIN fs /\ fs[fd].path = files[fd].path /\ fs[fd].pos = files[fd].pos
          /\ fs[fd].writable = files[fd].writable /\ fd # nextFd
      BY <1>6, <1>11, <3>1 DEF Alike
    <3>3. wfiles'[files[fd].path] = wfiles[files[fd].path]
      BY <1>3, <1>4, <1>8, <2>3, <3>1 DEF Contents
    <3> QED
      BY <1>3, <3>1, <3>2, <3>3
  <2> QED
    BY <2>1, <2>2, <2>3
<1> QED
  BY <1>1, <1>12, <1>13, <1>14 DEF IInv

(* A reader of an overlay file starts with all of it.                         *)
LEMMA OpenReadOnlyKeeps == ASSUME IInv, OpenReadOnly PROVE IInv'
<1>1. PICK p \in Paths :
        \/ Found(p) = Absent /\ UNCHANGED <<kernel, snaps, panicked, taken, streams>>
        \/ /\ Found(p) # Absent /\ nextFd \in Fds
           /\ files' = With(nextFd, [path |-> p, data |-> Found(p), pos |-> 0, writable |-> FALSE,
                                     shares |-> ~VfsHas(p)])
           /\ nextFd' = nextFd + 1
           /\ UNCHANGED <<wfiles, dirs, exited, rng, snaps, panicked, taken, streams>>
  BY DEF OpenReadOnly
<1>2. CASE Found(p) = Absent /\ UNCHANGED <<kernel, snaps, panicked, taken, streams>>
  BY <1>2, ElsewhereAll DEF IInv
<1>3. CASE /\ Found(p) # Absent /\ nextFd \in Fds
           /\ files' = With(nextFd, [path |-> p, data |-> Found(p), pos |-> 0, writable |-> FALSE,
                                     shares |-> ~VfsHas(p)])
           /\ nextFd' = nextFd + 1
           /\ UNCHANGED <<wfiles, dirs, exited, rng, snaps, panicked, taken, streams>>
  <2> DEFINE f == [path |-> p, data |-> Found(p), pos |-> 0, writable |-> FALSE, shares |-> ~VfsHas(p)]
  <2>1. /\ Sound(files, nextFd, wfiles) /\ Views(files, wfiles) /\ wfiles \in Contents
        /\ Others(dirs, exited, rng) /\ Kept /\ Owned /\ panicked \in BOOLEAN
    BY DEF IInv, Live, Sound
  <2>2. Found(p) \in Seq(Vals) /\ (~VfsHas(p) => Found(p) = wfiles[p])
    BY <1>3, <2>1, ContentsAssumption DEF Found, Contents
  <2>3. f \in OpenFile /\ f.path = p /\ ~f.writable /\ f.shares = (~VfsHas(p)) /\ f.data = Found(p)
    BY <2>2 DEF OpenFile, VfsHas
  <2>4. /\ DOMAIN files' = DOMAIN files \cup {nextFd} /\ files' \in [DOMAIN files' -> OpenFile]
        /\ \A g \in DOMAIN files' : files'[g] = IF g = nextFd THEN f ELSE files[g]
    BY <1>3, <2>1, <2>3 DEF With, Sound
  <2> HIDE DEF f
  <2>5. f.shares => wfiles[f.path] \in Seq(Vals) /\ Prefix(f.data, wfiles[f.path])
    BY <2>2, <2>3, PrefixOfItself
  <2>6. Sound(files', nextFd', wfiles) /\ Views(files', wfiles) /\ nextFd \notin DOMAIN files
    <3>1. nextFd \in Fds /\ nextFd' = nextFd + 1
      BY <1>3
    <3>2. f \in OpenFile /\ ~f.writable
      BY <2>3
    <3> QED
      BY <2>1, <2>4, <2>5, <3>1, <3>2, Opened
  <2>7. Live'
    BY <1>3, <2>1, <2>6 DEF Live
  <2>8. Kept'
    BY <1>3, <2>1, SnapshotsStay
  <2>9. Owned'
    BY <1>3, <2>1, <2>4, <2>6 DEF Owned
  <2> QED
    BY <1>3, <2>1, <2>7, <2>8, <2>9 DEF IInv
<1> QED
  BY <1>1, <1>2, <1>3

LEMMA CloseKeeps == ASSUME IInv, Close PROVE IInv'
<1>1. PICK fd \in Fds \cup Stdio \cup {-1} :
        /\ IF IsOpen(fd) \/ fd \in Stdio THEN files' = Without(fd) ELSE files' = files
        /\ streams' = streams \ {fd}
        /\ UNCHANGED <<nextFd, wfiles, dirs, exited, rng, snaps, panicked, taken>>
  BY DEF Close
<1>2. /\ DOMAIN files' \subseteq DOMAIN files /\ DOMAIN files \ {fd} \subseteq DOMAIN files'
      /\ files' = [g \in DOMAIN files' |-> files[g]]
  BY <1>1 DEF Without, IInv, Live, Sound
<1>3. Live'
  BY <1>1, <1>2 DEF IInv, Live, Sound, Views
<1>4. Kept'
  BY <1>1, SnapshotsStay DEF IInv
<1>5. Owned'
  BY <1>1, <1>2 DEF IInv, Owned
<1> QED
  BY <1>1, <1>3, <1>4, <1>5 DEF IInv

(* A descriptor at the end of its file has nothing left to read.              *)
LEMMA ReadKeeps == ASSUME IInv, Read PROVE IInv'
<1>1. PICK fd \in Fds \cup Stdio, count \in Counts, landed \in BOOLEAN :
        IF ~IsOpen(fd) THEN UNCHANGED <<kernel, snaps, panicked, taken, streams>>
        ELSE LET f == files[fd]
                 rem == Len(fileData(f)) - f.pos
                 n == IF count > rem THEN rem ELSE count
             IN IF n > 0 /\ f.pos < 0 THEN Panic
                ELSE /\ IF n <= 0 THEN files' = files
                        ELSE IF landed THEN files' = With(fd, [f EXCEPT !.pos = @ + n])
                        ELSE files' = files
                     /\ UNCHANGED <<nextFd, wfiles, dirs, exited, rng, snaps, panicked, taken, streams>>
  BY DEF Read
<1>2. /\ Sound(files, nextFd, wfiles) /\ Views(files, wfiles) /\ files \in [DOMAIN files -> OpenFile]
      /\ wfiles \in Contents /\ Others(dirs, exited, rng) /\ Kept /\ Owned /\ panicked \in BOOLEAN
  BY DEF IInv, Live, Sound
<1>3. CASE UNCHANGED <<kernel, snaps, panicked, taken, streams>>
  BY <1>2, <1>3, ElsewhereAll
<1>4. CASE Panic
  BY <1>4, ElsewhereAll DEF Panic
<1>5. CASE files' = files /\ UNCHANGED <<nextFd, wfiles, dirs, exited, rng, snaps, panicked, taken, streams>>
  BY <1>2, <1>5, ElsewhereAll DEF kernel
<1> DEFINE f == files[fd]
           rem == Len(fileData(f)) - f.pos
           n == IF count > rem THEN rem ELSE count
<1>6. CASE /\ IsOpen(fd) /\ ~(n <= 0) /\ files' = With(fd, [f EXCEPT !.pos = f.pos + n])
           /\ UNCHANGED <<nextFd, wfiles, dirs, exited, rng, snaps, panicked, taken, streams>>
  <2>1. fd \in DOMAIN files /\ f \in OpenFile /\ f.pos \in Int
    BY <1>2, <1>6 DEF IsOpen, OpenFile
  <2>2. fileData(f) \in Seq(Vals) /\ (f.writable => fileData(f) = wfiles[f.path])
    BY <1>2, <2>1 DEF fileData, Sound, OpenFile
  <2>3. n \in Int /\ rem \in Int /\ rem > 0
    BY <1>6, <2>1, <2>2, NumbersAssumption, LenProperties
  <2>4. f.pos + n \in Int /\ DOMAIN files' = DOMAIN files /\ files' = [g \in DOMAIN files' |-> files'[g]]
        /\ files'[fd] = [files[fd] EXCEPT !.pos = f.pos + n] /\ \A g \in DOMAIN files : g # fd => files'[g] = files[g]
    <3>1. DOMAIN files \cup {fd} = DOMAIN files
      BY <2>1
    <3> HIDE DEF n
    <3> QED
      BY <1>6, <2>1, <2>3, <3>1 DEF With
  <2>5. fd \notin streams
    BY <1>2, <2>2, <2>3 DEF Owned
  <2> HIDE DEF n
  <2>6. /\ Sound(files', nextFd, wfiles) /\ Views(files', wfiles)
        /\ \A g \in DOMAIN files : g # fd => files'[g] = files[g]
    BY <1>2, <2>1, <2>4, Moved
  <2>7. Live' /\ Kept'
    BY <1>2, <1>6, <2>6, SnapshotsStay DEF Live
  <2>8. Owned'
    BY <1>2, <1>6, <2>4, <2>5, <2>6 DEF Owned
  <2> QED
    BY <1>2, <1>6, <2>7, <2>8 DEF IInv
<1> QED
  BY <1>1, <1>3, <1>4, <1>5, <1>6

(* What write and writev have in common: the file of a descriptor gets        *)
(* another content, those that shared the old one are told or left behind,    *)
(* and only the descriptor itself goes on owning the file.                    *)
LEMMA Stored ==
  ASSUME Live, Owned, NEW fd \in DOMAIN files, files[fd].writable, NEW c \in Seq(Vals), NEW x \in Int,
         wfiles' = [wfiles EXCEPT ![files[fd].path] = c],
         NEW fs, fs \in [DOMAIN fs -> OpenFile], Alike(fs, files), Views(fs, wfiles'),
         files' = [fs EXCEPT ![fd] = [fs[fd] EXCEPT !.pos = x]], streams' = Owners(files[fd].path, {fd}),
         fd \in streams => x = Len(c), UNCHANGED <<nextFd, dirs, exited, rng>>
  PROVE  Live' /\ Owned'
<1> DEFINE p == files[fd].path
<1>1. /\ Sound(files, nextFd, wfiles) /\ wfiles \in Contents /\ Others(dirs, exited, rng)
      /\ \A g \in DOMAIN files : files[g].path \in Paths
  BY DEF Live, Sound, OpenFile
<1>2. p \in Paths /\ wfiles'[p] = c /\ \A q \in Paths : q # p => wfiles'[q] = wfiles[q]
  BY <1>1 DEF Contents
<1>3. Sound(fs, nextFd, wfiles')
  BY <1>1, <1>2, AlikeSound, SoundUpdated
<1>4. /\ fd \in DOMAIN fs /\ DOMAIN files' = DOMAIN fs /\ files' = [g \in DOMAIN files' |-> files'[g]]
      /\ files'[fd] = [fs[fd] EXCEPT !.pos = x] /\ \A g \in DOMAIN fs : g # fd => files'[g] = fs[g]
  BY DEF Alike
<1>5. /\ Sound(files', nextFd, wfiles') /\ Views(files', wfiles')
      /\ \A g \in DOMAIN fs : /\ files'[g].path = fs[g].path /\ files'[g].writable = fs[g].writable
                              /\ files'[g].pos = IF g = fd THEN x ELSE fs[g].pos
  BY <1>3, <1>4, Moved
<1>6. Live'
  BY <1>1, <1>5 DEF Live
<1>7. Owned'
  <2> SUFFICES ASSUME NEW g \in streams'
               PROVE  g \in DOMAIN files' /\ files'[g].writable /\ files'[g].pos = Len(wfiles'[files'[g].path])
    BY DEF Owned
  <2>1. g \in streams /\ (g = fd \/ files[g].path # p)
    BY DEF Owners
  <2>2. /\ g \in DOMAIN files /\ files[g].writable /\ files[g].pos = Len(wfiles[files[g].path])
        /\ files[g].path \in Paths
    BY <1>1, <2>1 DEF Owned
  <2>3. /\ g \in DOMAIN fs /\ g \in DOMAIN files'
        /\ files'[g].path = files[g].path /\ files'[g].writable = files[g].writable
        /\ files'[g].pos = IF g = fd THEN x ELSE files[g].pos
    BY <1>4, <1>5, <2>2 DEF Alike
  <2>4. CASE g = fd
    BY <1>2, <2>1, <2>2, <2>3, <2>4
  <2>5. CASE g # fd
    BY <1>2, <2>1, <2>2, <2>3, <2>5
  <2> QED
    BY <2>4, <2>5
<1> QED
  BY <1>6, <1>7

(* A descriptor at the end of its file writes past the end, so the array is   *)
(* left to its readers; the end is where it stands then.                      *)
LEMMA WriteKeeps == ASSUME IInv, Write PROVE IInv'
<1>1. PICK fd \in Fds \cup Stdio, d \in Data, readable \in BOOLEAN :
        IF IsOpen(fd) /\ files[fd].writable /\ readable
        THEN IF files[fd].pos < 0 THEN Panic
             ELSE StoreAt(fd, d) /\ UNCHANGED <<nextFd, dirs, exited, rng, panicked, taken>>
        ELSE UNCHANGED <<kernel, snaps, panicked, taken, streams>>
  BY DEF Write
<1>2. CASE UNCHANGED <<kernel, snaps, panicked, taken, streams>>
  BY <1>2, ElsewhereAll DEF IInv
<1>3. CASE Panic
  BY <1>3, ElsewhereAll DEF Panic
<1>4. CASE /\ IsOpen(fd) /\ files[fd].writable /\ ~(files[fd].pos < 0)
           /\ StoreAt(fd, d) /\ UNCHANGED <<nextFd, dirs, exited, rng, panicked, taken>>
  <2> DEFINE p == files[fd].path
             pos == files[fd].pos
             w == wfiles[p]
             c == Overlaid(w, pos, d)
             fits == Len(w) >= pos + Len(d)
             fs == IF fits THEN Seen(files, p, pos, d) ELSE Parted(files, p)
  <2>1. /\ Sound(files, nextFd, wfiles) /\ Views(files, wfiles) /\ files \in [DOMAIN files -> OpenFile]
        /\ wfiles \in Contents /\ Live /\ Kept /\ Owned /\ panicked \in BOOLEAN
    BY DEF IInv, Live, Sound
  <2>2. fd \in DOMAIN files /\ p \in Paths /\ pos \in Nat /\ w \in Seq(Vals) /\ d \in Seq(Vals)
    BY <1>4, <2>1, ContentsAssumption DEF IsOpen, Sound, OpenFile
  <2>3. /\ wfiles' = [wfiles EXCEPT ![p] = c] /\ streams' = Owners(p, {fd})
        /\ files' = [fs EXCEPT ![fd].pos = @ + Len(d)]
        /\ fits => snaps' = [s \in Snaps |-> IF snaps[s] = Absent THEN Absent
                                             ELSE [snaps[s] EXCEPT !.files = Seen(snaps[s].files, p, pos, d)]]
        /\ ~fits => snaps' = [s \in Snaps |-> IF snaps[s] = Absent THEN Absent
                                              ELSE [snaps[s] EXCEPT !.files = Parted(snaps[s].files, p)]]
    BY <1>4 DEF StoreAt, InSnaps
  <2>4. c \in Seq(Vals) /\ Len(d) \in Nat /\ (pos = Len(w) => pos + Len(d) = Len(c))
    BY <2>2, Overlays
  <2>5. /\ fs \in [DOMAIN fs -> OpenFile] /\ Alike(fs, files) /\ Views(fs, wfiles')
    <3>1. CASE fits
      BY <2>1, <2>2, <2>3, <3>1, SeenAlike, SeenViews
    <3>2. CASE ~fits
      BY <2>1, <2>2, <2>3, <3>2, PartedAlike, PartedViews
    <3> QED
      BY <3>1, <3>2
  <2>6. Kept'
    <3>1. CASE fits
      BY <1>4, <2>1, <2>2, <2>3, <3>1, SnapshotsSeen
    <3>2. CASE ~fits
      BY <1>4, <2>1, <2>2, <2>3, <3>2, SnapshotsParted
    <3> QED
      BY <3>1, <3>2
  <2> HIDE DEF c, fs, fits
  <2>7. files' = [fs EXCEPT ![fd] = [fs[fd] EXCEPT !.pos = pos + Len(d)]]
    BY <2>2, <2>3, <2>5 DEF Alike
  <2>8. pos + Len(d) \in Int /\ (fd \in streams => pos + Len(d) = Len(c))
    BY <2>1, <2>2, <2>4 DEF Owned
  <2>9. Live' /\ Owned'
    BY <1>4, <2>1, <2>2, <2>3, <2>4, <2>5, <2>7, <2>8, Stored
  <2> QED
    BY <1>4, <2>1, <2>6, <2>9 DEF IInv
<1> QED
  BY <1>1, <1>2, <1>3, <1>4

LEMMA WritevKeeps == ASSUME IInv, Writev PROVE IInv'
<1>1. PICK fd \in Fds \cup Stdio, d \in Data \cup {<<>>}, e \in Data \cup {<<>>}, inPlace \in BOOLEAN :
        IF IsOpen(fd) /\ files[fd].writable
        THEN Append1(fd, d \o e, inPlace) /\ UNCHANGED <<nextFd, dirs, exited, rng, panicked, taken>>
        ELSE UNCHANGED <<kernel, snaps, panicked, taken, streams>>
  BY DEF Writev
<1>2. CASE UNCHANGED <<kernel, snaps, panicked, taken, streams>>
  BY <1>2, ElsewhereAll DEF IInv
<1>3. CASE /\ IsOpen(fd) /\ files[fd].writable
           /\ Append1(fd, d \o e, inPlace) /\ UNCHANGED <<nextFd, dirs, exited, rng, panicked, taken>>
  <2> DEFINE p == files[fd].path
             pos == files[fd].pos
             w == wfiles[p]
             b == d \o e
             c == w \o b
             fs == IF inPlace THEN files ELSE Parted(files, p)
  <2>1. /\ Sound(files, nextFd, wfiles) /\ Views(files, wfiles) /\ files \in [DOMAIN files -> OpenFile]
        /\ wfiles \in Contents /\ Live /\ Kept /\ Owned /\ panicked \in BOOLEAN
    BY DEF IInv, Live, Sound
  <2>2. fd \in DOMAIN files /\ p \in Paths /\ pos \in Int /\ w \in Seq(Vals) /\ b \in Seq(Vals)
    <3>1. d \in Seq(Vals) /\ e \in Seq(Vals)
      BY ContentsAssumption, EmptySeq
    <3> QED
      BY <1>3, <2>1, <3>1 DEF IsOpen, Sound, OpenFile
  <2> HIDE DEF b
  <2>3. /\ wfiles' = [wfiles EXCEPT ![p] = c] /\ streams' = Owners(p, {fd})
        /\ files' = [fs EXCEPT ![fd].pos = @ + Len(b)]
        /\ inPlace => snaps' = [s \in Snaps |-> IF snaps[s] = Absent THEN Absent
                                                ELSE [snaps[s] EXCEPT !.files = snaps[s].files]]
        /\ ~inPlace => snaps' = [s \in Snaps |-> IF snaps[s] = Absent THEN Absent
                                                 ELSE [snaps[s] EXCEPT !.files = Parted(snaps[s].files, p)]]
    BY <1>3 DEF Append1, InSnaps, b
  <2>4. c \in Seq(Vals) /\ Len(b) \in Nat /\ (pos = Len(w) => pos + Len(b) = Len(c))
    BY <2>2, ConcatProperties
  <2>5. /\ fs \in [DOMAIN fs -> OpenFile] /\ Alike(fs, files) /\ Views(fs, wfiles')
    <3>1. CASE inPlace
      BY <2>1, <2>2, <2>3, <3>1, AlikeSame, AppendedViews
    <3>2. CASE ~inPlace
      BY <2>1, <2>2, <2>3, <3>2, PartedAlike, PartedViews
    <3> QED
      BY <3>1, <3>2
  <2>6. Kept'
    <3>1. CASE inPlace
      BY <1>3, <2>1, <2>2, <2>3, <3>1, SnapshotsAppended
    <3>2. CASE ~inPlace
      BY <1>3, <2>1, <2>2, <2>3, <3>2, SnapshotsParted
    <3> QED
      BY <3>1, <3>2
  <2> HIDE DEF c, fs
  <2>7. files' = [fs EXCEPT ![fd] = [fs[fd] EXCEPT !.pos = pos + Len(b)]]
    BY <2>2, <2>3, <2>5 DEF Alike
  <2>8. pos + Len(b) \in Int /\ (fd \in streams => pos + Len(b) = Len(c))
    BY <2>1, <2>2, <2>4 DEF Owned
  <2>9. Live' /\ Owned'
    BY <1>3, <2>1, <2>2, <2>3, <2>4, <2>5, <2>7, <2>8, Stored
  <2> QED
    BY <1>3, <2>1, <2>6, <2>9 DEF IInv
<1> QED
  BY <1>1, <1>2, <1>3

LEMMA LseekKeeps == ASSUME IInv, Lseek PROVE IInv'
<1>1. PICK fd \in Fds \cup Stdio, off \in Offsets, whence \in {"SET", "CUR", "END"} :
        IF ~IsOpen(fd) THEN UNCHANGED <<kernel, snaps, panicked, taken, streams>>
        ELSE LET f == files[fd]
                 pos == CASE whence = "SET" -> off
                          [] whence = "CUR" -> f.pos + off
                          [] OTHER -> Len(fileData(f)) + off
             IN /\ files' = With(fd, [f EXCEPT !.pos = pos]) /\ streams' = streams \ {fd}
                /\ UNCHANGED <<nextFd, wfiles, dirs, exited, rng, snaps, panicked, taken>>
  BY DEF Lseek
<1>2. CASE UNCHANGED <<kernel, snaps, panicked, taken, streams>>
  BY <1>2, ElsewhereAll DEF IInv
<1> DEFINE f == files[fd]
           pos == CASE whence = "SET" -> off
                    [] whence = "CUR" -> f.pos + off
                    [] OTHER -> Len(fileData(f)) + off
<1>3. CASE /\ IsOpen(fd) /\ files' = With(fd, [f EXCEPT !.pos = pos]) /\ streams' = streams \ {fd}
           /\ UNCHANGED <<nextFd, wfiles, dirs, exited, rng, snaps, panicked, taken>>
  <2>1. /\ Sound(files, nextFd, wfiles) /\ Views(files, wfiles) /\ files \in [DOMAIN files -> OpenFile]
        /\ wfiles \in Contents /\ Others(dirs, exited, rng) /\ Kept /\ Owned /\ panicked \in BOOLEAN
    BY DEF IInv, Live, Sound
  <2>2. fd \in DOMAIN files /\ f \in OpenFile /\ f.pos \in Int
    BY <1>3, <2>1 DEF IsOpen, OpenFile
  <2>3. Len(fileData(f)) \in Int
    BY <2>1, <2>2 DEF fileData, Sound, OpenFile
  <2>4. pos \in Int
    BY <2>2, <2>3, NumbersAssumption
  <2> HIDE DEF pos
  <2>5. DOMAIN files' = DOMAIN files /\ files' = [g \in DOMAIN files' |-> files'[g]]
        /\ files'[fd] = [files[fd] EXCEPT !.pos = pos] /\ \A g \in DOMAIN files : g # fd => files'[g] = files[g]
    <3>1. DOMAIN files \cup {fd} = DOMAIN files
      BY <2>2
    <3> QED
      BY <1>3, <3>1 DEF With
  <2>6. /\ Sound(files', nextFd, wfiles) /\ Views(files', wfiles)
        /\ \A g \in DOMAIN files : g # fd => files'[g] = files[g]
    BY <2>1, <2>2, <2>4, <2>5, Moved
  <2>7. Live' /\ Kept'
    BY <1>3, <2>1, <2>6, SnapshotsStay DEF Live
  <2>8. Owned'
    BY <1>3, <2>1, <2>5, <2>6 DEF Owned
  <2> QED
    BY <1>3, <2>1, <2>7, <2>8 DEF IInv
<1> QED
  BY <1>1, <1>2, <1>3

LEMMA OtherCalls ==
  /\ IInv /\ Mkdirat => IInv'
  /\ IInv /\ Stat => IInv'
  /\ IInv /\ Getrandom => IInv'
  /\ IInv /\ sysExit => IInv'
<1>1. ASSUME IInv, Mkdirat PROVE IInv'
  BY <1>1, Elsewhere DEF Mkdirat, IInv, Live, Others
<1>2. ASSUME IInv, Stat PROVE IInv'
  BY <1>2, ElsewhereAll DEF Stat, IInv
<1>3. ASSUME IInv, Getrandom PROVE IInv'
  <2>1. PICK n \in 0 .. MaxRand : \E landed \in 0 .. n :
          LET start == IF rng = Absent THEN 0 ELSE rng
              used == IF landed < n THEN landed + 1 ELSE n
          IN /\ start + used <= MaxRand
             /\ rng' = IF n = 0 THEN rng ELSE start + used
             /\ UNCHANGED <<files, nextFd, wfiles, dirs, exited, snaps, panicked, taken, streams>>
    BY <1>3 DEF Getrandom
  <2>2. PICK landed \in 0 .. n :
          LET start == IF rng = Absent THEN 0 ELSE rng
              used == IF landed < n THEN landed + 1 ELSE n
          IN /\ start + used <= MaxRand
             /\ rng' = IF n = 0 THEN rng ELSE start + used
             /\ UNCHANGED <<files, nextFd, wfiles, dirs, exited, snaps, panicked, taken, streams>>
    BY <2>1
  <2>3. dirs \subseteq Paths /\ exited \in BOOLEAN /\ rng \in 0 .. MaxRand \cup {Absent}
    BY <1>3 DEF IInv, Live, Others
  <2>4. rng' \in 0 .. MaxRand \cup {Absent}
    BY <2>2, <2>3, BoundsAssumption
  <2> QED
    BY <1>3, <2>2, <2>3, <2>4, Elsewhere DEF IInv, Others
<1>4. ASSUME IInv, sysExit PROVE IInv'
  BY <1>4, Elsewhere DEF sysExit, IInv, Live, Others
<1> QED
  BY <1>1, <1>2, <1>3, <1>4

-----------------------------------------------------------------------------
(* The host.                                                                 *)

LEMMA SnapshotKeeps == ASSUME IInv, Snapshot PROVE IInv'
<1>1. PICK s \in Snaps : /\ snaps' = [snaps EXCEPT ![s] = State] /\ taken' = [taken EXCEPT ![s] = State]
                         /\ UNCHANGED <<kernel, panicked, streams>>
  BY DEF Snapshot
<1>2. Live' /\ Owned' /\ panicked' \in BOOLEAN /\ wfiles' = wfiles
  BY <1>1 DEF kernel, IInv, Live, Owned
<1>3. Keeps(State, State) /\ Views(State.files, wfiles)
  BY AlikeSame DEF IInv, Live, Keeps, State
<1>4. ASSUME NEW t \in Snaps, snaps'[t] # Absent
      PROVE  Keeps(snaps'[t], taken'[t]) /\ Views(snaps'[t].files, wfiles)
  <2>1. CASE t = s
    BY <1>1, <1>3, <2>1 DEF IInv, Kept
  <2>2. CASE t # s
    BY <1>1, <1>4, <2>2 DEF IInv, Kept
  <2> QED
    BY <2>1, <2>2
<1>5. Kept'
  BY <1>1, <1>2, <1>4 DEF IInv, Kept
<1> QED
  BY <1>2, <1>5 DEF IInv

LEMMA RestoreKeeps == ASSUME IInv, Restore PROVE IInv'
<1>1. PICK s \in Snaps :
        /\ snaps[s] # Absent
        /\ files' = Copied(snaps[s].files) /\ nextFd' = snaps[s].nextFd /\ wfiles' = snaps[s].wfiles
        /\ dirs' = snaps[s].dirs /\ exited' = snaps[s].exited /\ rng' = RewoundRng(snaps[s])
        /\ snaps' = InSnaps(Copied) /\ streams' = {} /\ UNCHANGED <<panicked, taken>>
  BY DEF Restore
<1>2. Keeps(snaps[s], taken[s]) /\ Kept /\ panicked \in BOOLEAN
  BY <1>1 DEF IInv, Kept
<1>3. /\ Sound(snaps[s].files, snaps[s].nextFd, snaps[s].wfiles)
      /\ Others(snaps[s].dirs, snaps[s].exited, snaps[s].rng)
      /\ snaps[s].files \in [DOMAIN snaps[s].files -> OpenFile]
  BY <1>2 DEF Keeps, Sound
<1>4. /\ Alike(files', snaps[s].files) /\ files' \in [DOMAIN files' -> OpenFile]
      /\ \A fd \in DOMAIN files' : ~files'[fd].shares
  BY <1>1, <1>3, CopiedAlike DEF Alike
<1>5. Sound(files', nextFd', wfiles') /\ Views(files', wfiles')
  <2>1. Views(files', wfiles')
    BY <1>4 DEF Views
  <2> QED
    BY <1>1, <1>3, <1>4, <2>1, AlikeSound
<1>6. Others(dirs', exited', rng')
  BY <1>1, <1>3 DEF Others, RewoundRng
<1>7. Live'
  BY <1>5, <1>6 DEF Live
<1>8. Kept'
  <2>1. snaps' = [t \in Snaps |-> IF snaps[t] = Absent THEN Absent
                                  ELSE [snaps[t] EXCEPT !.files = Copied(snaps[t].files)]]
    BY <1>1 DEF InSnaps
  <2> QED
    BY <1>1, <1>2, <2>1, SnapshotsCopied
<1>9. Owned'
  BY <1>1 DEF Owned
<1> QED
  BY <1>1, <1>2, <1>7, <1>8, <1>9 DEF IInv

(* What a Restore puts back.                                                  *)
LEMMA RestoreExact ==
  ASSUME IInv, Restore
  PROVE  LET was == taken[ret'[2]]
         IN /\ nextFd' = was.nextFd /\ wfiles' = was.wfiles /\ dirs' = was.dirs
            /\ exited' = was.exited /\ (rng # Absent \/ was.rng = Absent => rng' = was.rng)
            /\ DOMAIN files' = DOMAIN was.files
            /\ \A fd \in DOMAIN files' :
                 /\ files'[fd].path = was.files[fd].path /\ files'[fd].pos = was.files[fd].pos
                 /\ files'[fd].writable = was.files[fd].writable
                 /\ was.files[fd].shares \/ files'[fd].data = was.files[fd].data
<1>1. PICK s \in Snaps :
        /\ snaps[s] # Absent
        /\ files' = Copied(snaps[s].files) /\ nextFd' = snaps[s].nextFd /\ wfiles' = snaps[s].wfiles
        /\ dirs' = snaps[s].dirs /\ exited' = snaps[s].exited /\ rng' = RewoundRng(snaps[s])
        /\ ret' = <<"Restore", s>>
  BY DEF Restore, Answer
<1>2. Keeps(snaps[s], taken[s])
  BY <1>1 DEF IInv, Kept
<1>3. \A fd \in DOMAIN snaps[s].files : files'[fd].data = snaps[s].files[fd].data
  <2>1. \A fd \in DOMAIN snaps[s].files : snaps[s].files[fd] \in OpenFile
    BY <1>2 DEF Keeps, Sound
  <2> QED
    BY <1>1, <2>1 DEF Copied, OpenFile
<1>4. Alike(files', snaps[s].files)
  BY <1>1, <1>2, CopiedAlike DEF Keeps, Sound
<1>5. rng # Absent \/ taken[s].rng = Absent => rng' = taken[s].rng
  BY <1>1, <1>2 DEF Keeps, RewoundRng
<1>6. ret'[2] = s
  BY <1>1
<1> DEFINE was == taken[s]
<1>7. /\ nextFd' = was.nextFd /\ wfiles' = was.wfiles /\ dirs' = was.dirs /\ exited' = was.exited
      /\ DOMAIN files' = DOMAIN was.files
  BY <1>1, <1>2, <1>4 DEF Keeps, Alike
<1>8. \A fd \in DOMAIN files' :
        /\ files'[fd].path = was.files[fd].path /\ files'[fd].pos = was.files[fd].pos
        /\ files'[fd].writable = was.files[fd].writable
        /\ was.files[fd].shares \/ files'[fd].data = was.files[fd].data
  BY <1>2, <1>3, <1>4 DEF Keeps, Alike
<1> QED
  BY <1>5, <1>6, <1>7, <1>8

(* Every call answers under a tag of its own.                                 *)
LEMMA OnlyRestoreAnswersSo ==
  ASSUME Next, ret'[1] = "Restore"
  PROVE  Restore
<1> USE DEF Answer
<1>1. OpenWritable => ret'[1] # "Restore"
  BY DEF OpenWritable
<1>2. OpenReadOnly => ret'[1] # "Restore"
  BY DEF OpenReadOnly
<1>3. Close => ret'[1] # "Restore"
  BY DEF Close
<1>4. Read => ret'[1] # "Restore"
  BY DEF Read, Panic
<1>5. Write => ret'[1] # "Restore"
  BY DEF Write, Panic
<1>6. Writev => ret'[1] # "Restore"
  <2>1. Writev => \E x : ret' = <<"writev", x>>
    BY DEF Writev
  <2> QED
    BY <2>1
<1>7. Lseek => ret'[1] # "Restore"
  BY DEF Lseek
<1>8. Mkdirat => ret'[1] # "Restore"
  BY DEF Mkdirat
<1>9. Stat => ret'[1] # "Restore"
  BY DEF Stat
<1>10. Getrandom => ret'[1] # "Restore"
  BY DEF Getrandom
<1>11. sysExit => ret'[1] # "Restore"
  BY DEF sysExit
<1>12. Snapshot => ret'[1] # "Restore"
  BY DEF Snapshot
<1> QED
  BY <1>1, <1>2, <1>3, <1>4, <1>5, <1>6, <1>7, <1>8, <1>9, <1>10, <1>11, <1>12 DEF Next, Syscall

LEMMA InitInv == Init => IInv
<1>1. ASSUME Init PROVE IInv
  <2>1. DOMAIN files = {} /\ files = <<>>
    BY <1>1 DEF Init
  <2>2. files \in [DOMAIN files -> OpenFile]
    BY <2>1
  <2>3. nextFd \in FirstFd .. FirstFd + MaxFd /\ wfiles \in Contents
    BY <1>1, BoundsAssumption DEF Init, Contents, FirstFd
  <2>4. Live
    BY <1>1, <2>1, <2>2, <2>3 DEF Init, Live, Sound, Others, Views
  <2>5. Kept /\ Owned /\ panicked \in BOOLEAN
    BY <1>1 DEF Init, Kept, Owned
  <2> QED
    BY <2>4, <2>5 DEF IInv
<1> QED
  BY <1>1

LEMMA NextInv == IInv /\ [Next]_vars => IInv'
<1>1. ASSUME IInv, UNCHANGED vars PROVE IInv'
  BY <1>1, ElsewhereAll DEF vars, kernel, IInv
<1>2. ASSUME IInv, Next PROVE IInv'
  BY <1>2, OpenWritableKeeps, OpenReadOnlyKeeps, CloseKeeps, ReadKeeps, WriteKeeps, WritevKeeps, LseekKeeps,
     OtherCalls, SnapshotKeeps, RestoreKeeps DEF Next, Syscall
<1> QED
  BY <1>1, <1>2

-----------------------------------------------------------------------------
(* The theorems.                                                             *)

(* The invariant the theorems below are read off from.                        *)
THEOREM Inductive == Spec => []IInv
BY InitInv, NextInv, PTL DEF Spec

(* The tables in use and in the snapshots, one by one.                        *)
LEMMA TablesSound ==
  ASSUME IInv, NEW t \in Tables
  PROVE  /\ Sound(t.files, t.nextFd, t.wfiles) /\ Others(t.dirs, t.exited, t.rng)
         /\ Views(t.files, wfiles)
<1>1. CASE t = State
  BY <1>1 DEF IInv, Live, State
<1>2. CASE t # State
  <2>1. PICK s \in Snaps : t = snaps[s] /\ snaps[s] # Absent
    BY <1>2 DEF Tables
  <2> QED
    BY <2>1 DEF IInv, Kept, Keeps
<1> QED
  BY <1>1, <1>2

(* The descriptor table, the overlay and the rest of the kernel's state keep  *)
(* their types, in use and in every snapshot (syscall.go, Context and State). *)
THEOREM Typed == Spec => []TypeOK
<1>1. ASSUME IInv PROVE TypeOK
  <2>1. ASSUME NEW t \in Tables
        PROVE  /\ DOMAIN t.files \subseteq Fds /\ \A fd \in DOMAIN t.files : t.files[fd] \in OpenFile
               /\ t.nextFd \in FirstFd .. FirstFd + MaxFd
               /\ \A p \in Paths : t.wfiles[p] = Absent \/ t.wfiles[p] \in Seq(Vals)
               /\ t.dirs \subseteq Paths /\ t.exited \in BOOLEAN /\ t.rng \in 0 .. MaxRand \cup {Absent}
    BY <1>1, TablesSound DEF Sound, Others, Contents
  <2> QED
    BY <1>1, <2>1 DEF TypeOK, IInv, Owned
<1> QED
  BY <1>1, Inductive, PTL

(* No open lands on a live descriptor, after any closes, snapshots and        *)
(* restores: numbers are never given back, and a Restore rewinds the next     *)
(* number with the table it goes with (sysOpenat, sysClose, Restore).         *)
THEOREM FreshFdAlways == Spec => []FreshFd
<1>1. ASSUME IInv PROVE FreshFd
  BY <1>1, TablesSound DEF Sound, FreshFd
<1> QED
  BY <1>1, Inductive, PTL

(* A reader that holds the overlay's array shows a prefix of the file as it   *)
(* is now, whoever writes, truncates or appends to it, in use and in the      *)
(* snapshots (sysOpenat, sysWrite, sysWritev, Restore).                       *)
THEOREM SharedViewIsPrefixAlways == Spec => []SharedViewIsPrefix
<1>1. ASSUME IInv PROVE SharedViewIsPrefix
  <2> SUFFICES ASSUME NEW t \in Tables, NEW fd \in DOMAIN t.files, t.files[fd].shares
               PROVE  LET f == t.files[fd]
                      IN /\ ~f.writable /\ wfiles[f.path] # Absent /\ Len(f.data) <= Len(wfiles[f.path])
                         /\ f.data = SubSeq(wfiles[f.path], 1, Len(f.data))
    BY DEF SharedViewIsPrefix
  <2> DEFINE f == t.files[fd]
  <2>1. f \in OpenFile /\ ~f.writable
    BY <1>1, TablesSound DEF Sound
  <2>2. f.data \in Seq(Vals) /\ wfiles[f.path] \in Seq(Vals) /\ Prefix(f.data, wfiles[f.path])
    BY <1>1, <2>1, TablesSound DEF Views, OpenFile
  <2>3. f.data = SubSeq(wfiles[f.path], 1, Len(f.data)) /\ Len(f.data) <= Len(wfiles[f.path])
    BY <2>2, PrefixIsSubSeq DEF Prefix
  <2> QED
    BY <2>1, <2>2, <2>3, ContentsAssumption
<1> QED
  BY <1>1, Inductive, PTL

(* A descriptor that owns its file, opened at its end and never sought,       *)
(* stands at the end of it, whichever mix of write, writev and read it used   *)
(* (sysWrite stores at the position, sysWritev at the end).                   *)
THEOREM StreamAtEndAlways == Spec => []StreamAtEnd
<1>1. ASSUME IInv PROVE StreamAtEnd
  BY <1>1 DEF IInv, Owned, StreamAtEnd
<1> QED
  BY <1>1, Inductive, PTL

(* Restore puts back the descriptors, the overlay and the rest as they were   *)
(* when the snapshot was taken, but for the bytes a reader shared with the    *)
(* overlay's array (Context.Snapshot, Context.Restore).                       *)
THEOREM Rewinds == Spec => RestoreRewinds
<1> DEFINE Exact ==
      LET was == taken[ret'[2]]
      IN /\ nextFd' = was.nextFd /\ wfiles' = was.wfiles /\ dirs' = was.dirs
         /\ exited' = was.exited /\ (rng # Absent \/ was.rng = Absent => rng' = was.rng)
         /\ DOMAIN files' = DOMAIN was.files
         /\ \A fd \in DOMAIN files' :
              /\ files'[fd].path = was.files[fd].path /\ files'[fd].pos = was.files[fd].pos
              /\ files'[fd].writable = was.files[fd].writable
              /\ was.files[fd].shares \/ files'[fd].data = was.files[fd].data
<1>1. ASSUME Next, ret'[1] = "Restore" PROVE Restore
  BY <1>1, OnlyRestoreAnswersSo
<1>2. ASSUME IInv, Restore PROVE Exact
  BY <1>2, RestoreExact
<1>3. IInv /\ [Next]_vars => [ret'[1] = "Restore" => Exact]_vars
  BY <1>1, <1>2
<1> QED
  BY <1>3, Inductive, PTL DEF Spec, RestoreRewinds
===============================================================================
