----------------------------- MODULE KernelFiles -----------------------------
(***************************************************************************)
(* The kernel's files (internal/kernel/syscall.go) over the guest's file    *)
(* system (internal/vfs): read-only files the host provides, and an overlay *)
(* of files the guest has written.                                          *)
(*                                                                         *)
(* Go's slices are explicit where identity matters: a read-only descriptor  *)
(* of an overlay file holds the very array the overlay holds, as long as    *)
(* `shares` is TRUE, and a write that fits is done in that array.  The      *)
(* array of a file is only ever written through the overlay, so one flag    *)
(* says all there is to know of who shares it.                              *)
(***************************************************************************)
EXTENDS Integers, Sequences, FiniteSets

CONSTANTS
  Paths,
  Resolver,   \* path -> what Config.FileResolver says: "none", "gives" or "denies"
  Synth,      \* paths with a generator
  Asset,      \* path -> "unmapped", "missing" or "present"
  VfsData,    \* what a provided file contains
  Data,       \* what the guest writes at once
  Counts,     \* how much it reads
  Offsets,    \* lseek offsets
  Snaps,      \* snapshots the host may keep
  MaxFd,      \* bound on descriptors opened
  MaxLen,     \* bound on a file's length and a position
  MaxRand,    \* bound on the random stream, in blocks of 4096 bytes
  Absent      \* no such file, no such snapshot, no stream

ASSUME BoundsAssumption == MaxFd \in Nat /\ MaxLen \in Nat /\ MaxRand \in Nat
ASSUME NumbersAssumption == Counts \subseteq Nat /\ Offsets \subseteq Int

VARIABLES
  files,      \* Context.files: descriptor -> openFile
  nextFd,
  wfiles,     \* the overlay: path -> content
  dirs, exited,
  rng,        \* blocks taken from the pinned stream, Absent before the first
  snaps,      \* the State values the host keeps
  ret,        \* the last call and its answer
  panicked,   \* a slice was indexed below zero
  taken,      \* what each snapshot was when it was taken
  streams     \* descriptors that own their file: see StreamAtEnd

kernel == <<files, nextFd, wfiles, dirs, exited, rng>>
vars == <<kernel, snaps, ret, panicked, taken, streams>>

FirstFd == 100
Stdio == 0 .. 2
Fds == FirstFd .. FirstFd + MaxFd - 1
Vals == {0} \cup UNION {{d[i] : i \in DOMAIN d} : d \in Data \cup {VfsData}}

\* Contents are sequences, and what stands for none is not one.
ASSUME ContentsAssumption == Data \cup {VfsData} \subseteq Seq(Vals) /\ Absent \notin Seq(Vals)

OpenFile == [path : Paths, data : Seq(Vals), pos : Int, writable : BOOLEAN, shares : BOOLEAN]

EBADF == -9
ENOENT == -2
EFAULT == -14

Init ==
  /\ files = <<>> /\ nextFd = FirstFd
  /\ wfiles = [p \in Paths |-> Absent] /\ dirs = {} /\ exited = FALSE /\ rng = Absent
  /\ snaps = [s \in Snaps |-> Absent] /\ taken = [s \in Snaps |-> Absent]
  /\ ret = <<"none", 0>> /\ panicked = FALSE /\ streams = {}

-----------------------------------------------------------------------------
(* vfs.go: the host's resolver comes first for Read, last for Exists.        *)

VfsHas(p) ==
  \/ Resolver[p] = "gives"
  \/ Resolver[p] = "none" /\ (p \in Synth \/ Asset[p] = "present")

Exists(p) ==
  \/ p \in Synth
  \/ p \notin Synth /\ Asset[p] = "present"
  \/ p \notin Synth /\ Asset[p] = "unmapped" /\ Resolver[p] = "gives"

\* What a read-only open finds, and newfstatat and statx measure.
Found(p) == IF VfsHas(p) THEN VfsData ELSE wfiles[p]

-----------------------------------------------------------------------------
IsOpen(fd) == fd \in DOMAIN files
fileData(f) == IF f.writable THEN wfiles[f.path] ELSE f.data

With(fd, f) == [g \in DOMAIN files \cup {fd} |-> IF g = fd THEN f ELSE files[g]]
Without(fd) == [g \in DOMAIN files \ {fd} |-> files[g]]

\* The array of p's file is no longer the overlay's: those that shared it keep it.
PartedNever(fs, p) == fs

Parted(fs, p) ==
  [g \in DOMAIN fs |-> IF fs[g].path = p THEN [fs[g] EXCEPT !.shares = FALSE] ELSE fs[g]]

Overlaid(old, pos, d) ==
  [i \in 1 .. (IF Len(old) > pos + Len(d) THEN Len(old) ELSE pos + Len(d)) |->
     IF i > pos /\ i <= pos + Len(d) THEN d[i - pos]
     ELSE IF i <= Len(old) THEN old[i] ELSE 0]

\* A write inside the array: those that share it see it, up to their length.
Seen(fs, p, pos, d) ==
  [g \in DOMAIN fs |->
     IF fs[g].path = p /\ fs[g].shares
     THEN [fs[g] EXCEPT !.data = SubSeq(Overlaid(@, pos, d), 1, Len(@))] ELSE fs[g]]

\* What becomes of the descriptors in the snapshots.
InSnaps(Op(_)) ==
  [s \in Snaps |-> IF snaps[s] = Absent THEN Absent
                   ELSE [snaps[s] EXCEPT !.files = Op(@)]]

Answer(call, x) == ret' = <<call, x>>
Owners(p, keep) == {fd \in streams : fd \in keep \/ files[fd].path # p}

-----------------------------------------------------------------------------
(* System calls.                                                             *)

OpenWritable ==
  /\ nextFd \in Fds
  /\ \E p \in Paths, trunc, append \in BOOLEAN :
       LET fresh == trunc \/ wfiles[p] = Absent
           old == IF fresh THEN <<>> ELSE wfiles[p]
           fs == IF fresh THEN Parted(files, p) ELSE files
           f == [path |-> p, data |-> <<>>, writable |-> TRUE, shares |-> FALSE,
                 pos |-> IF append THEN Len(old) ELSE 0]
       IN /\ wfiles' = [wfiles EXCEPT ![p] = old]
          /\ files' = [g \in DOMAIN fs \cup {nextFd} |-> IF g = nextFd THEN f ELSE fs[g]]
          /\ snaps' = IF fresh THEN InSnaps(LAMBDA gs : Parted(gs, p)) ELSE snaps
          /\ streams' = (IF fresh THEN Owners(p, {}) ELSE streams)
                        \cup (IF f.pos = Len(old) THEN {nextFd} ELSE {})
  /\ nextFd' = nextFd + 1 /\ Answer("openat", nextFd)
  /\ UNCHANGED <<dirs, exited, rng, panicked, taken>>

OpenReadOnly ==
  \E p \in Paths :
    \/ /\ Found(p) = Absent /\ Answer("openat", ENOENT)
       /\ UNCHANGED <<kernel, snaps, panicked, taken, streams>>
    \/ /\ Found(p) # Absent /\ nextFd \in Fds
       /\ files' = With(nextFd, [path |-> p, data |-> Found(p), pos |-> 0, writable |-> FALSE,
                                 shares |-> ~VfsHas(p)])
       /\ nextFd' = nextFd + 1 /\ Answer("openat", nextFd)
       /\ UNCHANGED <<wfiles, dirs, exited, rng, snaps, panicked, taken, streams>>

closeStdioReuses ==
  \E fd \in Fds \cup Stdio \cup {-1} :
    /\ IF IsOpen(fd) \/ fd \in Stdio
       THEN /\ files' = Without(fd) /\ Answer("close", 0)
            /\ nextFd' = IF fd \in Stdio THEN fd ELSE nextFd
       ELSE UNCHANGED <<files, nextFd>> /\ Answer("close", EBADF)
    /\ streams' = streams \ {fd}
    /\ UNCHANGED <<wfiles, dirs, exited, rng, snaps, panicked, taken>>

closeReusesFd ==
  \E fd \in Fds \cup Stdio \cup {-1} :
    /\ IF IsOpen(fd) \/ fd \in Stdio
       THEN /\ files' = Without(fd) /\ Answer("close", 0)
            /\ nextFd' = IF IsOpen(fd) THEN fd ELSE nextFd
       ELSE UNCHANGED <<files, nextFd>> /\ Answer("close", EBADF)
    /\ streams' = streams \ {fd}
    /\ UNCHANGED <<wfiles, dirs, exited, rng, snaps, panicked, taken>>

\* A close frees neither the number nor the file.
Close ==
  \E fd \in Fds \cup Stdio \cup {-1} :
    /\ IF IsOpen(fd) \/ fd \in Stdio
       THEN files' = Without(fd) /\ Answer("close", 0)
       ELSE files' = files /\ Answer("close", EBADF)
    /\ streams' = streams \ {fd}
    /\ UNCHANGED <<nextFd, wfiles, dirs, exited, rng, snaps, panicked, taken>>

Panic == panicked' = TRUE /\ Answer("panic", 0) /\ UNCHANGED <<kernel, snaps, taken, streams>>

\* `landed`: the guest's buffer takes the bytes.
Read ==
  \E fd \in Fds \cup Stdio, count \in Counts, landed \in BOOLEAN :
    IF ~IsOpen(fd)
    THEN /\ Answer("read", EBADF)
         /\ UNCHANGED <<kernel, snaps, panicked, taken, streams>>
    ELSE LET f == files[fd]
             rem == Len(fileData(f)) - f.pos
             n == IF count > rem THEN rem ELSE count
         IN IF n > 0 /\ f.pos < 0 THEN Panic
            ELSE /\ IF n <= 0 THEN files' = files /\ Answer("read", 0)
                    ELSE IF landed
                    THEN /\ files' = With(fd, [f EXCEPT !.pos = @ + n])
                         /\ Answer("read", SubSeq(fileData(f), f.pos + 1, f.pos + n))
                    ELSE files' = files /\ Answer("read", EFAULT)
                 /\ UNCHANGED <<nextFd, wfiles, dirs, exited, rng, snaps, panicked, taken, streams>>

\* Into the array when it is long enough, else into a longer one.
StoreAt(fd, d) ==
  LET f == files[fd]
      p == f.path
      fits == Len(wfiles[p]) >= f.pos + Len(d)
      Op(gs) == IF fits THEN Seen(gs, p, f.pos, d) ELSE Parted(gs, p)
      fs == Op(files)
  IN /\ wfiles' = [wfiles EXCEPT ![p] = Overlaid(@, f.pos, d)]
     /\ files' = [fs EXCEPT ![fd].pos = @ + Len(d)]
     /\ snaps' = InSnaps(Op)
     /\ streams' = Owners(p, {fd})

Write ==
  \E fd \in Fds \cup Stdio, d \in Data, readable \in BOOLEAN :
    IF IsOpen(fd) /\ files[fd].writable /\ readable
    THEN IF files[fd].pos < 0 THEN Panic
         ELSE /\ files[fd].pos + Len(d) <= MaxLen
              /\ StoreAt(fd, d) /\ Answer("write", Len(d))
              /\ UNCHANGED <<nextFd, dirs, exited, rng, panicked, taken>>
    ELSE /\ IF IsOpen(fd) \/ fd \notin Stdio
            THEN Answer("write", EBADF) ELSE Answer("write", Len(d))
         /\ UNCHANGED <<kernel, snaps, panicked, taken, streams>>

\* append, in place or not, wherever the descriptor is.
AppendNoPos(fd, d, inPlace) ==
  LET p == files[fd].path
      Op(gs) == IF inPlace THEN gs ELSE Parted(gs, p)
  IN /\ wfiles' = [wfiles EXCEPT ![p] = @ \o d]
     /\ files' = Op(files)
     /\ snaps' = InSnaps(Op)
     /\ streams' = Owners(p, {fd})

Append1(fd, d, inPlace) ==
  LET p == files[fd].path
      Op(gs) == IF inPlace THEN gs ELSE Parted(gs, p)
  IN /\ wfiles' = [wfiles EXCEPT ![p] = @ \o d]
     /\ files' = [Op(files) EXCEPT ![fd].pos = @ + Len(d)]
     /\ snaps' = InSnaps(Op)
     /\ streams' = Owners(p, {fd})

\* What of two segments the kernel can read is taken, whoever the descriptor is.
Writev ==
  \E fd \in Fds \cup Stdio, d \in Data \cup {<<>>}, e \in Data \cup {<<>>}, inPlace \in BOOLEAN :
    IF IsOpen(fd) /\ files[fd].writable
    THEN /\ Len(wfiles[files[fd].path]) + Len(d \o e) <= MaxLen /\ (d \o e = <<>> => inPlace)
         /\ Append1(fd, d \o e, inPlace) /\ Answer("writev", Len(d \o e))
         /\ UNCHANGED <<nextFd, dirs, exited, rng, panicked, taken>>
    ELSE /\ Answer("writev", Len(d \o e))
         /\ UNCHANGED <<kernel, snaps, panicked, taken, streams>>

Lseek ==
  \E fd \in Fds \cup Stdio, off \in Offsets, whence \in {"SET", "CUR", "END"} :
    IF ~IsOpen(fd)
    THEN Answer("lseek", EBADF) /\ UNCHANGED <<kernel, snaps, panicked, taken, streams>>
    ELSE LET f == files[fd]
             pos == CASE whence = "SET" -> off
                      [] whence = "CUR" -> f.pos + off
                      [] OTHER -> Len(fileData(f)) + off
         IN /\ pos <= MaxLen /\ pos >= -1
            /\ files' = With(fd, [f EXCEPT !.pos = pos])
            /\ streams' = streams \ {fd}
            /\ Answer("lseek", pos)
            /\ UNCHANGED <<nextFd, wfiles, dirs, exited, rng, snaps, panicked, taken>>

Mkdirat ==
  /\ \E p \in Paths : dirs' = dirs \cup {p}
  /\ Answer("mkdirat", 0)
  /\ UNCHANGED <<files, nextFd, wfiles, exited, rng, snaps, panicked, taken, streams>>

Faccessat(p) == IF Exists(p) \/ p \in dirs \/ wfiles[p] # Absent THEN 0 ELSE ENOENT
StatSize(p) == IF p \in dirs THEN "dir" ELSE IF Found(p) = Absent THEN ENOENT ELSE Len(Found(p))
Statx(p) == StatSize(p)

Stat ==
  /\ \/ \E p \in Paths : Answer("faccessat", Faccessat(p)) \/ Answer("stat", StatSize(p))
                      \/ Answer("statx", Statx(p))
     \/ \E fd \in Fds \cup Stdio \cup {-1} :
          Answer("fstat", IF IsOpen(fd) THEN Len(fileData(files[fd]))
                          ELSE IF fd \in Stdio THEN 0 ELSE EBADF)
  /\ UNCHANGED <<kernel, snaps, panicked, taken, streams>>

\* Block after block; a block that does not land has left the stream.
Getrandom ==
  \E n \in 0 .. MaxRand : \E landed \in 0 .. n :
    LET start == IF rng = Absent THEN 0 ELSE rng
        used == IF landed < n THEN landed + 1 ELSE n
    IN /\ start + used <= MaxRand
       /\ rng' = IF n = 0 THEN rng ELSE start + used
       /\ Answer("getrandom", IF landed = 0 /\ n > 0 THEN EFAULT ELSE landed)
       /\ UNCHANGED <<files, nextFd, wfiles, dirs, exited, snaps, panicked, taken, streams>>

sysExit ==
  /\ exited' = TRUE /\ Answer("exit", 0)
  /\ UNCHANGED <<files, nextFd, wfiles, dirs, rng, snaps, panicked, taken, streams>>

-----------------------------------------------------------------------------
(* The host.                                                                 *)

State == [files |-> files, nextFd |-> nextFd, wfiles |-> wfiles, dirs |-> dirs,
          exited |-> exited, rng |-> rng]

Snapshot ==
  \E s \in Snaps :
    /\ snaps[s] = Absent
    /\ snaps' = [snaps EXCEPT ![s] = State] /\ taken' = [taken EXCEPT ![s] = State]
    /\ Answer("Snapshot", s)
    /\ UNCHANGED <<kernel, panicked, streams>>

\* The overlay is copied: nobody shares the arrays of the copy.
Copied(fs) == [g \in DOMAIN fs |-> [fs[g] EXCEPT !.shares = FALSE]]

RewoundRng(st) == IF st.rng = Absent THEN Absent
                  ELSE IF rng # Absent THEN st.rng ELSE Absent

RestoreKeepsFds ==
  \E s \in Snaps :
    /\ snaps[s] # Absent
    /\ LET st == snaps[s]
       IN /\ files' = Copied(st.files) /\ nextFd' = nextFd /\ wfiles' = st.wfiles
          /\ dirs' = st.dirs /\ exited' = st.exited /\ rng' = RewoundRng(st)
    /\ snaps' = InSnaps(Copied) /\ streams' = {}
    /\ Answer("Restore", s)
    /\ UNCHANGED <<panicked, taken>>

Restore ==
  \E s \in Snaps :
    /\ snaps[s] # Absent
    /\ LET st == snaps[s]
       IN /\ files' = Copied(st.files) /\ nextFd' = st.nextFd /\ wfiles' = st.wfiles
          /\ dirs' = st.dirs /\ exited' = st.exited /\ rng' = RewoundRng(st)
    /\ snaps' = InSnaps(Copied) /\ streams' = {}
    /\ Answer("Restore", s)
    /\ UNCHANGED <<panicked, taken>>

Syscall == OpenWritable \/ OpenReadOnly \/ Close \/ Read \/ Write \/ Writev \/ Lseek
           \/ Mkdirat \/ Stat \/ Getrandom \/ sysExit

Next == ~panicked /\ ((~exited /\ Syscall) \/ Snapshot \/ Restore)

Spec == Init /\ [][Next]_vars

-----------------------------------------------------------------------------
Tables == {snaps[s] : s \in {t \in Snaps : snaps[t] # Absent}} \cup {State}

(* Every variable has its type.                                             *)
TypeOK ==
  /\ \A t \in Tables :
       /\ DOMAIN t.files \subseteq Fds /\ \A fd \in DOMAIN t.files : t.files[fd] \in OpenFile
       /\ t.nextFd \in FirstFd .. FirstFd + MaxFd
       /\ \A p \in Paths : t.wfiles[p] = Absent \/ t.wfiles[p] \in Seq(Vals)
       /\ t.dirs \subseteq Paths /\ t.exited \in BOOLEAN /\ t.rng \in 0 .. MaxRand \cup {Absent}
  /\ streams \subseteq DOMAIN files /\ panicked \in BOOLEAN

(* A descriptor that opened its file at the end, never sought in it, and      *)
(* shares it with no later writer stands at the end of the file, whichever    *)
(* mix of write (at the position), writev (at the end) and read it used: its  *)
(* output is one stream (sysWrite, sysWritev).                                *)
StreamAtEnd == \A fd \in streams : files[fd].pos = Len(wfiles[files[fd].path])

(* No open lands on a live descriptor, after any closes, snapshots and        *)
(* restores in any order: all live numbers are below the next one, in the     *)
(* kernel and in each snapshot.                                               *)
FreshFd == \A t \in Tables : \A fd \in DOMAIN t.files : fd < t.nextFd

(* A read-only descriptor of an overlay file that still holds the overlay's   *)
(* array shows a prefix of the file as it is now, here and in the snapshots   *)
(* that hold it: truncation and growth leave a reader behind with the old     *)
(* bytes, never with a mix of old and new (openFile.data).                    *)
SharedViewIsPrefix ==
  \A t \in Tables : \A fd \in DOMAIN t.files :
    LET f == t.files[fd]
    IN f.shares => /\ ~f.writable /\ wfiles[f.path] # Absent /\ Len(f.data) <= Len(wfiles[f.path])
                   /\ f.data = SubSeq(wfiles[f.path], 1, Len(f.data))

(* Restore puts back the descriptors, their positions, the overlay, the       *)
(* directories and the exit latch as they were when the snapshot was taken,   *)
(* however often it is restored and whatever was written in between.  Two     *)
(* things the code does not put back are left out: the bytes under a          *)
(* descriptor that shared the overlay's array, and a random stream the        *)
(* instance has forgotten in the meantime.                                    *)
RestoreRewinds ==
  [][ret'[1] = "Restore" =>
       LET was == taken[ret'[2]]
       IN /\ nextFd' = was.nextFd /\ wfiles' = was.wfiles /\ dirs' = was.dirs
          /\ exited' = was.exited /\ (rng # Absent \/ was.rng = Absent => rng' = was.rng)
          /\ DOMAIN files' = DOMAIN was.files
          /\ \A fd \in DOMAIN files' :
               /\ files'[fd].path = was.files[fd].path /\ files'[fd].pos = was.files[fd].pos
               /\ files'[fd].writable = was.files[fd].writable
               /\ was.files[fd].shares \/ files'[fd].data = was.files[fd].data]_vars
=============================================================================
