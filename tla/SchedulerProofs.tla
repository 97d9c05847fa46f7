--------------------------- MODULE SchedulerProofs ---------------------------
(***************************************************************************)
(* The scheduler's invariants, for every number of fibers, slices, rounds,  *)
(* syscalls per slice, futex addresses and contexts.                        *)
(***************************************************************************)
EXTENDS Scheduler, SequenceTheorems, TLAPS

(***************************************************************************)
(* The three ways fibers is updated: one entry, an append, a wake.          *)
(***************************************************************************)
LEMMA SetFiberFacts ==
  ASSUME fibers \in Seq(Fiber), NEW i \in 1 .. Len(fibers), NEW f \in Fiber,
         SetFiber(i, f)
  PROVE  /\ fibers' \in Seq(Fiber) /\ Len(fibers') = Len(fibers)
         /\ DOMAIN fibers = 1 .. Len(fibers) /\ DOMAIN fibers' = 1 .. Len(fibers)
         /\ \A j \in 1 .. Len(fibers) : fibers'[j] = IF j = i THEN f ELSE fibers[j]
<1>1. fibers' = [fibers EXCEPT ![i] = f]
  BY DEF SetFiber
<1>2. QED
  BY <1>1, ExceptSeq, LenProperties

LEMMA AppendFacts ==
  ASSUME fibers \in Seq(Fiber), NEW f \in Fiber, fibers' = Append(fibers, f)
  PROVE  /\ fibers' \in Seq(Fiber) /\ Len(fibers') = Len(fibers) + 1
         /\ DOMAIN fibers = 1 .. Len(fibers) /\ DOMAIN fibers' = 1 .. Len(fibers) + 1
         /\ \A j \in 1 .. Len(fibers) : fibers'[j] = fibers[j]
         /\ fibers'[Len(fibers) + 1] = f
OBVIOUS

Woken(f, a) == IF ParkedOn(f, a) THEN [f EXCEPT !.state = "runnable"] ELSE f

LEMMA WokenFacts ==
  ASSUME NEW f \in Fiber, NEW a \in Addrs
  PROVE  /\ Woken(f, a) \in Fiber
         /\ Woken(f, a).id = f.id /\ Woken(f, a).ctx = f.ctx
         /\ Woken(f, a).started = f.started /\ Woken(f, a).slices = f.slices
         /\ Woken(f, a).ret = f.ret
         /\ Woken(f, a).state = IF ParkedOn(f, a) THEN "runnable" ELSE f.state
BY DEF Woken, ParkedOn, Fiber, States

LEMMA WakeFacts ==
  ASSUME fibers \in Seq(Fiber), NEW a \in Addrs, fibers' = wakeFutex(a)
  PROVE  /\ fibers' \in Seq(Fiber) /\ Len(fibers') = Len(fibers)
         /\ DOMAIN fibers = 1 .. Len(fibers) /\ DOMAIN fibers' = 1 .. Len(fibers)
         /\ \A j \in 1 .. Len(fibers) : fibers'[j] = Woken(fibers[j], a)
<1>1. DOMAIN fibers = 1 .. Len(fibers) /\ Len(fibers) \in Nat
  BY LenProperties
<1>2. fibers' = [j \in 1 .. Len(fibers) |-> Woken(fibers[j], a)]
  BY <1>1 DEF wakeFutex, Woken
<1>3. \A j \in 1 .. Len(fibers) : fibers[j] \in Fiber
  BY ElementOfSeq
<1>4. fibers' \in [1 .. Len(fibers) -> Fiber]
  BY <1>2, <1>3, WokenFacts
<1>5. fibers' \in Seq(Fiber)
  BY <1>1, <1>4, SeqDef
<1>6. Len(fibers') = Len(fibers)
  BY <1>1, <1>2, <1>5, LenProperties
<1>7. QED
  BY <1>1, <1>2, <1>5, <1>6

LEMMA FiberTyped ==
  ASSUME fibers \in Seq(Fiber)
  PROVE  /\ Len(fibers) \in Nat /\ DOMAIN fibers = 1 .. Len(fibers)
         /\ \A i \in 1 .. Len(fibers) :
              /\ fibers[i] \in Fiber
              /\ fibers[i].id \in Ids /\ fibers[i].started \in BOOLEAN
              /\ fibers[i].ctx \in Ctxs \cup {NoCtx} /\ fibers[i].state \in States
              /\ fibers[i].waitAddr \in Addrs /\ fibers[i].slices \in Nat
              /\ fibers[i].ret \in Rets
<1>1. Len(fibers) \in Nat /\ DOMAIN fibers = 1 .. Len(fibers)
  BY LenProperties
<1>2. \A i \in 1 .. Len(fibers) : fibers[i] \in Fiber
  BY ElementOfSeq
<1>3. QED
  BY <1>1, <1>2 DEF Fiber

(***************************************************************************)
(* Ownership of contexts.  A step keeps the holders when it allocates and   *)
(* frees nothing and every fiber holds what it held.                        *)
(***************************************************************************)
HoldersKept ==
  /\ UNCHANGED <<live, saved, orphans, mainCtx, snap>>
  /\ \A i \in DOMAIN fibers : i \in DOMAIN fibers' /\ fibers'[i].ctx = fibers[i].ctx
  /\ \A i \in DOMAIN fibers' : i \notin DOMAIN fibers => fibers'[i].ctx = NoCtx

LEMMA HoldersKeptOwned ==
  ASSUME ContextsOwned, HoldersKept
  PROVE  ContextsOwned'
<1>1. FiberCtxs' = FiberCtxs
  BY DEF FiberCtxs, HoldersKept
<1>2. QED
  BY <1>1 DEF ContextsOwned, HoldersKept

LEMMA FiberCtxsMember ==
  ASSUME NEW i \in DOMAIN fibers, fibers[i].ctx # NoCtx
  PROVE  fibers[i].ctx \in FiberCtxs
BY DEF FiberCtxs

(***************************************************************************)
(* Guest code.                                                              *)
(***************************************************************************)
LEMMA Moved ==
  ASSUME cpu \in CPUState, NEW p \in Points, cpu' = [cpu EXCEPT !.at = p]
  PROVE  cpu' \in CPUState /\ cpu'.who = cpu.who
BY DEF CPUState

LEMMA PointsFacts == Sentinel \in Points /\ 0 .. MaxPoint \subseteq Points
BY BoundsAssumption DEF Points, Sentinel

LEMMA StepTyped ==
  ASSUME TypeOK, Step
  PROVE  cpu' \in CPUState /\ cpu'.who = cpu.who
<1>1. PICK p \in 0 .. MaxPoint : cpu' = [cpu EXCEPT !.at = p]
  BY DEF Step
<1>2. QED
  BY <1>1, Moved, PointsFacts DEF TypeOK

\* The actions of guest code that leave the list of fibers alone.
QuietGuest == Uncounted \/ FutexWait \/ Nanosleep \/ Syscall \/ sysExit
              \/ StrayStop \/ GuestReturn

LEMMA QuietGuestStep ==
  ASSUME IInv, QuietGuest
  PROVE  IInv'
<1> USE DEF Executing, InFiber, Yield
<1>1. UNCHANGED <<fibers, nextFiberID, cur, loopVars, snap, live, saved, orphans>>
  BY DEF QuietGuest, Uncounted, FutexWait, Nanosleep, Syscall, sysExit, StrayStop,
         GuestReturn, yieldVars
<1>2. cpu' \in CPUState /\ cpu'.who = cpu.who
  <2>1. CASE Step
    BY <2>1, StepTyped DEF IInv
  <2>2. CASE GuestReturn
    BY <2>2, Moved, PointsFacts DEF GuestReturn, IInv, TypeOK
  <2>3. QED
    BY <2>1, <2>2 DEF QuietGuest, Uncounted, FutexWait, Nanosleep, Syscall, sysExit,
       StrayStop
<1>3. /\ ctl \in {"call", "slice"} /\ exited' \in BOOLEAN
      /\ ctl' \in IF InFiber THEN {"slice", "stopped"} ELSE {"call", "idle"}
  BY DEF QuietGuest, Uncounted, FutexWait, Nanosleep, Syscall, sysExit, StrayStop,
         GuestReturn, IInv, TypeOK, Shape
<1>4. /\ yieldReason' \in Yields /\ yieldAddr' \in Addrs
      /\ threadOps' \in 0 .. SliceCap + 1
      /\ ctl' = "slice" => threadOps' <= SliceCap
      /\ ~InFiber => threadOps' = 0
  <2>1. CASE Syscall
    BY <2>1, BoundsAssumption DEF Syscall, IInv, TypeOK, Shape, BudgetsHold, yieldVars, Yields
  <2>2. CASE threadOps' = threadOps
    <3>1. ctl' = "slice" => ctl = "slice"
      BY <2>2 DEF QuietGuest, Uncounted, FutexWait, Nanosleep, Syscall, sysExit, StrayStop,
         GuestReturn, IInv, Shape
    <3>2. yieldReason' \in Yields /\ yieldAddr' \in Addrs
      BY <2>2 DEF QuietGuest, Uncounted, FutexWait, Nanosleep, Syscall, sysExit, StrayStop,
         GuestReturn, IInv, TypeOK, yieldVars, Yields
    <3>3. QED
      BY <2>2, <3>1, <3>2 DEF IInv, TypeOK, Shape, BudgetsHold
  <2>3. QED
    BY <2>1, <2>2 DEF QuietGuest, Uncounted, FutexWait, Nanosleep, sysExit, StrayStop,
       GuestReturn, yieldVars
<1>5. TypeOK'
  BY <1>1, <1>2, <1>3, <1>4 DEF IInv, TypeOK, Controls, loopVars
<1>6. Shape'
  BY <1>1, <1>3, <1>4 DEF IInv, Shape, loopVars, Eligible, Spent
<1>7. ContextsOwned'
  BY <1>1, HoldersKeptOwned DEF IInv, HoldersKept, loopVars
<1>8. ContextsIntact'
  BY <1>1, <1>2 DEF IInv, ContextsIntact, loopVars
<1>9. BudgetsHold'
  BY <1>1, <1>4, <1>5 DEF IInv, BudgetsHold, TypeOK
<1>10. QED
  BY <1>5, <1>6, <1>7, <1>8, <1>9 DEF IInv

LEMMA CreateStep ==
  ASSUME IInv, hostPthreadCreate
  PROVE  IInv'
<1> DEFINE n == Len(fibers)
           f == NewFiber(nextFiberID + 1)
<1>1. /\ UNCHANGED <<ctl, cur, yieldVars, loopVars, exited, snap, live, saved, orphans>>
      /\ nextFiberID' \in 0 .. MaxFibers /\ nextFiberID + 1 \in Ids
      /\ fibers' = Append(fibers, f) /\ fibers \in Seq(Fiber)
  BY BoundsAssumption DEF hostPthreadCreate, IInv, TypeOK, Ids
<1>2. f \in Fiber /\ f.ctx = NoCtx /\ f.slices = 0
  BY <1>1, ValuesAssumption DEF NewFiber, Fiber, States
<1>3. /\ fibers' \in Seq(Fiber) /\ Len(fibers') = n + 1 /\ n \in Nat
      /\ DOMAIN fibers = 1 .. n /\ DOMAIN fibers' = 1 .. n + 1
      /\ \A j \in 1 .. n : fibers'[j] = fibers[j]
      /\ fibers'[n + 1] = f
  BY <1>1, <1>2, AppendFacts, FiberTyped
<1>4. cpu' \in CPUState /\ cpu'.who = cpu.who
  BY StepTyped DEF hostPthreadCreate, IInv
<1>5. TypeOK'
  BY <1>1, <1>3, <1>4 DEF IInv, TypeOK, yieldVars, loopVars
<1>6. Shape'
  BY <1>1, <1>3 DEF IInv, TypeOK, Shape, InFiber, Eligible, Spent, loopVars,
         yieldVars
<1>7. ContextsOwned'
  <2>1. HoldersKept
    BY <1>1, <1>2, <1>3 DEF HoldersKept, loopVars
  <2>2. QED
    BY <2>1, HoldersKeptOwned DEF IInv
<1>8. ContextsIntact'
  BY <1>1, <1>2, <1>3, <1>4 DEF IInv, TypeOK, ContextsIntact, InFiber, loopVars
<1>9. BudgetsHold'
  BY <1>1, <1>2, <1>3, BoundsAssumption DEF IInv, BudgetsHold, yieldVars
<1>10. QED
  BY <1>5, <1>6, <1>7, <1>8, <1>9 DEF IInv

LEMMA WakeStep ==
  ASSUME IInv, FutexWake
  PROVE  IInv'
<1> DEFINE n == Len(fibers)
<1>1. /\ UNCHANGED <<ctl, nextFiberID, cur, yieldVars, loopVars, exited, snap, live,
                     saved, orphans>>
      /\ fibers \in Seq(Fiber)
  BY DEF FutexWake, IInv, TypeOK
<1>2. PICK a \in Addrs : fibers' = wakeFutex(a)
  BY DEF FutexWake
<1>3. /\ fibers' \in Seq(Fiber) /\ Len(fibers') = n /\ n \in Nat
      /\ DOMAIN fibers = 1 .. n /\ DOMAIN fibers' = 1 .. n
      /\ \A j \in 1 .. n : fibers'[j] = Woken(fibers[j], a)
  BY <1>1, <1>2, WakeFacts, FiberTyped
<1>4. \A j \in 1 .. n :
        /\ fibers'[j].id = fibers[j].id /\ fibers'[j].ctx = fibers[j].ctx
        /\ fibers'[j].started = fibers[j].started
        /\ fibers'[j].slices = fibers[j].slices
        /\ fibers'[j].state = IF ParkedOn(fibers[j], a) THEN "runnable"
                                                      ELSE fibers[j].state
  BY <1>1, <1>3, WokenFacts, FiberTyped
<1>5. cpu' \in CPUState /\ cpu'.who = cpu.who
  BY StepTyped DEF FutexWake, IInv
<1>6. TypeOK'
  BY <1>1, <1>3, <1>5 DEF IInv, TypeOK, yieldVars, loopVars
<1>7. Shape'
  BY <1>1, <1>3, <1>4 DEF IInv, TypeOK, Shape, InFiber, Eligible, Spent, loopVars,
         yieldVars
<1>8. ContextsOwned'
  <2>1. HoldersKept
    BY <1>1, <1>3, <1>4 DEF HoldersKept, loopVars
  <2>2. QED
    BY <2>1, HoldersKeptOwned DEF IInv
<1>9. ContextsIntact'
  BY <1>1, <1>3, <1>4, <1>5 DEF IInv, TypeOK, ContextsIntact, InFiber, loopVars, ParkedOn
<1>10. BudgetsHold'
  BY <1>1, <1>3, <1>4 DEF IInv, BudgetsHold, yieldVars
<1>11. QED
  BY <1>6, <1>7, <1>8, <1>9, <1>10 DEF IInv

(***************************************************************************)
(* Contexts allocated and freed.                                            *)
(***************************************************************************)
LEMMA FreshFacts ==
  ASSUME TypeOK, CanSave
  PROVE  FreshCtx \in Ctxs /\ FreshCtx \notin live /\ FreshCtx # NoCtx
<1>1. \E c \in Ctxs : c \notin live
  BY DEF CanSave, TypeOK
<1>2. FreshCtx \in Ctxs /\ FreshCtx \notin live
  BY <1>1 DEF FreshCtx
<1>3. QED
  BY <1>2, ValuesAssumption

LEMMA SaveTyped ==
  ASSUME TypeOK, NEW c \in Ctxs, SaveContext(c)
  PROVE  /\ live' \in SUBSET Ctxs /\ saved' \in [Ctxs -> CPUState \cup {Garbage}]
         /\ saved'[c] = cpu /\ \A d \in Ctxs \ {c} : saved'[d] = saved[d]
BY DEF TypeOK, SaveContext

LEMMA FreeTyped ==
  ASSUME TypeOK, NEW cs, Free(cs)
  PROVE  /\ live' \in SUBSET Ctxs /\ saved' \in [Ctxs -> CPUState \cup {Garbage}]
         /\ \A d \in Ctxs \ cs : saved'[d] = saved[d]
BY DEF TypeOK, Free

\* A fiber's context is freed and forgotten together.
LEMMA FiberCtxFreed ==
  ASSUME TypeOK, ContextsOwned, NEW i \in 1 .. Len(fibers),
         NEW f \in Fiber, f.ctx = NoCtx, SetFiber(i, f), Free({fibers[i].ctx}),
         UNCHANGED <<orphans, mainCtx, snap>>
  PROVE  /\ ContextsOwned'
         /\ \A j \in 1 .. Len(fibers) : fibers'[j].ctx # NoCtx =>
              /\ fibers'[j] = fibers[j]
              /\ saved'[fibers[j].ctx] = saved[fibers[j].ctx]
         /\ \A c \in {mainCtx, snap.ctx} \ {NoCtx} : saved'[c] = saved[c]
<1> DEFINE x == fibers[i].ctx
<1>1. /\ DOMAIN fibers = 1 .. Len(fibers) /\ DOMAIN fibers' = 1 .. Len(fibers)
      /\ \A j \in 1 .. Len(fibers) : fibers'[j] = IF j = i THEN f ELSE fibers[j]
  BY SetFiberFacts DEF TypeOK
<1>2. live' = live \ {x}
  BY DEF Free
<1>3. FiberCtxs' = FiberCtxs \ {x}
  BY <1>1 DEF FiberCtxs, ContextsOwned
<1>4. x \in Ctxs \cup {NoCtx} /\ (x # NoCtx => x \in FiberCtxs)
  BY <1>1, FiberTyped, FiberCtxsMember DEF TypeOK
<1>5. ContextsOwned'
  <2>1. \A j, k \in DOMAIN fibers' :
          j # k /\ fibers'[j].ctx # NoCtx => fibers'[j].ctx # fibers'[k].ctx
    BY <1>1 DEF ContextsOwned
  <2>2. mainCtx' \notin FiberCtxs' /\ (snap.ctx)' \notin FiberCtxs'
    BY <1>3 DEF ContextsOwned
  <2>3. orphans' \cap (FiberCtxs' \cup {mainCtx', (snap.ctx)'}) = {}
    BY <1>3 DEF ContextsOwned
  <2>4. live' = orphans' \cup FiberCtxs' \cup ({mainCtx', (snap.ctx)'} \ {NoCtx})
    BY <1>2, <1>3, <1>4, ValuesAssumption DEF ContextsOwned, TypeOK
  <2>5. QED
    BY <2>1, <2>2, <2>3, <2>4 DEF ContextsOwned
<1>6. \A j \in 1 .. Len(fibers) : fibers'[j].ctx # NoCtx =>
         /\ fibers'[j] = fibers[j]
         /\ saved'[fibers[j].ctx] = saved[fibers[j].ctx]
  <2> SUFFICES ASSUME NEW j \in 1 .. Len(fibers), fibers'[j].ctx # NoCtx
               PROVE  /\ fibers'[j] = fibers[j]
                      /\ saved'[fibers[j].ctx] = saved[fibers[j].ctx]
    OBVIOUS
  <2>1. j # i /\ fibers'[j] = fibers[j]
    BY <1>1
  <2>2. fibers[j].ctx # x /\ fibers[j].ctx \in Ctxs
    BY <2>1, <1>1, FiberTyped DEF ContextsOwned, TypeOK
  <2>3. QED
    BY <2>1, <2>2, FreeTyped
<1>7. \A c \in {mainCtx, snap.ctx} \ {NoCtx} : saved'[c] = saved[c]
  <2> SUFFICES ASSUME NEW c \in {mainCtx, snap.ctx} \ {NoCtx}
               PROVE  saved'[c] = saved[c]
    OBVIOUS
  <2>1. c \in Ctxs /\ c # x
    BY <1>4 DEF TypeOK, ContextsOwned
  <2>2. QED
    BY <2>1, FreeTyped
<1>8. QED
  BY <1>5, <1>6, <1>7

(***************************************************************************)
(* The end of a slice.                                                      *)
(***************************************************************************)
LEMMA CurFacts ==
  ASSUME IInv, ctl \in {"slice", "stopped"}
  PROVE  /\ cur \in 1 .. Len(fibers) /\ fibers[cur] \in Fiber
         /\ fibers[cur].ctx = NoCtx /\ fibers[cur].started
         /\ fibers[cur].slices < MaxSlices /\ mainCtx # NoCtx
         /\ cpu.who = fibers[cur].id
<1>1. cur # 0 /\ cur \in 1 .. Len(fibers)
  BY FiberTyped DEF IInv, Shape, InFiber, TypeOK
<1>2. fibers[cur] \in Fiber /\ fibers[cur].slices \in Nat
  BY <1>1, FiberTyped DEF IInv, TypeOK
<1>3. QED
  BY <1>1, <1>2, BoundsAssumption DEF IInv, Shape, InFiber, Spent, ContextsIntact

LEMMA EndSliceFacts ==
  ASSUME EndSlice
  PROVE  /\ cur' = 0 /\ yieldReason' \in Yields /\ yieldAddr' \in Addrs
         /\ threadOps' = 0 /\ threadOps' \in 0 .. SliceCap + 1
BY BoundsAssumption, ValuesAssumption DEF EndSlice, Yields

\* The epilogues that leave the fiber without a context.
LEMMA SliceOverStep ==
  ASSUME IInv, SliceFault \/ SliceDone \/ SliceSaveFails
  PROVE  IInv'
<1> DEFINE n == Len(fibers)
<1>1. /\ ctl \in {"slice", "stopped"} /\ EndSlice /\ NextFiber
      /\ UNCHANGED <<nextFiberID, round, limit, mainCtx, exited, snap, cpu, live,
                     saved, orphans>>
  BY DEF SliceFault, SliceDone, SliceSaveFails, engine
<1>2. /\ cur \in 1 .. n /\ fibers[cur] \in Fiber /\ fibers[cur].ctx = NoCtx
      /\ mainCtx # NoCtx
  BY <1>1, CurFacts
<1>3. PICK f \in Fiber : SetFiber(cur, f) /\ f.ctx = NoCtx /\ f.slices = fibers[cur].slices
  <2>1. \A s \in {"done", "parked"}, r \in Rets :
          LET f == [fibers[cur] EXCEPT !.state = s, !.ret = r]
          IN f \in Fiber /\ f.ctx = NoCtx /\ f.slices = fibers[cur].slices
    BY <1>2 DEF Fiber, States
  <2>2. \A s \in {"done", "parked"} :
          LET f == [fibers[cur] EXCEPT !.state = s]
          IN f \in Fiber /\ f.ctx = NoCtx /\ f.slices = fibers[cur].slices
    BY <1>2 DEF Fiber, States
  <2>3. QED
    BY <2>1, <2>2 DEF SliceFault, SliceDone, SliceSaveFails
<1>4. /\ fibers' \in Seq(Fiber) /\ Len(fibers') = n /\ n \in Nat
      /\ DOMAIN fibers = 1 .. n /\ DOMAIN fibers' = 1 .. n
      /\ \A j \in 1 .. n : fibers'[j] = IF j = cur THEN f ELSE fibers[j]
  BY <1>2, <1>3, SetFiberFacts, FiberTyped DEF IInv, TypeOK
<1>5. idx' = idx + 1 /\ progressed' = TRUE /\ ctl' = "pick"
  BY <1>1 DEF NextFiber
<1>6. TypeOK'
  BY <1>1, <1>4, <1>5, EndSliceFacts DEF IInv, TypeOK, Controls
<1>7. Shape'
  <2>1. limit' <= Len(fibers') /\ (snap' # NoSnap => (snap.ctx)' # NoCtx)
    BY <1>1, <1>4, <1>5 DEF IInv, Shape, TypeOK
  <2>2. ~InFiber' /\ mainCtx' # NoCtx /\ idx' >= 1
    BY <1>1, <1>2, <1>5, EndSliceFacts DEF IInv, Shape, TypeOK, InFiber
  <2>3. QED
    BY <2>1, <2>2, <1>1, <1>5, EndSliceFacts DEF Shape
<1>8. ContextsOwned'
  <2>1. HoldersKept
    BY <1>1, <1>2, <1>3, <1>4 DEF HoldersKept
  <2>2. QED
    BY <2>1, HoldersKeptOwned DEF IInv
<1>9. ContextsIntact'
  <2>1. \A i \in DOMAIN fibers' : fibers'[i].ctx # NoCtx => fibers'[i] = fibers[i]
    BY <1>3, <1>4
  <2>2. ~InFiber' /\ mainCtx' # NoCtx
    BY <1>1, <1>2, EndSliceFacts DEF InFiber
  <2>3. \A i \in DOMAIN fibers' : (fibers[i].ctx # NoCtx =>
             /\ saved[fibers[i].ctx] # Garbage
             /\ saved[fibers[i].ctx].who = fibers[i].id
             /\ fibers[i].started
             /\ fibers[i].state \in {"runnable", "sleeping", "waiting"})'
    BY <2>1, <1>1, <1>4 DEF IInv, ContextsIntact
  <2>4. \A c \in {mainCtx', (snap.ctx)'} \ {NoCtx} : saved'[c] # Garbage /\ saved'[c].who = Main
    BY <1>1 DEF IInv, ContextsIntact
  <2>5. QED
    BY <2>2, <2>3, <2>4 DEF ContextsIntact
<1>10. BudgetsHold'
  <2>1. \A i \in DOMAIN fibers' : fibers'[i].slices <= MaxSlices
    BY <1>2, <1>3, <1>4 DEF IInv, BudgetsHold
  <2>2. threadOps' <= SliceCap + 1 /\ ctl' # "slice"
    BY <1>1, <1>5, EndSliceFacts, BoundsAssumption
  <2>3. QED
    BY <2>1, <2>2 DEF BudgetsHold
<1>11. QED
  BY <1>6, <1>7, <1>8, <1>9, <1>10 DEF IInv

LEMMA SliceSavedStep ==
  ASSUME IInv, SliceSaved
  PROVE  IInv'
<1> DEFINE n == Len(fibers)
           c == FreshCtx
           f == Suspended(fibers[cur], c)
<1>1. /\ ctl = "stopped" /\ EndSlice /\ NextFiber /\ CanSave /\ SaveContext(c)
      /\ SetFiber(cur, f)
      /\ UNCHANGED <<nextFiberID, round, limit, mainCtx, exited, snap, cpu, orphans>>
  BY DEF SliceSaved
<1>2. /\ cur \in 1 .. n /\ fibers[cur] \in Fiber /\ fibers[cur].ctx = NoCtx
      /\ fibers[cur].started /\ fibers[cur].slices < MaxSlices
      /\ mainCtx # NoCtx /\ cpu.who = fibers[cur].id
  BY <1>1, CurFacts
<1>3. c \in Ctxs /\ c \notin live /\ c # NoCtx
  BY <1>1, FreshFacts DEF IInv
<1>4. /\ f \in Fiber /\ f.ctx = c /\ f.id = fibers[cur].id /\ f.started
      /\ f.slices <= MaxSlices /\ f.state \in {"sleeping", "waiting"}
  <2> DEFINE g == [fibers[cur] EXCEPT !.ctx = c, !.slices = @ + 1]
  <2>1. fibers[cur].slices \in Nat /\ yieldAddr \in Addrs
    BY <1>2 DEF Fiber, IInv, TypeOK
  <2>2. /\ g \in Fiber /\ g.ctx = c /\ g.id = fibers[cur].id /\ g.started
        /\ g.slices = fibers[cur].slices + 1
    <3> DEFINE k == fibers[cur].slices + 1
               r == fibers[cur]
    <3>1. k \in Nat /\ g = [r EXCEPT !.ctx = c, !.slices = k]
      BY <2>1
    <3>2. r \in Fiber /\ r.started
      BY <1>2
    <3> HIDE DEF k, r
    <3>3. /\ g \in Fiber /\ g.ctx = c /\ g.id = r.id /\ g.started /\ g.slices = k
      BY <3>1, <3>2, <1>3 DEF Fiber
    <3>4. QED
      BY <3>3 DEF k, r
  <2>3. g.slices <= MaxSlices
    BY <2>1, <2>2, <1>2, BoundsAssumption
  <2> HIDE DEF g
  <2>4. CASE yieldReason = "futexWait"
    <3>1. f = [g EXCEPT !.state = "waiting", !.waitAddr = yieldAddr]
      BY <2>4 DEF Suspended, g
    <3>2. QED
      BY <3>1, <2>1, <2>2, <2>3 DEF Fiber, States
  <2>5. CASE yieldReason # "futexWait"
    <3>1. f = [g EXCEPT !.state = "sleeping"]
      BY <2>5 DEF Suspended, g
    <3>2. QED
      BY <3>1, <2>2, <2>3 DEF Fiber, States
  <2>6. QED
    BY <2>4, <2>5
<1>5. /\ fibers' \in Seq(Fiber) /\ Len(fibers') = n /\ n \in Nat
      /\ DOMAIN fibers = 1 .. n /\ DOMAIN fibers' = 1 .. n
      /\ \A j \in 1 .. n : fibers'[j] = IF j = cur THEN f ELSE fibers[j]
  BY <1>1, <1>2, <1>4, SetFiberFacts, FiberTyped DEF IInv, TypeOK
<1>6. idx' = idx + 1 /\ progressed' = TRUE /\ ctl' = "pick"
  BY <1>1 DEF NextFiber
<1>7. /\ live' \in SUBSET Ctxs /\ saved' \in [Ctxs -> CPUState \cup {Garbage}]
      /\ saved'[c] = cpu /\ \A d \in Ctxs \ {c} : saved'[d] = saved[d]
      /\ live' = live \cup {c}
  BY <1>1, <1>3, SaveTyped DEF IInv, SaveContext
<1>8. c \notin orphans /\ c \notin FiberCtxs /\ c # mainCtx /\ c # snap.ctx
  BY <1>3 DEF IInv, ContextsOwned
<1>9. TypeOK'
  BY <1>1, <1>5, <1>6, <1>7, EndSliceFacts DEF IInv, TypeOK, Controls
<1>10. Shape'
  <2>1. limit' <= Len(fibers') /\ (snap' # NoSnap => (snap.ctx)' # NoCtx)
    BY <1>1, <1>2, <1>5 DEF IInv, Shape, TypeOK
  <2>2. ~InFiber' /\ mainCtx' # NoCtx /\ idx' >= 1
    BY <1>1, <1>2, <1>6, EndSliceFacts DEF IInv, Shape, TypeOK, InFiber
  <2>3. QED
    BY <2>1, <2>2, <1>1, <1>6, EndSliceFacts DEF Shape
<1>11. ContextsOwned'
  <2>1. FiberCtxs' = FiberCtxs \cup {c}
    BY <1>2, <1>3, <1>4, <1>5 DEF FiberCtxs
  <2>2. \A j, k \in DOMAIN fibers' :
          j # k /\ fibers'[j].ctx # NoCtx => fibers'[j].ctx # fibers'[k].ctx
    <3>1. \A j \in 1 .. n : fibers[j].ctx # c
      BY <1>3, <1>5, <1>8, FiberCtxsMember
    <3>2. QED
      BY <3>1, <1>3, <1>4, <1>5 DEF IInv, ContextsOwned
  <2>3. QED
    BY <2>1, <2>2, <1>1, <1>7, <1>8, <1>3 DEF IInv, ContextsOwned
<1>12. ContextsIntact'
  <2>1. \A i \in DOMAIN fibers' : (fibers[i].ctx # NoCtx =>
             /\ saved[fibers[i].ctx] # Garbage
             /\ saved[fibers[i].ctx].who = fibers[i].id
             /\ fibers[i].started
             /\ fibers[i].state \in {"runnable", "sleeping", "waiting"})'
    <3> SUFFICES ASSUME NEW i \in 1 .. n, (fibers[i].ctx # NoCtx)'
                 PROVE  (/\ saved[fibers[i].ctx] # Garbage
                         /\ saved[fibers[i].ctx].who = fibers[i].id
                         /\ fibers[i].started
                         /\ fibers[i].state \in {"runnable", "sleeping", "waiting"})'
      BY <1>5
    <3>1. CASE i = cur
      BY <3>1, <1>2, <1>4, <1>5, <1>7, GarbageAssumption DEF IInv, TypeOK
    <3>2. CASE i # cur
      <4>1. fibers'[i] = fibers[i] /\ fibers[i].ctx \in Ctxs /\ fibers[i].ctx # c
        BY <3>2, <1>5, <1>8, FiberTyped, FiberCtxsMember DEF IInv, TypeOK
      <4>2. QED
        BY <4>1, <1>5, <1>7 DEF IInv, ContextsIntact
    <3>3. QED
      BY <3>1, <3>2
  <2>2. \A d \in {mainCtx', (snap.ctx)'} \ {NoCtx} :
          saved'[d] # Garbage /\ saved'[d].who = Main
    BY <1>1, <1>7, <1>8 DEF IInv, ContextsIntact, TypeOK
  <2>3. ~InFiber' /\ mainCtx' # NoCtx
    BY <1>1, <1>2, EndSliceFacts DEF InFiber
  <2>4. QED
    BY <2>1, <2>2, <2>3 DEF ContextsIntact
<1>13. BudgetsHold'
  <2>1. \A i \in DOMAIN fibers' : fibers'[i].slices <= MaxSlices
    BY <1>4, <1>5 DEF IInv, BudgetsHold
  <2>2. threadOps' <= SliceCap + 1 /\ ctl' # "slice"
    BY <1>1, <1>6, EndSliceFacts, BoundsAssumption
  <2>3. QED
    BY <2>1, <2>2 DEF BudgetsHold
<1>14. QED
  BY <1>9, <1>10, <1>11, <1>12, <1>13 DEF IInv

(***************************************************************************)
(* Steps that leave the fibers and the contexts alone.                      *)
(***************************************************************************)
QuietHost == SliceExited \/ SkipFiber \/ NextRound \/ LastRound \/ CallFunc
             \/ RestoreFails

LEMMA QuietHostStep ==
  ASSUME IInv, QuietHost
  PROVE  IInv'
<1>1. UNCHANGED <<fibers, nextFiberID, mainCtx, snap, live, saved, orphans>>
  BY DEF QuietHost, SliceExited, SkipFiber, NextRound, LastRound, CallFunc, RestoreFails,
         loopVars, engine
<1>2. /\ ctl' \in Controls /\ exited' \in BOOLEAN
      /\ yieldReason' \in Yields /\ yieldAddr' \in Addrs
      /\ threadOps' \in 0 .. SliceCap + 1 /\ progressed' \in BOOLEAN
      /\ cur' \in 0 .. Len(fibers)
  <2> USE DEF IInv, TypeOK, Controls
  <2>1. CASE SliceExited
    BY <2>1, EndSliceFacts, FiberTyped DEF SliceExited, loopVars
  <2>2. CASE UNCHANGED <<cur, yieldVars>>
    <3>1. ctl' \in Controls /\ exited' \in BOOLEAN /\ progressed' \in BOOLEAN
      BY DEF QuietHost, SliceExited, SkipFiber, NextRound, LastRound, CallFunc,
         RestoreFails, loopVars
    <3>2. QED
      BY <2>2, <3>1 DEF yieldVars
  <2>3. QED
    BY <2>1, <2>2 DEF QuietHost, SkipFiber, NextRound, LastRound, CallFunc, RestoreFails
<1>3. /\ round' \in 0 .. MaxRounds /\ idx' \in Nat /\ limit' \in Nat /\ idx' >= 1
      /\ mainCtx # NoCtx => limit' <= Len(fibers)
  <2>1. CASE NextRound
    BY <2>1, BoundsAssumption, FiberTyped DEF NextRound, IInv, TypeOK
  <2>2. CASE SkipFiber
    BY <2>2 DEF SkipFiber, IInv, TypeOK, Shape
  <2>3. CASE UNCHANGED loopVars
    BY <2>3 DEF loopVars, IInv, TypeOK, Shape
  <2>4. QED
    BY <2>1, <2>2, <2>3 DEF QuietHost, SliceExited, LastRound, CallFunc, RestoreFails
<1>4. /\ InFiber' => ctl' \in {"slice", "stopped"} /\ cur' = cur /\ InFiber
      /\ ctl' \in {"slice", "stopped"} => InFiber'
      /\ mainCtx # NoCtx <=> ctl' \in {"pick", "slice", "stopped", "return"}
      /\ ctl' # "slice" /\ ~InFiber' /\ threadOps' = 0
  <2> USE DEF IInv, Shape, InFiber, yieldVars
  <2>1. CASE SliceExited
    BY <2>1, EndSliceFacts DEF SliceExited
  <2>2. CASE ctl' = ctl /\ cur' = cur /\ threadOps' = threadOps /\ ctl \in {"idle", "pick"}
    BY <2>2
  <2>3. CASE LastRound
    BY <2>3 DEF LastRound
  <2>4. CASE CallFunc
    BY <2>4 DEF CallFunc
  <2>5. QED
    BY <2>1, <2>2, <2>3, <2>4 DEF QuietHost, SkipFiber, Picked, NextRound, RestoreFails
<1>5. cpu' \in CPUState /\ cpu'.who = cpu.who
  <2>1. CASE CallFunc
    <3>1. cpu' = [cpu EXCEPT !.at = 0] /\ 0 \in Points
      BY <2>1, BoundsAssumption DEF CallFunc, Points, Sentinel
    <3>2. QED
      BY <3>1, Moved DEF IInv, TypeOK
  <2>2. CASE cpu' = cpu
    BY <2>2 DEF IInv, TypeOK
  <2>3. QED
    BY <2>1, <2>2 DEF QuietHost, SliceExited, SkipFiber, NextRound, LastRound,
       RestoreFails, engine
<1>6. TypeOK'
  BY <1>1, <1>2, <1>3, <1>5 DEF IInv, TypeOK
<1>7. Shape'
  BY <1>1, <1>3, <1>4 DEF IInv, Shape, InFiber, Eligible, Spent
<1>8. ContextsOwned'
  BY <1>1, HoldersKeptOwned DEF IInv, HoldersKept
<1>9. ContextsIntact'
  BY <1>1, <1>4, <1>5 DEF IInv, ContextsIntact, InFiber, Shape
<1>10. BudgetsHold'
  BY <1>1, <1>2, <1>4, BoundsAssumption DEF IInv, BudgetsHold
<1>11. QED
  BY <1>6, <1>7, <1>8, <1>9, <1>10 DEF IInv

(***************************************************************************)
(* RunThreads at one fiber.                                                 *)
(***************************************************************************)
LEMMA PickedFacts ==
  ASSUME IInv, Picked
  PROVE  /\ idx \in 1 .. Len(fibers) /\ fibers[idx] \in Fiber
         /\ fibers[idx].ctx \in Ctxs \cup {NoCtx} /\ fibers[idx].slices \in Nat
         /\ mainCtx # NoCtx /\ ctl = "pick" /\ cur = 0 /\ threadOps = 0
<1>1. ctl = "pick" /\ mainCtx # NoCtx /\ cur = 0 /\ threadOps = 0
  BY DEF IInv, Shape, Picked, InFiber
<1>2. idx \in 1 .. Len(fibers)
  BY <1>1, FiberTyped DEF IInv, Shape, Picked, TypeOK
<1>3. QED
  BY <1>1, <1>2, FiberTyped DEF IInv, TypeOK

\* The fiber gives up its context: it is parked, or its slice begins.
LEMMA ReleaseStep ==
  ASSUME IInv, parkFiber \/ DropFiber \/ ResumeFiber
  PROVE  IInv'
<1> DEFINE n == Len(fibers)
<1>1. /\ Picked /\ Free({fibers[idx].ctx})
      /\ UNCHANGED <<nextFiberID, yieldVars, round, limit, mainCtx, exited, snap, orphans>>
      /\ idx' \in {idx, idx + 1} /\ progressed' \in BOOLEAN /\ threadOps' = threadOps
  BY DEF yieldVars, parkFiber, DropFiber, ResumeFiber, Scheduled, NextFiber, loopVars, IInv, TypeOK
<1>2. /\ idx \in 1 .. n /\ fibers[idx] \in Fiber
      /\ fibers[idx].ctx \in Ctxs \cup {NoCtx} /\ fibers[idx].slices \in Nat
      /\ mainCtx # NoCtx /\ ctl = "pick" /\ cur = 0 /\ threadOps' = 0
  BY <1>1, PickedFacts
<1>3. PICK f \in Fiber :
        /\ SetFiber(idx, f) /\ f.ctx = NoCtx /\ f.slices = fibers[idx].slices
        /\ f.id = fibers[idx].id /\ f.started = fibers[idx].started
        /\ ResumeFiber => f.state = fibers[idx].state
        /\ f.state \in {fibers[idx].state, "parked"}
  <2> DEFINE r == fibers[idx]
             g == [r EXCEPT !.ctx = NoCtx]
             h == [r EXCEPT !.state = "parked", !.ctx = NoCtx]
  <2>1. r \in Fiber
    BY <1>2
  <2>2. /\ g \in Fiber /\ g.ctx = NoCtx /\ g.slices = r.slices /\ g.id = r.id
        /\ g.started = r.started /\ g.state = r.state
    BY <2>1 DEF Fiber
  <2>3. /\ h \in Fiber /\ h.ctx = NoCtx /\ h.slices = r.slices /\ h.id = r.id
        /\ h.started = r.started /\ h.state = "parked"
    BY <2>1 DEF Fiber, States
  <2>4. CASE ResumeFiber
    <3>1. SetFiber(idx, g)
      BY <2>4 DEF ResumeFiber
    <3> HIDE DEF g, h
    <3>2. QED
      BY <3>1, <2>2
  <2>5. CASE (parkFiber \/ DropFiber) /\ ~ResumeFiber
    <3>1. SetFiber(idx, h)
      BY <2>5 DEF parkFiber, DropFiber
    <3> HIDE DEF g, h
    <3>2. QED
      BY <3>1, <2>3, <2>5
  <2>6. QED
    BY <2>4, <2>5
<1>4. /\ fibers' \in Seq(Fiber) /\ Len(fibers') = n /\ n \in Nat
      /\ DOMAIN fibers = 1 .. n /\ DOMAIN fibers' = 1 .. n
      /\ \A j \in 1 .. n : fibers'[j] = IF j = idx THEN f ELSE fibers[j]
  BY <1>2, <1>3, SetFiberFacts, FiberTyped DEF IInv, TypeOK
<1>5. /\ ContextsOwned'
      /\ \A j \in 1 .. n : fibers'[j].ctx # NoCtx =>
              /\ fibers'[j] = fibers[j]
              /\ saved'[fibers[j].ctx] = saved[fibers[j].ctx]
      /\ \A c \in {mainCtx, snap.ctx} \ {NoCtx} : saved'[c] = saved[c]
  BY <1>1, <1>2, <1>3, FiberCtxFreed DEF IInv
<1>6. live' \in SUBSET Ctxs /\ saved' \in [Ctxs -> CPUState \cup {Garbage}]
  BY <1>1, FreeTyped DEF IInv
<1>7. \/ cpu' = cpu /\ cur' = 0 /\ ctl' = "pick"
      \/ ResumeFiber /\ cpu' = saved[fibers[idx].ctx] /\ cur' = idx /\ ctl' = "slice"
  BY <1>2 DEF parkFiber, DropFiber, ResumeFiber, BeginSlice, NextFiber
<1>8. ResumeFiber => /\ fibers[idx].started /\ Eligible(fibers[idx])
                     /\ ~Spent(fibers[idx]) /\ fibers[idx].ctx # NoCtx
  BY DEF ResumeFiber, Scheduled
<1>9. ResumeFiber => /\ saved[fibers[idx].ctx] \in CPUState
                     /\ saved[fibers[idx].ctx].who = fibers[idx].id
  BY <1>2, <1>4, <1>8 DEF IInv, TypeOK, ContextsIntact
<1>10. TypeOK'
  <2>1. cpu' \in CPUState
    BY <1>7, <1>9 DEF IInv, TypeOK
  <2>2. cur' \in 0 .. Len(fibers') /\ ctl' \in Controls /\ idx' \in Nat
    BY <1>1, <1>2, <1>4, <1>7 DEF Controls
  <2>3. QED
    BY <2>1, <2>2, <1>1, <1>4, <1>6 DEF IInv, TypeOK, yieldVars
<1>11. Shape'
  <2>1. /\ idx' >= 1 /\ limit' <= Len(fibers') /\ mainCtx' # NoCtx
        /\ snap' # NoSnap => (snap.ctx)' # NoCtx
    BY <1>1, <1>2, <1>4 DEF IInv, Shape, TypeOK
  <2>2. CASE cur' = 0 /\ ctl' = "pick"
    BY <2>1, <2>2, <1>2 DEF Shape, InFiber
  <2>3. CASE ResumeFiber /\ cur' = idx /\ ctl' = "slice"
    <3>1. /\ fibers'[idx].ctx = NoCtx /\ fibers'[idx].started
          /\ Eligible(fibers'[idx]) /\ ~Spent(fibers'[idx])
      BY <2>3, <1>2, <1>3, <1>4, <1>8 DEF Eligible, Spent
    <3>2. QED
      BY <2>1, <2>3, <3>1, <1>2 DEF Shape, InFiber
  <2>4. QED
    BY <2>2, <2>3, <1>7
<1>12. ContextsIntact'
  <2>1. \A i \in DOMAIN fibers' : (fibers[i].ctx # NoCtx =>
             /\ saved[fibers[i].ctx] # Garbage
             /\ saved[fibers[i].ctx].who = fibers[i].id
             /\ fibers[i].started
             /\ fibers[i].state \in {"runnable", "sleeping", "waiting"})'
    BY <1>4, <1>5 DEF IInv, ContextsIntact
  <2>2. \A d \in {mainCtx', (snap.ctx)'} \ {NoCtx} :
          saved'[d] # Garbage /\ saved'[d].who = Main
    BY <1>1, <1>5 DEF IInv, ContextsIntact
  <2>3. InFiber' => cpu'.who = fibers'[cur'].id
    BY <1>2, <1>3, <1>4, <1>7, <1>9 DEF InFiber
  <2>4. mainCtx' # NoCtx
    BY <1>1, <1>2
  <2>5. QED
    BY <2>1, <2>2, <2>3, <2>4 DEF ContextsIntact
<1>13. BudgetsHold'
  <2>1. \A i \in DOMAIN fibers' : fibers'[i].slices <= MaxSlices
    BY <1>2, <1>3, <1>4 DEF IInv, BudgetsHold
  <2>2. QED
    BY <2>1, <1>2, BoundsAssumption DEF BudgetsHold
<1>14. QED
  BY <1>5, <1>10, <1>11, <1>12, <1>13 DEF IInv

LEMMA StartStep ==
  ASSUME IInv, StartFiber
  PROVE  IInv'
<1> DEFINE n == Len(fibers)
           r == fibers[idx]
           f == [r EXCEPT !.started = TRUE]
<1>1. /\ Picked /\ Eligible(r) /\ ~Spent(r) /\ ~r.started /\ SetFiber(idx, f)
      /\ cpu' = [who |-> r.id, at |-> 0] /\ cur' = idx /\ ctl' = "slice"
      /\ UNCHANGED <<nextFiberID, yieldVars, loopVars, exited, snap, live, saved, orphans>>
  BY DEF StartFiber, Scheduled, BeginSlice
<1>2. /\ idx \in 1 .. n /\ r \in Fiber /\ mainCtx # NoCtx /\ threadOps = 0
  BY <1>1, PickedFacts
<1>3. r.ctx = NoCtx
  BY <1>1, <1>2, FiberTyped DEF IInv, TypeOK, ContextsIntact
<1>4. /\ f \in Fiber /\ f.ctx = NoCtx /\ f.started /\ f.id = r.id
      /\ f.state = r.state /\ f.slices = r.slices
  <2>1. r \in Fiber /\ r.ctx = NoCtx
    BY <1>2, <1>3
  <2> HIDE DEF r
  <2>2. QED
    BY <2>1 DEF Fiber
<1>5. /\ fibers' \in Seq(Fiber) /\ Len(fibers') = n /\ n \in Nat
      /\ DOMAIN fibers = 1 .. n /\ DOMAIN fibers' = 1 .. n
      /\ \A j \in 1 .. n : fibers'[j] = IF j = idx THEN f ELSE fibers[j]
  BY <1>1, <1>2, <1>4, SetFiberFacts, FiberTyped DEF IInv, TypeOK
<1>6. cpu' \in CPUState
  BY <1>1, <1>2, BoundsAssumption DEF CPUState, Fiber, Points, Sentinel
<1> HIDE DEF f
<1>7. TypeOK'
  BY <1>1, <1>2, <1>5, <1>6 DEF IInv, TypeOK, Controls, yieldVars, loopVars
<1>8. Shape'
  <2>1. /\ idx' >= 1 /\ limit' <= Len(fibers') /\ mainCtx' # NoCtx
        /\ snap' # NoSnap => (snap.ctx)' # NoCtx
    BY <1>1, <1>2, <1>5 DEF IInv, Shape, TypeOK, loopVars
  <2>2. /\ fibers'[idx].ctx = NoCtx /\ fibers'[idx].started
        /\ Eligible(fibers'[idx]) /\ ~Spent(fibers'[idx])
    BY <1>1, <1>2, <1>4, <1>5 DEF Eligible, Spent
  <2>3. QED
    BY <2>1, <2>2, <1>1, <1>2 DEF Shape, InFiber
<1>9. ContextsOwned'
  <2>1. HoldersKept
    BY <1>1, <1>2, <1>3, <1>4, <1>5 DEF HoldersKept, loopVars
  <2>2. QED
    BY <2>1, HoldersKeptOwned DEF IInv
<1>10. ContextsIntact'
  <2>1. \A i \in DOMAIN fibers' : fibers'[i].ctx # NoCtx => fibers'[i] = fibers[i]
    BY <1>4, <1>5
  <2>2. InFiber' /\ mainCtx' # NoCtx /\ cpu'.who = fibers'[cur'].id
    BY <1>1, <1>2, <1>4, <1>5 DEF InFiber, loopVars
  <2>3. \A i \in DOMAIN fibers' : (fibers[i].ctx # NoCtx =>
             /\ saved[fibers[i].ctx] # Garbage
             /\ saved[fibers[i].ctx].who = fibers[i].id
             /\ fibers[i].started
             /\ fibers[i].state \in {"runnable", "sleeping", "waiting"})'
    BY <2>1, <1>1, <1>5 DEF IInv, ContextsIntact
  <2>4. \A c \in {mainCtx', (snap.ctx)'} \ {NoCtx} : saved'[c] # Garbage /\ saved'[c].who = Main
    BY <1>1 DEF IInv, ContextsIntact, loopVars
  <2>5. QED
    BY <2>2, <2>3, <2>4 DEF ContextsIntact
<1>11. BudgetsHold'
  <2>1. \A i \in DOMAIN fibers' : fibers'[i].slices <= MaxSlices
    BY <1>2, <1>4, <1>5 DEF IInv, BudgetsHold
  <2>2. QED
    BY <2>1, <1>1, <1>2, BoundsAssumption DEF BudgetsHold, yieldVars
<1>12. QED
  BY <1>7, <1>8, <1>9, <1>10, <1>11 DEF IInv

(***************************************************************************)
(* Contexts the host holds: main's during RunThreads, and the snapshot's.   *)
(***************************************************************************)
HostHolds(m, s) ==
  /\ mainCtx' = m /\ (snap.ctx)' = s
  /\ UNCHANGED <<fibers, orphans>>

LEMMA HostSaveOwned ==
  ASSUME TypeOK, ContextsOwned, NEW c \in Ctxs, c \notin live, SaveContext(c),
         \/ mainCtx = NoCtx /\ HostHolds(c, snap.ctx)
         \/ snap.ctx = NoCtx /\ HostHolds(mainCtx, c)
  PROVE  /\ ContextsOwned' /\ c \notin FiberCtxs /\ c # mainCtx /\ c # snap.ctx
<1>1. FiberCtxs' = FiberCtxs /\ live' = live \cup {c}
  BY DEF FiberCtxs, HostHolds, SaveContext
<1>2. c \notin orphans /\ c \notin FiberCtxs /\ c # mainCtx /\ c # snap.ctx /\ c # NoCtx
  BY ValuesAssumption DEF ContextsOwned
<1>3. QED
  BY <1>1, <1>2 DEF ContextsOwned, HostHolds

LEMMA HostFreeOwned ==
  ASSUME TypeOK, ContextsOwned, NEW c, Free({c}), c # NoCtx,
         \/ mainCtx = c /\ HostHolds(NoCtx, snap.ctx)
         \/ snap.ctx = c /\ HostHolds(mainCtx, NoCtx)
  PROVE  /\ ContextsOwned' /\ c \notin FiberCtxs
<1>1. FiberCtxs' = FiberCtxs /\ live' = live \ {c}
  BY DEF FiberCtxs, HostHolds, Free
<1>2. NoCtx \notin FiberCtxs /\ c \notin orphans /\ c \notin FiberCtxs
  BY DEF FiberCtxs, ContextsOwned
<1>3. NoCtx \notin orphans
  BY ValuesAssumption DEF TypeOK
<1>4. mainCtx' # (snap.ctx)' \/ mainCtx' = NoCtx
  BY DEF ContextsOwned, HostHolds
<1>5. QED
  BY <1>1, <1>2, <1>3, <1>4 DEF ContextsOwned, HostHolds

LEMMA IdleFacts ==
  ASSUME IInv, ctl = "idle"
  PROVE  cur = 0 /\ mainCtx = NoCtx /\ cpu.who = Main /\ cpu \in CPUState /\ threadOps = 0
BY DEF IInv, Shape, InFiber, ContextsIntact, TypeOK

\* What the saved executions look like when only contexts nobody else holds change.
HoldersIntact ==
  /\ \A i \in DOMAIN fibers : fibers[i].ctx # NoCtx =>
       /\ saved[fibers[i].ctx] # Garbage
       /\ saved[fibers[i].ctx].who = fibers[i].id
       /\ fibers[i].started /\ fibers[i].state \in {"runnable", "sleeping", "waiting"}
  /\ \A c \in {mainCtx, snap.ctx} \ {NoCtx} :
       saved[c] # Garbage /\ saved[c].who = Main

LEMMA HostSaveIntact ==
  ASSUME IInv, ctl = "idle", NEW c \in Ctxs, c \notin live, SaveContext(c),
         \/ mainCtx = NoCtx /\ HostHolds(c, snap.ctx)
         \/ snap.ctx = NoCtx /\ HostHolds(mainCtx, c)
  PROVE  HoldersIntact'
<1>1. c \notin FiberCtxs /\ c # mainCtx /\ c # snap.ctx
  BY HostSaveOwned DEF IInv
<1>2. saved'[c] = cpu /\ \A d \in Ctxs \ {c} : saved'[d] = saved[d]
  BY SaveTyped DEF IInv
<1>3. cpu # Garbage /\ cpu.who = Main
  BY IdleFacts, GarbageAssumption
<1>4. \A i \in DOMAIN fibers : fibers[i].ctx # NoCtx =>
        fibers[i].ctx \in Ctxs /\ fibers[i].ctx # c
  BY <1>1, FiberTyped, FiberCtxsMember DEF IInv, TypeOK
<1>5. \A d \in {mainCtx', (snap.ctx)'} \ {NoCtx} :
        saved'[d] # Garbage /\ saved'[d].who = Main
  BY <1>1, <1>2, <1>3 DEF IInv, ContextsIntact, HostHolds, TypeOK
<1>6. QED
  BY <1>2, <1>4, <1>5 DEF HoldersIntact, HostHolds, IInv, ContextsIntact

LEMMA HostFreeIntact ==
  ASSUME IInv, NEW c, Free({c}), c # NoCtx,
         \/ mainCtx = c /\ HostHolds(NoCtx, snap.ctx)
         \/ snap.ctx = c /\ HostHolds(mainCtx, NoCtx)
  PROVE  HoldersIntact'
<1>1. c \notin FiberCtxs
  BY HostFreeOwned DEF IInv
<1>2. \A d \in Ctxs \ {c} : saved'[d] = saved[d]
  BY FreeTyped DEF IInv
<1>3. \A i \in DOMAIN fibers : fibers[i].ctx # NoCtx =>
        fibers[i].ctx \in Ctxs /\ fibers[i].ctx # c
  BY <1>1, FiberTyped, FiberCtxsMember DEF IInv, TypeOK
<1>4. \A d \in {mainCtx', (snap.ctx)'} \ {NoCtx} : d # c /\ d \in Ctxs /\ saved'[d] = saved[d]
                                                   /\ d \in {mainCtx, snap.ctx} \ {NoCtx}
  BY <1>2 DEF IInv, ContextsOwned, HostHolds, TypeOK
<1>5. QED
  BY <1>2, <1>3, <1>4 DEF HoldersIntact, HostHolds, IInv, ContextsIntact

LEMMA RunThreadsStep ==
  ASSUME IInv, RunThreads
  PROVE  IInv'
<1> DEFINE c == FreshCtx
<1>1. /\ ctl = "idle" /\ ctl' = "pick" /\ SaveContext(c) /\ mainCtx' = c
      /\ round' = 0 /\ idx' = 1 /\ limit' = Len(fibers) /\ progressed' = FALSE
      /\ UNCHANGED <<fibers, nextFiberID, cur, yieldVars, exited, snap, cpu, orphans>>
  BY DEF RunThreads
<1>2. cur = 0 /\ mainCtx = NoCtx /\ cpu.who = Main /\ threadOps = 0 /\ threadOps' = 0
  BY <1>1, IdleFacts DEF yieldVars
<1>3. c \in Ctxs /\ c \notin live /\ c # NoCtx
  BY FreshFacts DEF RunThreads, IInv
<1>4. HostHolds(c, snap.ctx)
  BY <1>1 DEF HostHolds
<1>5. Len(fibers) \in Nat
  BY FiberTyped DEF IInv, TypeOK
<1>6. TypeOK'
  <2>1. live' \in SUBSET Ctxs /\ saved' \in [Ctxs -> CPUState \cup {Garbage}]
    BY <1>1, <1>3, SaveTyped DEF IInv
  <2>2. round' \in 0 .. MaxRounds /\ idx' \in Nat /\ limit' \in Nat
    BY <1>1, <1>5, BoundsAssumption
  <2>3. QED
    BY <2>1, <2>2, <1>1, <1>3 DEF IInv, TypeOK, Controls, yieldVars
<1>7. Shape'
  BY <1>1, <1>2, <1>3, <1>5 DEF IInv, Shape, InFiber
<1>8. ContextsOwned'
  BY <1>1, <1>2, <1>3, <1>4, HostSaveOwned DEF IInv
<1>9. ContextsIntact'
  <2>1. HoldersIntact'
    BY <1>1, <1>2, <1>3, <1>4, HostSaveIntact
  <2>2. ~InFiber' /\ mainCtx' # NoCtx
    BY <1>1, <1>2, <1>3 DEF InFiber
  <2>3. QED
    BY <2>1, <2>2 DEF HoldersIntact, ContextsIntact
<1>10. BudgetsHold'
  BY <1>1, <1>2, BoundsAssumption DEF IInv, BudgetsHold
<1>11. QED
  BY <1>6, <1>7, <1>8, <1>9, <1>10 DEF IInv

LEMMA SnapshotStep ==
  ASSUME IInv, Snapshot \/ SnapshotFree
  PROVE  IInv'
<1>1. /\ ctl = "idle"
      /\ UNCHANGED <<ctl, fibers, nextFiberID, cur, yieldVars, loopVars, exited, cpu, orphans>>
  BY DEF Snapshot, SnapshotFree
<1>2. cur = 0 /\ mainCtx = NoCtx /\ cpu.who = Main /\ threadOps = 0 /\ threadOps' = 0
  BY <1>1, IdleFacts DEF yieldVars
<1>3. /\ snap' \in [ctx : Ctxs \cup {NoCtx}, nextID : 0 .. MaxFibers, exited : BOOLEAN]
      /\ live' \in SUBSET Ctxs /\ saved' \in [Ctxs -> CPUState \cup {Garbage}]
      /\ ContextsOwned' /\ HoldersIntact'
      /\ snap' # NoSnap => (snap.ctx)' # NoCtx
  <2>1. CASE Snapshot
    <3>1. /\ FreshCtx \in Ctxs /\ FreshCtx \notin live /\ SaveContext(FreshCtx)
          /\ snap' = [ctx |-> FreshCtx, nextID |-> nextFiberID, exited |-> exited]
          /\ snap.ctx = NoCtx
      BY <2>1, FreshFacts DEF Snapshot, NoSnap, IInv
    <3>2. HostHolds(mainCtx, FreshCtx)
      BY <1>1, <3>1 DEF HostHolds, loopVars
    <3>3. ContextsOwned' /\ HoldersIntact'
      BY <1>1, <3>1, <3>2, HostSaveOwned, HostSaveIntact DEF IInv
    <3>4. QED
      BY <3>1, <3>3, SaveTyped, ValuesAssumption DEF IInv, TypeOK
  <2>2. CASE SnapshotFree /\ snap.ctx # NoCtx
    <3>1. Free({snap.ctx}) /\ snap' = NoSnap
      BY <2>2 DEF SnapshotFree
    <3>2. HostHolds(mainCtx, NoCtx)
      BY <1>1, <3>1 DEF HostHolds, loopVars, NoSnap
    <3>3. ContextsOwned' /\ HoldersIntact'
      BY <2>2, <3>1, <3>2, HostFreeOwned, HostFreeIntact DEF IInv
    <3>4. QED
      BY <3>1, <3>3, FreeTyped, BoundsAssumption DEF IInv, NoSnap
  <2>3. CASE SnapshotFree /\ snap.ctx = NoCtx
    <3>1. Free({NoCtx}) /\ snap' = NoSnap
      BY <2>3 DEF SnapshotFree
    <3>2. live' = live /\ saved' = saved
      BY <3>1, ValuesAssumption DEF Free, IInv, TypeOK
    <3>3. ContextsOwned'
      BY <1>1, <2>3, <3>1, <3>2 DEF IInv, ContextsOwned, FiberCtxs, NoSnap, loopVars
    <3>4. HoldersIntact'
      BY <1>1, <2>3, <3>1, <3>2 DEF IInv, ContextsIntact, HoldersIntact, NoSnap, loopVars
    <3>5. QED
      BY <3>1, <3>2, <3>3, <3>4, BoundsAssumption DEF IInv, TypeOK, NoSnap
  <2>4. QED
    BY <2>1, <2>2, <2>3
<1>4. TypeOK'
  BY <1>1, <1>3 DEF IInv, TypeOK, yieldVars, loopVars
<1>5. Shape'
  BY <1>1, <1>2, <1>3 DEF IInv, Shape, InFiber, loopVars
<1>6. ContextsIntact'
  BY <1>1, <1>2, <1>3 DEF HoldersIntact, ContextsIntact, InFiber, loopVars
<1>7. BudgetsHold'
  BY <1>1, <1>2, BoundsAssumption DEF IInv, BudgetsHold
<1>8. QED
  BY <1>3, <1>4, <1>5, <1>6, <1>7 DEF IInv

LEMMA RestoreMainStep ==
  ASSUME IInv, RestoreMain
  PROVE  IInv'
<1>1. /\ ctl = "return" /\ ctl' = "idle" /\ cpu' = saved[mainCtx] /\ Free({mainCtx})
      /\ mainCtx' = NoCtx
      /\ round' = 0 /\ idx' = 1 /\ limit' = 0 /\ progressed' = FALSE
      /\ UNCHANGED <<fibers, nextFiberID, cur, yieldVars, exited, snap, orphans>>
  BY DEF RestoreMain
<1>2. /\ mainCtx # NoCtx /\ cur = 0 /\ threadOps = 0 /\ threadOps' = 0 /\ mainCtx \in Ctxs
  BY <1>1 DEF IInv, Shape, InFiber, yieldVars, TypeOK
<1>3. HostHolds(NoCtx, snap.ctx)
  BY <1>1 DEF HostHolds
<1>4. saved[mainCtx] \in CPUState /\ saved[mainCtx].who = Main
  BY <1>2 DEF IInv, ContextsIntact, TypeOK
<1>5. TypeOK'
  <2>1. live' \in SUBSET Ctxs /\ saved' \in [Ctxs -> CPUState \cup {Garbage}]
    BY <1>1, FreeTyped DEF IInv
  <2>2. round' \in 0 .. MaxRounds /\ idx' \in Nat /\ limit' \in Nat
    BY <1>1, BoundsAssumption
  <2>3. QED
    BY <2>1, <2>2, <1>1, <1>4 DEF IInv, TypeOK, Controls, yieldVars
<1>6. Shape'
  BY <1>1, <1>2 DEF IInv, Shape, InFiber
<1>7. ContextsOwned'
  BY <1>1, <1>2, <1>3, HostFreeOwned DEF IInv
<1>8. ContextsIntact'
  <2>1. HoldersIntact'
    BY <1>1, <1>2, <1>3, HostFreeIntact
  <2>2. ~InFiber' /\ cpu'.who = Main
    BY <1>1, <1>2, <1>4 DEF InFiber
  <2>3. QED
    BY <2>1, <2>2, <1>1 DEF HoldersIntact, ContextsIntact
<1>9. BudgetsHold'
  BY <1>1, <1>2, BoundsAssumption DEF IInv, BudgetsHold
<1>10. QED
  BY <1>5, <1>6, <1>7, <1>8, <1>9 DEF IInv

LEMMA EmptyFacts ==
  <<>> \in Seq(Fiber) /\ Len(<<>>) = 0 /\ DOMAIN <<>> = {}
OBVIOUS

LEMMA RestoreStep ==
  ASSUME IInv, Restore
  PROVE  IInv'
<1>1. /\ ctl = "idle" /\ ctl' = ctl /\ cpu' = saved[snap.ctx] /\ exited' = snap.exited
      /\ orphans' = orphans \cup FiberCtxs /\ fibers' = <<>> /\ cur' = 0
      /\ nextFiberID' = snap.nextID /\ yieldReason' = "none" /\ yieldAddr' = NullAddr
      /\ threadOps' = 0 /\ UNCHANGED <<loopVars, snap, live, saved>> /\ snap # NoSnap
  BY DEF Restore
<1>2. mainCtx = NoCtx /\ snap.ctx # NoCtx
  BY <1>1, IdleFacts DEF IInv, Shape
<1>3. saved[snap.ctx] \in CPUState /\ saved[snap.ctx].who = Main
  BY <1>2 DEF IInv, ContextsIntact, TypeOK
<1>4. FiberCtxs' = {} /\ FiberCtxs \subseteq Ctxs
  BY <1>1, EmptyFacts, FiberTyped DEF FiberCtxs, IInv, TypeOK
<1>5. TypeOK'
  BY <1>1, <1>3, <1>4, EmptyFacts, ValuesAssumption, BoundsAssumption
     DEF IInv, TypeOK, Yields, loopVars
<1>6. Shape'
  BY <1>1, <1>2 DEF IInv, Shape, InFiber, loopVars
<1>7. ContextsOwned'
  BY <1>1, <1>2, <1>4, EmptyFacts DEF IInv, ContextsOwned, loopVars
<1>8. ContextsIntact'
  BY <1>1, <1>2, <1>3, EmptyFacts DEF IInv, ContextsIntact, InFiber, loopVars
<1>9. BudgetsHold'
  BY <1>1, EmptyFacts, BoundsAssumption DEF BudgetsHold
<1>10. QED
  BY <1>5, <1>6, <1>7, <1>8, <1>9 DEF IInv

LEMMA CloseStep ==
  ASSUME IInv, Close
  PROVE  IInv'
<1>1. /\ ctl = "idle" /\ ctl' = "closed" /\ Free(FiberCtxs) /\ fibers' = <<>> /\ cur' = 0
      /\ UNCHANGED <<nextFiberID, yieldVars, loopVars, exited, snap, cpu, orphans>>
  BY DEF Close
<1>2. mainCtx = NoCtx /\ mainCtx' = NoCtx /\ cpu.who = Main /\ threadOps' = 0
  BY <1>1, IdleFacts DEF loopVars, yieldVars
<1>3. FiberCtxs' = {} /\ live' = live \ FiberCtxs
  BY <1>1, EmptyFacts DEF FiberCtxs, Free
<1>4. snap.ctx # NoCtx => saved'[snap.ctx] = saved[snap.ctx]
  BY <1>1, FreeTyped DEF IInv, ContextsOwned, TypeOK
<1>5. TypeOK'
  BY <1>1, EmptyFacts, FreeTyped, BoundsAssumption DEF IInv, TypeOK, Controls, yieldVars, loopVars
<1>6. Shape'
  BY <1>1, <1>2 DEF IInv, Shape, InFiber, loopVars
<1>7. ContextsOwned'
  BY <1>1, <1>2, <1>3, EmptyFacts DEF IInv, ContextsOwned
<1>8. ContextsIntact'
  BY <1>1, <1>2, <1>4, EmptyFacts DEF IInv, ContextsIntact, InFiber
<1>9. BudgetsHold'
  BY <1>1, <1>2, EmptyFacts, BoundsAssumption DEF BudgetsHold
<1>10. QED
  BY <1>5, <1>6, <1>7, <1>8, <1>9 DEF IInv

LEMMA StutterStep ==
  ASSUME IInv, UNCHANGED vars
  PROVE  IInv'
<1> USE DEF vars, yieldVars, loopVars, engine
<1>1. TypeOK'
  BY DEF IInv, TypeOK
<1>2. Shape'
  BY DEF IInv, Shape, InFiber, Eligible, Spent
<1>3. ContextsOwned'
  BY DEF IInv, ContextsOwned, FiberCtxs
<1>4. ContextsIntact'
  BY DEF IInv, ContextsIntact, InFiber
<1>5. BudgetsHold'
  BY DEF IInv, BudgetsHold
<1>6. QED
  BY <1>1, <1>2, <1>3, <1>4, <1>5 DEF IInv

(***************************************************************************)
(* The invariant.                                                           *)
(***************************************************************************)
LEMMA InitIInv == Init => IInv
<1> SUFFICES ASSUME Init PROVE IInv
  OBVIOUS
<1>1. fibers = <<>> /\ fibers \in Seq(Fiber) /\ Len(fibers) = 0 /\ DOMAIN fibers = {}
  BY EmptyFacts DEF Init
<1>2. cpu \in CPUState
  BY PointsFacts DEF Init, CPUState
<1>3. TypeOK
  <2>1. /\ nextFiberID \in 0 .. MaxFibers /\ cur \in 0 .. Len(fibers)
        /\ threadOps \in 0 .. SliceCap + 1 /\ round \in 0 .. MaxRounds
    BY <1>1, BoundsAssumption DEF Init
  <2>2. snap \in [ctx : Ctxs \cup {NoCtx}, nextID : 0 .. MaxFibers, exited : BOOLEAN]
    BY BoundsAssumption DEF Init, NoSnap
  <2>3. saved \in [Ctxs -> CPUState \cup {Garbage}]
    BY DEF Init
  <2>4. QED
    BY <2>1, <2>2, <2>3, <1>1, <1>2, ValuesAssumption DEF Init, TypeOK, Controls, Yields
<1>4. Shape
  BY DEF Init, Shape, InFiber
<1>5. ContextsOwned
  BY <1>1 DEF Init, ContextsOwned, FiberCtxs, NoSnap
<1>6. ContextsIntact
  BY <1>1 DEF Init, ContextsIntact, InFiber, NoSnap
<1>7. BudgetsHold
  BY <1>1, BoundsAssumption DEF Init, BudgetsHold
<1>8. QED
  BY <1>3, <1>4, <1>5, <1>6, <1>7 DEF IInv

LEMMA NextIInv == IInv /\ [Next]_vars => IInv'
<1> SUFFICES ASSUME IInv, [Next]_vars PROVE IInv'
  OBVIOUS
<1>1. CASE Guest
  BY <1>1, QuietGuestStep, CreateStep, WakeStep DEF Guest, QuietGuest
<1>2. CASE SliceFault
  BY <1>2, SliceOverStep
<1>3. CASE Loop
  BY <1>3, SliceOverStep, SliceSavedStep, QuietHostStep, ReleaseStep, StartStep,
     RestoreMainStep DEF Loop, QuietHost
<1>4. CASE Host
  BY <1>4, RunThreadsStep, QuietHostStep, SnapshotStep, RestoreStep, CloseStep,
     StutterStep DEF Host, QuietHost, NoEffect
<1>5. CASE UNCHANGED vars
  BY <1>5, StutterStep
<1>6. QED
  BY <1>1, <1>2, <1>3, <1>4, <1>5 DEF Next

(* The inductive invariant holds in every reachable state of the scheduler:  *)
(* the source's RunThreads, runFiberSlice, Snapshot, Restore and Close keep   *)
(* it whatever guest code does.                                              *)
THEOREM Invariance == Spec => []IInv
<1>1. QED
  BY InitIInv, NextIInv, PTL DEF Spec

(* Every variable of the scheduler keeps its type.                            *)
THEOREM Typed == Spec => []TypeOK
<1>1. IInv => TypeOK
  BY DEF IInv
<1>2. QED
  BY <1>1, Invariance, PTL

(* No context is freed twice, used after Free, shared, or leaked other than   *)
(* by Restore, for any number of threads, slices and contexts.                *)
THEOREM Ownership == Spec => []ContextsOwned
<1>1. IInv => ContextsOwned
  BY DEF IInv
<1>2. QED
  BY <1>1, Invariance, PTL

(* A fiber is always resumed with its own execution and main with main's.     *)
THEOREM Intact == Spec => []ContextsIntact
<1>1. IInv => ContextsIntact
  BY DEF IInv
<1>2. QED
  BY <1>1, Invariance, PTL

(* No fiber outlives its slices and no slice its syscalls.                    *)
THEOREM Budgets == Spec => []BudgetsHold
<1>1. IInv => BudgetsHold
  BY DEF IInv
<1>2. QED
  BY <1>1, Invariance, PTL

(***************************************************************************)
(* Finished fibers.                                                         *)
(***************************************************************************)
LEMMA SetKeepsDone ==
  ASSUME TypeOK, NEW i \in 1 .. Len(fibers), fibers[i].state # "done",
         NEW f, SetFiber(i, f)
  PROVE  DoneKept
<1>1. DOMAIN fibers = 1 .. Len(fibers) /\ Len(fibers) \in Nat /\ fibers \in Seq(Fiber)
  BY FiberTyped DEF TypeOK
<1>2. /\ DOMAIN fibers' = DOMAIN fibers
      /\ \A j \in DOMAIN fibers : j # i => fibers'[j] = fibers[j]
  BY <1>1 DEF SetFiber
<1>3. QED
  BY <1>2 DEF DoneKept

LEMMA NextKeepsDone ==
  ASSUME IInv, [Next]_vars
  PROVE  DoneKept
<1>1. CASE UNCHANGED fibers
  BY <1>1 DEF DoneKept
<1>2. CASE fibers' = <<>>
  BY <1>2 DEF DoneKept
<1>3. CASE hostPthreadCreate
  <2> DEFINE f == NewFiber(nextFiberID + 1)
  <2>1. fibers' = Append(fibers, f) /\ fibers \in Seq(Fiber)
    BY <1>3 DEF hostPthreadCreate, IInv, TypeOK
  <2>2. f \in Fiber
    BY <1>3, ValuesAssumption, BoundsAssumption
       DEF hostPthreadCreate, IInv, TypeOK, NewFiber, Fiber, States, Ids
  <2>3. QED
    BY <2>1, <2>2, AppendFacts, FiberTyped DEF DoneKept
<1>4. CASE FutexWake
  <2>1. PICK a \in Addrs : fibers' = wakeFutex(a)
    BY <1>4 DEF FutexWake
  <2>2. /\ DOMAIN fibers = 1 .. Len(fibers) /\ DOMAIN fibers' = 1 .. Len(fibers)
        /\ \A j \in 1 .. Len(fibers) : fibers[j] \in Fiber /\ fibers'[j] = Woken(fibers[j], a)
    BY <2>1, WakeFacts, FiberTyped DEF IInv, TypeOK
  <2>3. \A j \in 1 .. Len(fibers) : fibers[j].state = "done" => fibers'[j] = fibers[j]
    BY <2>2 DEF Woken, ParkedOn
  <2>4. QED
    BY <2>2, <2>3 DEF DoneKept
<1>5. CASE SliceFault \/ SliceDone \/ SliceSaved \/ SliceSaveFails
  <2>1. ctl \in {"slice", "stopped"}
    BY <1>5 DEF SliceFault, SliceDone, SliceSaved, SliceSaveFails
  <2>2. cur \in 1 .. Len(fibers) /\ fibers[cur].state # "done"
    BY <2>1, CurFacts DEF IInv, Shape, InFiber, Eligible
  <2>3. \E f : SetFiber(cur, f)
    BY <1>5 DEF SliceFault, SliceDone, SliceSaved, SliceSaveFails
  <2>4. QED
    BY <2>2, <2>3, SetKeepsDone DEF IInv
<1>6. CASE parkFiber \/ StartFiber \/ ResumeFiber \/ DropFiber
  <2>1. Picked /\ Eligible(fibers[idx])
    BY <1>6 DEF parkFiber, StartFiber, ResumeFiber, DropFiber, Scheduled
  <2>2. idx \in 1 .. Len(fibers) /\ fibers[idx].state # "done"
    BY <2>1, PickedFacts DEF Eligible
  <2>3. \E f : SetFiber(idx, f)
    BY <1>6 DEF parkFiber, StartFiber, ResumeFiber, DropFiber
  <2>4. QED
    BY <2>2, <2>3, SetKeepsDone DEF IInv
<1>7. QED
  <2>1. CASE Guest
    BY <2>1, <1>1, <1>3, <1>4 DEF Guest, Uncounted, FutexWait, Nanosleep, Yield, Syscall,
       sysExit, StrayStop, GuestReturn
  <2>2. CASE Loop
    BY <2>2, <1>1, <1>5, <1>6 DEF Loop, SliceExited, SkipFiber, NextRound, LastRound,
       RestoreMain
  <2>3. CASE Host
    BY <2>3, <1>1, <1>2 DEF Host, RunThreads, CallFunc, Snapshot, Restore, RestoreFails,
       SnapshotFree, Close, NoEffect, vars
  <2>4. QED
    BY <2>1, <2>2, <2>3, <1>1, <1>5 DEF Next, vars

(* Until Restore or Close drops them, finished fibers stay finished and keep  *)
(* the result pthread_join reports.                                           *)
THEOREM DoneStaysDone == Spec => DoneIsFinal
<1>1. IInv /\ [Next]_vars => [DoneKept]_vars
  BY NextKeepsDone
<1>2. QED
  BY <1>1, Invariance, PTL DEF Spec, DoneIsFinal

(***************************************************************************)
(* Handles.                                                                 *)
(***************************************************************************)

\* Ids are handed out upwards, so no two fibers share one.
Numbered ==
  /\ \A i \in DOMAIN fibers : fibers[i].id <= nextFiberID
  /\ \A i, j \in DOMAIN fibers : fibers[i].id = fibers[j].id => i = j

\* A step that keeps the fibers' ids, or drops the fibers.
IdsKept ==
  /\ DOMAIN fibers' = DOMAIN fibers /\ nextFiberID' = nextFiberID
  /\ \A i \in DOMAIN fibers : fibers'[i].id = fibers[i].id

LEMMA IdsKeptNumbered == ASSUME Numbered, IdsKept PROVE Numbered'
BY DEF Numbered, IdsKept

LEMMA SetKeepsIds ==
  ASSUME TypeOK, NEW i \in 1 .. Len(fibers), NEW f, f.id = fibers[i].id, SetFiber(i, f),
         UNCHANGED nextFiberID
  PROVE  IdsKept
<1>1. DOMAIN fibers = 1 .. Len(fibers) /\ fibers \in Seq(Fiber)
  BY FiberTyped DEF TypeOK
<1>2. /\ DOMAIN fibers' = DOMAIN fibers /\ fibers'[i] = f
      /\ \A j \in DOMAIN fibers : j # i => fibers'[j] = fibers[j]
  BY <1>1 DEF SetFiber
<1>3. QED
  BY <1>2 DEF IdsKept

LEMMA NextNumbered ==
  ASSUME IInv, Numbered, [Next]_vars
  PROVE  Numbered'
<1>1. CASE UNCHANGED <<fibers, nextFiberID>>
  BY <1>1 DEF Numbered
<1>2. CASE fibers' = <<>>
  <2>1. DOMAIN fibers' = {}
    BY <1>2
  <2>2. QED
    BY <2>1 DEF Numbered
<1>3. CASE hostPthreadCreate
  <2> DEFINE f == NewFiber(nextFiberID + 1)
             n == Len(fibers)
  <2>1. fibers' = Append(fibers, f) /\ fibers \in Seq(Fiber) /\ nextFiberID' = nextFiberID + 1
    BY <1>3 DEF hostPthreadCreate, IInv, TypeOK
  <2>2. f \in Fiber /\ f.id = nextFiberID + 1 /\ nextFiberID \in Nat
    BY <1>3, ValuesAssumption, BoundsAssumption
       DEF hostPthreadCreate, IInv, TypeOK, NewFiber, Fiber, States, Ids
  <2> HIDE DEF f
  <2>3. /\ DOMAIN fibers = 1 .. n /\ DOMAIN fibers' = 1 .. n + 1 /\ n \in Nat
        /\ \A i \in 1 .. n : fibers'[i] = fibers[i] /\ fibers[i].id \in Nat
        /\ fibers'[n + 1] = f
    BY <2>1, <2>2, AppendFacts, FiberTyped DEF Ids
  <2>4. \A i \in 1 .. n + 1 : i \in 1 .. n \/ i = n + 1
    BY <2>3
  <2>5. \A i \in 1 .. n + 1 : fibers'[i].id = IF i = n + 1 THEN nextFiberID + 1 ELSE fibers[i].id
    BY <2>2, <2>3, <2>4
  <2>6. \A i \in 1 .. n : fibers[i].id <= nextFiberID /\ fibers[i].id # nextFiberID + 1
    BY <2>2, <2>3 DEF Numbered
  <2>7. \A i \in 1 .. n + 1 : fibers'[i].id <= nextFiberID + 1
    BY <2>2, <2>3, <2>4, <2>5, <2>6
  <2>8. \A i, j \in 1 .. n + 1 : fibers'[i].id = fibers'[j].id => i = j
    <3>1. \A i, j \in 1 .. n : fibers[i].id = fibers[j].id => i = j
      BY <2>3 DEF Numbered
    <3>2. QED
      BY <2>4, <2>5, <2>6, <3>1
  <2>9. QED
    BY <2>1, <2>3, <2>7, <2>8 DEF Numbered
<1>4. CASE FutexWake
  <2>1. PICK a \in Addrs : fibers' = wakeFutex(a)
    BY <1>4 DEF FutexWake
  <2>2. /\ DOMAIN fibers = 1 .. Len(fibers) /\ DOMAIN fibers' = 1 .. Len(fibers)
        /\ \A j \in 1 .. Len(fibers) : fibers[j] \in Fiber /\ fibers'[j] = Woken(fibers[j], a)
    BY <2>1, WakeFacts, FiberTyped DEF IInv, TypeOK
  <2>3. \A j \in 1 .. Len(fibers) : fibers'[j].id = fibers[j].id
    BY <2>2, WokenFacts
  <2>4. IdsKept
    BY <1>4, <2>2, <2>3 DEF IdsKept, FutexWake
  <2>5. QED
    BY <2>4, IdsKeptNumbered
<1>5. CASE SliceFault \/ SliceDone \/ SliceSaved \/ SliceSaveFails
  <2>1. ctl \in {"slice", "stopped"} /\ UNCHANGED nextFiberID
    <3>1. ctl \in {"slice", "stopped"}
      BY <1>5 DEF SliceFault, SliceDone, SliceSaved, SliceSaveFails
    <3>2. CASE SliceFault
      BY <3>2 DEF SliceFault
    <3>3. CASE SliceDone
      BY <3>3 DEF SliceDone
    <3>4. CASE SliceSaved
      BY <3>4 DEF SliceSaved
    <3>5. CASE SliceSaveFails
      BY <3>5 DEF SliceSaveFails
    <3>6. QED
      BY <1>5, <3>1, <3>2, <3>3, <3>4, <3>5
  <2>2. cur \in 1 .. Len(fibers) /\ fibers[cur] \in Fiber
    BY <2>1, CurFacts
  <2>3. \E f : SetFiber(cur, f) /\ f.id = fibers[cur].id
    <3>1. \A g \in Fiber : \A s \in States, r \in Rets :
            /\ [g EXCEPT !.state = s].id = g.id
            /\ [g EXCEPT !.state = s, !.ret = r].id = g.id
      BY DEF Fiber
    <3>2. ASSUME NEW g \in Fiber, NEW c PROVE Suspended(g, c).id = g.id
      <4> DEFINE k == g.slices + 1
                 h == [g EXCEPT !.ctx = c, !.slices = k]
      <4>1. DOMAIN g = {"id", "started", "ctx", "state", "waitAddr", "slices", "ret"}
        BY DEF Fiber
      <4> HIDE DEF k
      <4>2. DOMAIN h = DOMAIN g /\ h.id = g.id
        BY <4>1
      <4>3. Suspended(g, c) = IF yieldReason = "futexWait"
                              THEN [h EXCEPT !.state = "waiting", !.waitAddr = yieldAddr]
                              ELSE [h EXCEPT !.state = "sleeping"]
        BY DEF Suspended, k
      <4> HIDE DEF h
      <4>4. QED
        BY <4>1, <4>2, <4>3
    <3>3. CASE SliceFault
      BY <2>2, <3>1, <3>3, ValuesAssumption DEF SliceFault, States
    <3>4. CASE SliceDone
      <4>1. PICK r \in Rets : SetFiber(cur, [fibers[cur] EXCEPT !.state = "done", !.ret = r])
        BY <3>4 DEF SliceDone
      <4> DEFINE f == [fibers[cur] EXCEPT !.state = "done", !.ret = r]
      <4>2. "done" \in States
        BY DEF States
      <4>3. f.id = fibers[cur].id
        BY <2>2, <3>1, <4>2
      <4>4. SetFiber(cur, f)
        BY <4>1
      <4> HIDE DEF f
      <4>5. QED
        BY <4>3, <4>4
    <3>5. CASE SliceSaved
      <4>1. SetFiber(cur, Suspended(fibers[cur], FreshCtx))
        BY <3>5 DEF SliceSaved
      <4>2. QED
        BY <2>2, <3>2, <4>1
    <3>6. CASE SliceSaveFails
      <4>1. SetFiber(cur, [fibers[cur] EXCEPT !.state = "parked"])
        BY <3>6 DEF SliceSaveFails
      <4>2. QED
        BY <2>2, <3>1, <4>1, ValuesAssumption DEF States
    <3>7. QED
      BY <1>5, <3>3, <3>4, <3>5, <3>6
  <2>4. QED
    BY <2>1, <2>2, <2>3, SetKeepsIds, IdsKeptNumbered DEF IInv
<1>6. CASE parkFiber \/ StartFiber \/ ResumeFiber \/ DropFiber
  <2>1. Picked /\ UNCHANGED nextFiberID
    BY <1>6 DEF parkFiber, StartFiber, ResumeFiber, DropFiber, Scheduled
  <2>2. idx \in 1 .. Len(fibers) /\ fibers[idx] \in Fiber
    BY <2>1, PickedFacts
  <2>3. \E f : SetFiber(idx, f) /\ f.id = fibers[idx].id
    <3>1. \A g \in Fiber : /\ [g EXCEPT !.state = "parked", !.ctx = NoCtx].id = g.id
                           /\ [g EXCEPT !.started = TRUE].id = g.id
                           /\ [g EXCEPT !.ctx = NoCtx].id = g.id
      BY DEF Fiber
    <3>2. QED
      BY <1>6, <2>2, <3>1 DEF parkFiber, StartFiber, ResumeFiber, DropFiber
  <2>4. QED
    BY <2>1, <2>2, <2>3, SetKeepsIds, IdsKeptNumbered DEF IInv
<1>7. QED
  <2>1. CASE Guest
    BY <2>1, <1>1, <1>3, <1>4 DEF Guest, Uncounted, FutexWait, Nanosleep, Yield, Syscall,
       sysExit, StrayStop, GuestReturn
  <2>2. CASE Loop
    BY <2>2, <1>1, <1>5, <1>6 DEF Loop, SliceExited, SkipFiber, NextRound, LastRound,
       RestoreMain
  <2>3. CASE Host
    BY <2>3, <1>1, <1>2 DEF Host, RunThreads, CallFunc, Snapshot, Restore, RestoreFails,
       SnapshotFree, Close, NoEffect, vars
  <2>4. QED
    BY <2>1, <2>2, <2>3, <1>1, <1>5 DEF Next, vars

LEMMA AlwaysNumbered == Spec => []Numbered
<1>1. Init => Numbered
  <2>1. fibers = <<>> => DOMAIN fibers = {}
    OBVIOUS
  <2>2. QED
    BY <2>1 DEF Init, Numbered
<1>2. IInv /\ Numbered /\ [Next]_vars => Numbered'
  BY NextNumbered
<1>3. QED
  BY <1>1, <1>2, Invariance, PTL DEF Spec

LEMMA HandlesApart ==
  ASSUME MaxFibers <= HandleSpan, NEW s \in Ids, NEW t \in Ids, fiberHandle(s) = fiberHandle(t)
  PROVE  s = t
<1>1. /\ HandleSpan \in Nat \ {0} /\ HandleBase \in Nat /\ s \in 1 .. HandleSpan /\ t \in 1 .. HandleSpan
  BY BoundsAssumption DEF Ids
<1>2. \A n \in 1 .. HandleSpan : n % HandleSpan = IF n = HandleSpan THEN 0 ELSE n
  <2>1. \A n \in 0 .. HandleSpan - 1 : n % HandleSpan = n
    BY <1>1
  <2>2. HandleSpan % HandleSpan = 0
    BY <1>1
  <2>3. QED
    BY <1>1, <2>1, <2>2
<1>3. s % HandleSpan = t % HandleSpan
  BY <1>1, <1>2 DEF fiberHandle
<1>4. QED
  BY <1>1, <1>2, <1>3

(* pthread_join answers with the thread's own result, as long as no more ids  *)
(* are handed out than there are handles.                                     *)
THEOREM Joins == MaxFibers <= HandleSpan => (Spec => []JoinOwnResult)
<1> SUFFICES ASSUME MaxFibers <= HandleSpan PROVE Spec => []JoinOwnResult
  OBVIOUS
<1>1. IInv /\ Numbered => JoinOwnResult
  <2> SUFFICES ASSUME IInv, Numbered, NEW i \in DOMAIN fibers
               PROVE  hostPthreadJoin(fiberHandle(fibers[i].id)) =
                        IF fibers[i].state = "done" THEN fibers[i].ret ELSE Null
    BY DEF JoinOwnResult
  <2> DEFINE h == fiberHandle(fibers[i].id)
             fitting == {j \in DOMAIN fibers : fiberHandle(fibers[j].id) = h}
  <2>1. DOMAIN fibers = 1 .. Len(fibers) /\ Len(fibers) \in Nat /\ \A j \in 1 .. Len(fibers) : fibers[j].id \in Ids
    BY FiberTyped DEF IInv, TypeOK
  <2>2. \A j \in DOMAIN fibers : fiberHandle(fibers[j].id) = h => j = i
    BY <2>1, HandlesApart DEF Numbered
  <2>3. fitting = {i}
    BY <2>2
  <2>4. i \in Nat /\ i # 0
    BY <2>1
  <2>5. fiberByHandle(h) = i
    BY <2>3, <2>4 DEF fiberByHandle
  <2>6. QED
    BY <2>4, <2>5 DEF hostPthreadJoin
<1>2. QED
  BY <1>1, Invariance, AlwaysNumbered, PTL

(***************************************************************************)
(* Rounds: while a round has made no progress the list is the one it began  *)
(* with, and what it has passed has nothing left to run.                    *)
(***************************************************************************)
RoundIdle ==
  ctl = "pick" /\ ~progressed =>
    /\ limit = Len(fibers)
    /\ \A j \in DOMAIN fibers : j < idx => ~Eligible(fibers[j])

LEMMA PickSteps ==
  ASSUME IInv, Next, ctl' = "pick", ~progressed'
  PROVE  SkipFiber \/ parkFiber \/ NextRound \/ RunThreads
<1>1. CASE Guest
  <2>1. ctl \in {"call", "slice"} /\ ctl' \in {ctl, "stopped", "idle"}
    BY <1>1 DEF Guest, Uncounted, hostPthreadCreate, FutexWake, FutexWait, Nanosleep, Yield, Syscall,
                sysExit, StrayStop, GuestReturn, Executing
  <2> QED
    BY <2>1
<1>2. CASE SliceFault
  BY <1>2 DEF SliceFault, NextFiber
<1>3. CASE Loop
  BY <1>3 DEF Loop, SliceExited, SliceDone, SliceSaved, SliceSaveFails, StartFiber, ResumeFiber, DropFiber,
              BeginSlice, NextFiber, LastRound, RestoreMain
<1>4. CASE Host
  BY <1>4 DEF Host, CallFunc, Snapshot, Restore, RestoreFails, SnapshotFree, Close, NoEffect, vars
<1> QED
  BY <1>1, <1>2, <1>3, <1>4 DEF Next

LEMMA NextRoundIdle ==
  ASSUME IInv, RoundIdle, [Next]_vars
  PROVE  RoundIdle'
<1>1. CASE UNCHANGED vars
  <2>1. UNCHANGED <<ctl, fibers, idx, limit, progressed>>
    BY <1>1 DEF vars, loopVars
  <2> QED
    BY <2>1 DEF RoundIdle
<1>2. CASE Next
  <2> SUFFICES ASSUME ctl' = "pick", ~progressed'
               PROVE  /\ limit' = Len(fibers')
                      /\ \A j \in DOMAIN fibers' : j < idx' => ~Eligible(fibers'[j])
    BY DEF RoundIdle, Eligible
  <2>1. fibers \in Seq(Fiber) /\ DOMAIN fibers = 1 .. Len(fibers) /\ Len(fibers) \in Nat /\ idx \in Nat
    BY FiberTyped DEF IInv, TypeOK
  <2>2. CASE SkipFiber
    BY <2>1, <2>2 DEF SkipFiber, Picked, RoundIdle
  <2>3. CASE parkFiber
    <3>1. /\ ctl = "pick" /\ limit' = limit /\ progressed' = progressed /\ idx' = idx + 1
          /\ SetFiber(idx, [fibers[idx] EXCEPT !.state = "parked", !.ctx = NoCtx])
      BY <2>3 DEF parkFiber, Picked
    <3>2. idx \in 1 .. Len(fibers) /\ fibers[idx] \in Fiber
      BY <2>3, PickedFacts DEF parkFiber
    <3> DEFINE f == [fibers[idx] EXCEPT !.state = "parked", !.ctx = NoCtx]
    <3>3. f \in Fiber /\ f.state = "parked"
      BY <3>2 DEF Fiber, States
    <3> HIDE DEF f
    <3>4. SetFiber(idx, f)
      BY <3>1 DEF f
    <3>5. /\ Len(fibers') = Len(fibers) /\ DOMAIN fibers' = 1 .. Len(fibers)
          /\ \A j \in 1 .. Len(fibers) : fibers'[j] = IF j = idx THEN f ELSE fibers[j]
      BY <2>1, <3>2, <3>3, <3>4, SetFiberFacts
    <3>6. ~Eligible(f)
      BY <3>3 DEF Eligible
    <3>7. \A j \in 1 .. Len(fibers) : j < idx + 1 => j < idx \/ j = idx
      BY <2>1
    <3> QED
      BY <2>1, <3>1, <3>5, <3>6, <3>7 DEF RoundIdle
  <2>4. CASE NextRound \/ RunThreads
    <3>1. fibers' = fibers /\ limit' = Len(fibers) /\ idx' = 1
      BY <2>4 DEF NextRound, RunThreads
    <3> QED
      BY <2>1, <3>1
  <2> QED
    BY <1>2, <2>2, <2>3, <2>4, PickSteps
<1> QED
  BY <1>1, <1>2

(* RunThreads gives up before its last round only when nothing is left to run *)
(* (scheduler.go, the progressed flag): no fiber that a later one created or  *)
(* woke is left behind.                                                       *)
THEOREM Quiescent == Spec => QuiescentReturn
<1>1. Init => RoundIdle
  BY DEF Init, RoundIdle
<1>2. IInv /\ RoundIdle /\ [Next]_vars => RoundIdle'
  BY NextRoundIdle
<1>3. IInv /\ RoundIdle /\ [Next]_vars =>
        [ctl = "pick" /\ ctl' = "return" /\ round + 1 < MaxRounds => ~anyRunnable]_vars
  <2> SUFFICES ASSUME IInv, RoundIdle, Next, ctl = "pick", ctl' = "return", round + 1 < MaxRounds
               PROVE  ~anyRunnable
    OBVIOUS
  <2>1. LastRound
    <3>1. ~Guest
      BY DEF Guest, Uncounted, hostPthreadCreate, FutexWake, FutexWait, Nanosleep, Yield, Syscall,
             sysExit, StrayStop, GuestReturn, Executing
    <3>2. ~Host
      BY DEF Host, RunThreads, CallFunc, Snapshot, Restore, RestoreFails, SnapshotFree, Close, NoEffect
    <3> QED
      BY <3>1, <3>2 DEF Next, SliceFault, Loop, SliceExited, SliceDone, SliceSaved, SliceSaveFails, SkipFiber,
                        parkFiber, StartFiber, ResumeFiber, DropFiber, BeginSlice, NextFiber, NextRound, RestoreMain
  <2>2. idx > limit /\ ~progressed
    <3>1. round \in Nat /\ MaxRounds \in Nat
      BY BoundsAssumption DEF IInv, TypeOK
    <3> QED
      BY <2>1, <3>1 DEF LastRound
  <2>3. DOMAIN fibers = 1 .. Len(fibers) /\ Len(fibers) \in Nat /\ idx \in Nat
    BY FiberTyped DEF IInv, TypeOK
  <2>4. \A j \in DOMAIN fibers : j < idx
    BY <2>2, <2>3 DEF RoundIdle
  <2> QED
    BY <2>2, <2>4 DEF RoundIdle, anyRunnable
<1> QED
  BY <1>1, <1>2, <1>3, Invariance, PTL DEF Spec, QuiescentReturn

(***************************************************************************)
(* RunThreads comes to an end, as far as safety can say it.  Its own steps  *)
(* climb a scale that is bounded: a later round, or the next fiber of the   *)
(* list of this round, or the same fiber closer to the end of its slice, or *)
(* one more counted syscall.                                                *)
(***************************************************************************)
Working == mainCtx # NoCtx

Left == CASE ctl = "pick" -> 3 [] ctl = "slice" -> 2 [] ctl = "stopped" -> 1 [] OTHER -> 0

Nearer ==
  \/ round' > round
  \/ UNCHANGED <<round, limit>> /\ idx' > idx
  \/ UNCHANGED <<round, limit, idx>> /\ Left' < Left
  \/ UNCHANGED <<round, limit, idx, ctl>> /\ threadOps' > threadOps

\* What the scheduler neither counts nor sees: the guest computes, creates a
\* thread or wakes others, inside the slice it has.
GuestGoesOn == ctl = "slice" /\ UNCHANGED <<ctl, loopVars, threadOps>>

Bounded ==
  Working => /\ round \in 0 .. MaxRounds - 1
             /\ idx \in 1 .. limit + 1 /\ (InFiber => idx <= limit)
             /\ threadOps <= SliceCap + 1

LEMMA WorkTyped ==
  ASSUME IInv
  PROVE  /\ round \in Nat /\ idx \in Nat /\ limit \in Nat /\ threadOps \in Nat
         /\ idx >= 1 /\ threadOps <= SliceCap + 1
         /\ MaxRounds \in Nat /\ MaxRounds >= 1 /\ SliceCap \in Nat
         /\ Len(fibers) \in Nat
         /\ (InFiber <=> ctl \in {"slice", "stopped"})
         /\ (Working <=> ctl \in {"pick", "slice", "stopped", "return"})
<1>1. TypeOK /\ Shape
  BY DEF IInv
<1>2. Len(fibers) \in Nat
  BY <1>1, FiberTyped DEF TypeOK
<1>3. QED
  BY <1>1, <1>2, BoundsAssumption DEF TypeOK, Shape, Working

LEMMA GuestNears ==
  ASSUME IInv, Working, Guest
  PROVE  /\ UNCHANGED loopVars
         /\ ctl = "slice" /\ ctl' \in {"slice", "stopped"} /\ InFiber
         /\ Nearer \/ GuestGoesOn
<1>1. Executing
  BY DEF Guest, Uncounted, hostPthreadCreate, FutexWake, FutexWait, Nanosleep, Yield, Syscall,
         sysExit, StrayStop, GuestReturn
<1>2. ctl = "slice" /\ InFiber /\ Left = 2
  BY <1>1, WorkTyped DEF Executing, Left
<1>3. UNCHANGED loopVars
  BY DEF Guest, Uncounted, hostPthreadCreate, FutexWake, FutexWait, Nanosleep, Yield, Syscall,
         sysExit, StrayStop, GuestReturn
<1>4. UNCHANGED <<round, limit, idx>>
  BY <1>3 DEF loopVars
<1>5. CASE Uncounted \/ hostPthreadCreate \/ FutexWake
  <2>1. UNCHANGED <<ctl, threadOps>>
    BY <1>5 DEF Uncounted, hostPthreadCreate, FutexWake, yieldVars
  <2> QED
    BY <1>2, <1>3, <2>1 DEF GuestGoesOn
<1>6. CASE FutexWait \/ Nanosleep \/ sysExit \/ StrayStop \/ GuestReturn
  <2>1. ctl' = "stopped"
    BY <1>2, <1>6 DEF FutexWait, Nanosleep, Yield, sysExit, StrayStop, GuestReturn
  <2>2. Left' = 1
    BY <2>1 DEF Left
  <2> QED
    BY <1>2, <1>3, <1>4, <2>1, <2>2 DEF Nearer
<1>7. CASE Syscall
  <2>1. threadOps' = threadOps + 1 /\ ctl' \in {"slice", "stopped"}
    BY <1>2, <1>7 DEF Syscall
  <2>2. CASE ctl' = "slice"
    <3>1. threadOps' > threadOps
      BY <2>1, WorkTyped
    <3> QED
      BY <1>2, <1>3, <1>4, <2>2, <3>1 DEF Nearer
  <2>3. CASE ctl' = "stopped"
    <3>1. Left' = 1
      BY <2>3 DEF Left
    <3> QED
      BY <1>2, <1>3, <1>4, <2>3, <3>1 DEF Nearer
  <2> QED
    BY <2>1, <2>2, <2>3
<1> QED
  BY <1>5, <1>6, <1>7 DEF Guest

LEMMA LoopNears ==
  ASSUME IInv, Working, Bounded, SliceFault \/ Loop
  PROVE  /\ Working' => Nearer
         /\ Working' => /\ round' \in 0 .. MaxRounds - 1 /\ idx' \in 1 .. limit' + 1
                        /\ ctl' \in {"slice", "stopped"} => idx' <= limit'
<1> USE WorkTyped
<1>1. /\ round \in 0 .. MaxRounds - 1 /\ idx \in 1 .. limit + 1
      /\ ctl \in {"slice", "stopped"} => idx <= limit
  BY DEF Bounded
<1>2. CASE SliceFault \/ SliceDone \/ SliceSaved \/ SliceSaveFails
  <2>1. /\ ctl = "slice" \/ ctl = "stopped"
        /\ ctl' = "pick" /\ idx' = idx + 1 /\ UNCHANGED <<round, limit>>
    BY <1>2, Zenon DEF SliceFault, SliceDone, SliceSaved, SliceSaveFails, NextFiber
  <2> QED
    BY <1>1, <2>1 DEF Nearer
<1>3. CASE SliceExited
  <2>1. ctl = "stopped" /\ ctl' = "return" /\ UNCHANGED <<round, limit, idx>>
    BY <1>3 DEF SliceExited, loopVars
  <2>2. Left = 1 /\ Left' = 0
    BY <2>1 DEF Left
  <2> QED
    BY <1>1, <2>1, <2>2 DEF Nearer
<1>4. CASE SkipFiber \/ parkFiber \/ DropFiber
  <2>1. /\ idx <= limit /\ ctl' = "pick" /\ idx' = idx + 1 /\ UNCHANGED <<round, limit>>
    BY <1>4 DEF SkipFiber, parkFiber, DropFiber, Scheduled, Picked, NextFiber
  <2> QED
    BY <1>1, <2>1 DEF Nearer
<1>5. CASE StartFiber \/ ResumeFiber
  <2>1. /\ ctl = "pick" /\ idx <= limit /\ ctl' = "slice" /\ UNCHANGED <<round, limit, idx>>
    BY <1>5 DEF StartFiber, ResumeFiber, Scheduled, Picked, BeginSlice, loopVars
  <2>2. Left = 3 /\ Left' = 2
    BY <2>1 DEF Left
  <2> QED
    BY <1>1, <2>1, <2>2 DEF Nearer
<1>6. CASE NextRound
  <2>1. /\ ctl' = "pick" /\ round + 1 < MaxRounds /\ round' = round + 1 /\ idx' = 1
        /\ limit' = Len(fibers)
    BY <1>6 DEF NextRound
  <2> QED
    BY <1>1, <2>1 DEF Nearer
<1>7. CASE LastRound
  <2>1. ctl = "pick" /\ ctl' = "return" /\ UNCHANGED <<round, limit, idx>>
    BY <1>7 DEF LastRound, loopVars
  <2>2. Left = 3 /\ Left' = 0
    BY <2>1 DEF Left
  <2> QED
    BY <1>1, <2>1, <2>2 DEF Nearer
<1>8. CASE RestoreMain
  BY <1>8 DEF RestoreMain, Working
<1> QED
  BY <1>2, <1>3, <1>4, <1>5, <1>6, <1>7, <1>8 DEF Loop

LEMMA HostNears ==
  ASSUME IInv, Host
  PROVE  \/ UNCHANGED vars
         \/ UNCHANGED mainCtx /\ ~Working
         \/ /\ ~Working /\ ctl' = "pick"
            /\ round' = 0 /\ idx' = 1 /\ limit' = Len(fibers)
<1>1. CASE RunThreads
  BY <1>1, WorkTyped DEF RunThreads
<1>2. CASE CallFunc \/ Snapshot \/ Restore \/ RestoreFails \/ SnapshotFree \/ Close
  <2>1. ctl = "idle" /\ UNCHANGED loopVars
    BY <1>2 DEF CallFunc, Snapshot, Restore, RestoreFails, SnapshotFree, Close
  <2> QED
    BY <2>1, WorkTyped DEF loopVars
<1> QED
  BY <1>1, <1>2 DEF Host, NoEffect

LEMMA AtRest ==
  ASSUME UNCHANGED vars
  PROVE  UNCHANGED <<ctl, cur, fibers, round, idx, limit, mainCtx, threadOps>>
BY DEF vars, loopVars, yieldVars

LEMMA BoundedNext == IInv /\ IInv' /\ Bounded /\ [Next]_vars => Bounded'
<1> SUFFICES ASSUME IInv, IInv', Bounded, [Next]_vars, Working'
             PROVE  /\ round' \in 0 .. MaxRounds - 1
                    /\ idx' \in 1 .. limit' + 1 /\ (InFiber' => idx' <= limit')
                    /\ threadOps' <= SliceCap + 1
  BY DEF Bounded
<1>1. /\ idx' \in Nat /\ idx' >= 1 /\ threadOps' <= SliceCap + 1
      /\ (InFiber' <=> ctl' \in {"slice", "stopped"})
      /\ (Working' <=> ctl' \in {"pick", "slice", "stopped", "return"})
  BY BoundsAssumption DEF IInv, TypeOK, Shape, Working
<1>2. CASE UNCHANGED vars
  <2>1. UNCHANGED <<ctl, cur, fibers, round, idx, limit, mainCtx, threadOps>>
    BY <1>2, AtRest
  <2> QED
    BY <2>1, <1>1 DEF Bounded, Working, InFiber
<1>3. CASE Guest
  <2>1. CASE Working
    <3>1. UNCHANGED loopVars /\ InFiber
      BY <1>3, <2>1, GuestNears
    <3> QED
      BY <2>1, <3>1, <1>1 DEF Bounded, loopVars
  <2>2. CASE ~Working
    <3>1. UNCHANGED loopVars
      BY <1>3 DEF Guest, Uncounted, hostPthreadCreate, FutexWake, FutexWait, Nanosleep, Yield,
                  Syscall, sysExit, StrayStop, GuestReturn
    <3> QED
      BY <2>2, <3>1 DEF loopVars, Working
  <2> QED
    BY <2>1, <2>2
<1>4. CASE SliceFault \/ Loop
  <2>1. Working
    <3>1. ctl = "pick" \/ ctl = "slice" \/ ctl = "stopped" \/ ctl = "return"
      BY <1>4, Zenon DEF SliceFault, Loop, SliceExited, SliceDone, SliceSaved, SliceSaveFails, SkipFiber, parkFiber,
                  StartFiber, ResumeFiber, DropFiber, Scheduled, Picked, NextRound, LastRound, RestoreMain
    <3> QED
      BY <3>1, WorkTyped
  <2> QED
    BY <1>1, <1>4, <2>1, LoopNears
<1>5. CASE Host
  <2>1. CASE UNCHANGED mainCtx /\ ~Working
    BY <2>1 DEF Working
  <2>2. CASE /\ ~Working /\ ctl' = "pick"
             /\ round' = 0 /\ idx' = 1 /\ limit' = Len(fibers)
    BY <2>2, <1>1, WorkTyped
  <2> QED
    BY <1>2, <1>5, <2>1, <2>2, HostNears
<1> QED
  BY <1>2, <1>3, <1>4, <1>5 DEF Next

(* RunThreads has a bounded way to go (scheduler.go, schedMaxRounds and       *)
(* fiberSliceCap): at most MaxRounds rounds over the list each began with, at *)
(* most SliceCap + 1 counted syscalls in a slice.                             *)
THEOREM RunThreadsBounded == Spec => []Bounded
<1>1. Init => Bounded
  BY DEF Init, Bounded, Working
<1>2. QED
  BY <1>1, BoundedNext, Invariance, PTL DEF Spec

(* And every step while it works takes it further along that way, except that *)
(* guest code computes inside its slice: RunThreads returns as long as every  *)
(* slice of the guest's ends, whatever the threads do to each other.          *)
THEOREM RunThreadsNears == Spec => [][Working /\ Working' => Nearer \/ GuestGoesOn]_vars
<1>1. IInv /\ Bounded /\ [Next]_vars => [Working /\ Working' => Nearer \/ GuestGoesOn]_vars
  <2> SUFFICES ASSUME IInv, Bounded, Next, Working, Working', vars' # vars
               PROVE  Nearer \/ GuestGoesOn
    OBVIOUS
  <2>1. ~Host
    BY HostNears DEF Working
  <2> QED
    BY <2>1, GuestNears, LoopNears DEF Next
<1> QED
  BY <1>1, Invariance, RunThreadsBounded, PTL DEF Spec

-----------------------------------------------------------------------------
(***************************************************************************)
(* Scheduler implements Threads: contexts, slices, rounds and the engine's  *)
(* one register file give every thread an execution point of its own, for   *)
(* any number of threads, contexts, slices and rounds.                      *)
(*                                                                         *)
(* The abstract variables are read off the list of fibers by thread id.     *)
(* Viewed says what is read for the fiber at an index; each step of the     *)
(* source then changes what is read for one fiber, and of main.             *)
(***************************************************************************)

(* What Threads sees of a fiber, running or not.                              *)
StatusSeen(f, running) ==
  IF running THEN "running"
  ELSE IF f.state = "done" THEN "done"
  ELSE IF ~f.started THEN "fresh"
  ELSE IF f.ctx = NoCtx THEN "lost"
  ELSE IF f.state = "waiting" THEN "blocked" ELSE "ready"

PointSeen(s, f, state, contexts) ==
  IF s = "running" THEN state
  ELSE IF s \in {"ready", "blocked"} THEN contexts[f.ctx] ELSE Garbage

WaitSeen(s, f) == IF s = "blocked" THEN f.waitAddr ELSE Garbage

Viewed ==
  /\ \A i \in DOMAIN fibers :
       /\ ThreadStatus[fibers[i].id] = StatusSeen(fibers[i], i = cur)
       /\ ThreadPoint[fibers[i].id] = PointSeen(StatusSeen(fibers[i], i = cur), fibers[i], cpu, saved)
       /\ ThreadWaits[fibers[i].id] = WaitSeen(StatusSeen(fibers[i], i = cur), fibers[i])
  /\ \A t \in Ids : (\A i \in DOMAIN fibers : fibers[i].id # t) =>
       ThreadStatus[t] = "absent" /\ ThreadPoint[t] = Garbage /\ ThreadWaits[t] = Garbage
  /\ ThreadPoint[Main] = IF mainCtx # NoCtx THEN saved[mainCtx] ELSE cpu
  /\ ThreadStatus = [t \in Ids |-> ThreadStatus[t]]
  /\ ThreadPoint = [t \in {Main} \cup Ids |-> ThreadPoint[t]]
  /\ ThreadWaits = [t \in Ids |-> ThreadWaits[t]]

LEMMA MainApart == Main \notin Ids /\ Main = 0 /\ T!Main = Main
BY BoundsAssumption DEF Main, Ids, T!Main

LEMMA Views == IInv /\ Numbered => Viewed
<1> SUFFICES ASSUME IInv, Numbered PROVE Viewed
  OBVIOUS
<1>1. \A i \in DOMAIN fibers : fibers[i].id \in Ids
  BY FiberTyped DEF IInv, TypeOK
<1>2. /\ ThreadStatus = [t \in Ids |-> ThreadStatus[t]]
      /\ ThreadPoint = [t \in {Main} \cup Ids |-> ThreadPoint[t]]
      /\ ThreadWaits = [t \in Ids |-> ThreadWaits[t]]
  BY DEF ThreadStatus, ThreadPoint, ThreadWaits
<1>3. ThreadPoint[Main] = IF mainCtx # NoCtx THEN saved[mainCtx] ELSE cpu
  BY DEF ThreadPoint
<1>4. \A t \in Ids :
        /\ ThreadStatus[t] = IF Exists(t) THEN StatusOf(IndexOf(t)) ELSE "absent"
        /\ ThreadPoint[t] = IF ThreadStatus[t] = "running" THEN cpu
                            ELSE IF ThreadStatus[t] \in {"ready", "blocked"} THEN saved[fibers[IndexOf(t)].ctx]
                            ELSE Garbage
        /\ ThreadWaits[t] = IF ThreadStatus[t] = "blocked" THEN fibers[IndexOf(t)].waitAddr ELSE Garbage
  BY MainApart DEF ThreadStatus, ThreadPoint, ThreadWaits
<1>5. \A t \in Ids : (\A i \in DOMAIN fibers : fibers[i].id # t) =>
        ThreadStatus[t] = "absent" /\ ThreadPoint[t] = Garbage /\ ThreadWaits[t] = Garbage
  BY <1>4 DEF Exists
<1>6. ASSUME NEW i \in DOMAIN fibers
      PROVE  Exists(fibers[i].id) /\ IndexOf(fibers[i].id) = i
  BY <1>6 DEF Exists, IndexOf, Numbered
<1>7. \A i \in DOMAIN fibers : StatusOf(i) = StatusSeen(fibers[i], i = cur)
  BY DEF StatusOf, StatusSeen
<1>8. ASSUME NEW i \in DOMAIN fibers
      PROVE  /\ ThreadStatus[fibers[i].id] = StatusSeen(fibers[i], i = cur)
             /\ ThreadPoint[fibers[i].id] = PointSeen(StatusSeen(fibers[i], i = cur), fibers[i], cpu, saved)
             /\ ThreadWaits[fibers[i].id] = WaitSeen(StatusSeen(fibers[i], i = cur), fibers[i])
  BY <1>1, <1>4, <1>6, <1>7 DEF PointSeen, WaitSeen
<1> QED
  BY <1>2, <1>3, <1>5, <1>8 DEF Viewed

LEMMA ViewsNext == ASSUME IInv', Numbered' PROVE Viewed'
BY Views, PTL

(* Functions that agree but at one argument.                                  *)
LEMMA Updated ==
  ASSUME NEW S, NEW f, NEW g, f = [x \in S |-> f[x]], g = [x \in S |-> g[x]],
         NEW t \in S, \A u \in S : u # t => g[u] = f[u]
  PROVE  g = [f EXCEPT ![t] = g[t]]
OBVIOUS

LEMMA Agree ==
  ASSUME NEW S, NEW f, NEW g, f = [x \in S |-> f[x]], g = [x \in S |-> g[x]],
         \A u \in S : g[u] = f[u]
  PROVE  g = f
OBVIOUS

-----------------------------------------------------------------------------
(* The states.                                                               *)

LEMMA FiberFacts ==
  ASSUME IInv, NEW i \in DOMAIN fibers
  PROVE  /\ fibers[i] \in Fiber /\ fibers[i].id \in Ids /\ i \in Nat /\ i # 0
         /\ fibers[i].state \in States /\ fibers[i].started \in BOOLEAN
         /\ fibers[i].ctx \in Ctxs \cup {NoCtx} /\ fibers[i].waitAddr \in Addrs
         /\ fibers[i].ctx # NoCtx =>
              /\ fibers[i].ctx \in live /\ fibers[i].ctx # mainCtx /\ fibers[i].ctx # snap.ctx
              /\ \A j \in DOMAIN fibers : j # i => fibers[j].ctx # fibers[i].ctx
              /\ fibers[i].started /\ fibers[i].state \in {"runnable", "sleeping", "waiting"}
              /\ saved[fibers[i].ctx] # Garbage
<1>1. /\ fibers[i] \in Fiber /\ fibers[i].id \in Ids /\ i \in Nat /\ i # 0
      /\ fibers[i].state \in States /\ fibers[i].started \in BOOLEAN
      /\ fibers[i].ctx \in Ctxs \cup {NoCtx} /\ fibers[i].waitAddr \in Addrs
  BY FiberTyped DEF IInv, TypeOK
<1>2. ASSUME fibers[i].ctx # NoCtx
      PROVE  /\ fibers[i].ctx \in live /\ fibers[i].ctx # mainCtx /\ fibers[i].ctx # snap.ctx
             /\ \A j \in DOMAIN fibers : j # i => fibers[j].ctx # fibers[i].ctx
  <2>1. fibers[i].ctx \in FiberCtxs
    BY <1>2, FiberCtxsMember
  <2> QED
    BY <1>2, <2>1 DEF IInv, ContextsOwned
<1>3. fibers[i].ctx # NoCtx => /\ fibers[i].started /\ fibers[i].state \in {"runnable", "sleeping", "waiting"}
                               /\ saved[fibers[i].ctx] # Garbage
  BY DEF IInv, ContextsIntact
<1> QED
  BY <1>1, <1>2, <1>3

LEMMA Held ==
  ASSUME IInv
  PROVE  /\ cur \in Nat /\ (cur # 0 => cur \in DOMAIN fibers) /\ 0 \notin DOMAIN fibers
         /\ mainCtx # NoCtx => mainCtx \in live /\ mainCtx # snap.ctx /\ mainCtx \in Ctxs
         /\ snap.ctx # NoCtx => snap.ctx \in live /\ snap.ctx \in Ctxs
         /\ cpu \in CPUState /\ cpu # Garbage /\ saved \in [Ctxs -> CPUState \cup {Garbage}] /\ live \subseteq Ctxs
         /\ \A c \in {mainCtx, snap.ctx} \ {NoCtx} : saved[c] # Garbage
<1>1. /\ cur \in 0 .. Len(fibers) /\ mainCtx \in Ctxs \cup {NoCtx} /\ snap.ctx \in Ctxs \cup {NoCtx}
      /\ cpu \in CPUState /\ saved \in [Ctxs -> CPUState \cup {Garbage}] /\ live \subseteq Ctxs
      /\ fibers \in Seq(Fiber)
  BY DEF IInv, TypeOK
<1>2. DOMAIN fibers = 1 .. Len(fibers) /\ Len(fibers) \in Nat
  BY <1>1, FiberTyped
<1>3. /\ mainCtx = snap.ctx => mainCtx = NoCtx
      /\ live = orphans \cup FiberCtxs \cup ({mainCtx, snap.ctx} \ {NoCtx})
  BY DEF IInv, ContextsOwned
<1>4. \A c \in {mainCtx, snap.ctx} \ {NoCtx} : saved[c] # Garbage
  BY DEF IInv, ContextsIntact
<1> QED
  BY <1>1, <1>2, <1>3, <1>4, GarbageAssumption

(* Who executes: main, or the current fiber's thread.                         *)
Current(t) == (cur = 0 /\ t = Main) \/ (cur # 0 /\ t = fibers[cur].id)

LEMMA Nobody ==
  ASSUME IInv, Numbered, cur = 0
  PROVE  T!NobodyRuns
<1> SUFFICES ASSUME NEW u \in Ids PROVE ThreadStatus[u] # "running"
  BY DEF T!NobodyRuns, T!Running
<1>1. CASE \A i \in DOMAIN fibers : fibers[i].id # u
  BY <1>1, Views DEF Viewed
<1>2. ASSUME NEW i \in DOMAIN fibers, fibers[i].id = u PROVE ThreadStatus[u] # "running"
  <2>1. i # cur
    BY FiberFacts
  <2> QED
    BY <1>2, <2>1, Views DEF Viewed, StatusSeen
<1> QED
  BY <1>1, <1>2

LEMMA Executes ==
  ASSUME IInv, Numbered, NEW t, Current(t)
  PROVE  t \in {Main} \cup Ids /\ T!Executor(t)
<1>1. CASE cur = 0
  BY <1>1, Nobody, MainApart DEF Current, T!Executor
<1>2. CASE cur # 0
  <2>1. cur \in DOMAIN fibers /\ t = fibers[cur].id
    BY <1>2, Held DEF Current
  <2>2. t \in Ids
    BY <2>1, FiberFacts
  <2>3. ThreadStatus[t] = "running"
    BY <2>1, Views DEF Viewed, StatusSeen
  <2> QED
    BY <2>2, <2>3, MainApart DEF T!Executor, T!Running
<1> QED
  BY <1>1, <1>2

LEMMA CurrentIs == \E t : Current(t)
BY DEF Current

-----------------------------------------------------------------------------
(* What a step leaves as it was.                                             *)

Both == IInv /\ Numbered /\ IInv' /\ Numbered'

LEMMA BothViews == ASSUME Both PROVE IInv /\ Numbered /\ Viewed /\ Viewed'
BY Views, ViewsNext DEF Both

LEMMA Beside ==
  ASSUME Both, DOMAIN fibers' = DOMAIN fibers,
         NEW i \in DOMAIN fibers, fibers'[i].id = fibers[i].id, cur \in {0, i}, cur' \in {0, i},
         \A j \in DOMAIN fibers : j # i =>
           /\ fibers'[j] = fibers[j]
           /\ fibers[j].ctx # NoCtx => saved'[fibers[j].ctx] = saved[fibers[j].ctx]
  PROVE  \A u \in Ids : u # fibers[i].id =>
           /\ ThreadStatus'[u] = ThreadStatus[u] /\ ThreadPoint'[u] = ThreadPoint[u]
           /\ ThreadWaits'[u] = ThreadWaits[u]
<1> SUFFICES ASSUME NEW u \in Ids, u # fibers[i].id
             PROVE  /\ ThreadStatus'[u] = ThreadStatus[u] /\ ThreadPoint'[u] = ThreadPoint[u]
                    /\ ThreadWaits'[u] = ThreadWaits[u]
  OBVIOUS
<1>1. CASE \A j \in DOMAIN fibers : fibers[j].id # u
  <2>1. \A j \in DOMAIN fibers' : fibers'[j].id # u
    BY <1>1
  <2> QED
    BY <1>1, <2>1, BothViews DEF Viewed
<1>2. ASSUME NEW j \in DOMAIN fibers, fibers[j].id = u
      PROVE  /\ ThreadStatus'[u] = ThreadStatus[u] /\ ThreadPoint'[u] = ThreadPoint[u]
             /\ ThreadWaits'[u] = ThreadWaits[u]
  <2>1. j # i /\ j # 0
    BY <1>2, BothViews, FiberFacts
  <2>2. fibers'[j] = fibers[j] /\ j # cur /\ j # cur' /\ j \in DOMAIN fibers'
    BY <2>1
  <2>3. /\ ThreadStatus[u] = StatusSeen(fibers[j], FALSE)
        /\ ThreadPoint[u] = PointSeen(StatusSeen(fibers[j], FALSE), fibers[j], cpu, saved)
        /\ ThreadWaits[u] = WaitSeen(StatusSeen(fibers[j], FALSE), fibers[j])
    BY <1>2, <2>2, BothViews DEF Viewed
  <2>4. /\ ThreadStatus'[u] = StatusSeen(fibers[j], FALSE)
        /\ ThreadPoint'[u] = PointSeen(StatusSeen(fibers[j], FALSE), fibers[j], cpu', saved')
        /\ ThreadWaits'[u] = WaitSeen(StatusSeen(fibers[j], FALSE), fibers[j])
    BY <1>2, <2>2, BothViews DEF Viewed
  <2>5. PointSeen(StatusSeen(fibers[j], FALSE), fibers[j], cpu', saved')
          = PointSeen(StatusSeen(fibers[j], FALSE), fibers[j], cpu, saved)
    BY <2>1 DEF PointSeen, StatusSeen
  <2> QED
    BY <2>3, <2>4, <2>5
<1> QED
  BY <1>1, <1>2

LEMMA MainSame ==
  ASSUME Both, mainCtx' = mainCtx, mainCtx # NoCtx, saved'[mainCtx] = saved[mainCtx]
  PROVE  ThreadPoint'[Main] = ThreadPoint[Main]
BY BothViews DEF Viewed

LEMMA KeptSame ==
  ASSUME snap' = snap, snap.ctx # NoCtx => saved'[snap.ctx] = saved[snap.ctx]
  PROVE  SnapPoint' = SnapPoint
BY DEF SnapPoint

LEMMA Stutters ==
  ASSUME Both, SnapPoint' = SnapPoint, ThreadPoint'[Main] = ThreadPoint[Main],
         \A u \in Ids : /\ ThreadStatus'[u] = ThreadStatus[u] /\ ThreadPoint'[u] = ThreadPoint[u]
                        /\ ThreadWaits'[u] = ThreadWaits[u]
  PROVE  UNCHANGED T!tvars
<1>1. ThreadStatus' = ThreadStatus /\ ThreadWaits' = ThreadWaits
  BY BothViews, Agree DEF Viewed
<1>2. \A u \in {Main} \cup Ids : ThreadPoint'[u] = ThreadPoint[u]
  OBVIOUS
<1>3. ThreadPoint' = ThreadPoint
  BY <1>2, BothViews, Agree DEF Viewed
<1> QED
  BY <1>1, <1>3 DEF T!tvars

-----------------------------------------------------------------------------
(* Guest code moves the thread that executes.                                *)

Moving ==
  /\ ctl \in {"idle", "call", "slice"}
  /\ UNCHANGED <<cur, mainCtx, snap, saved>>
  /\ \E p \in Points : cpu' = [cpu EXCEPT !.at = p]

LEMMA MovesCurrent ==
  ASSUME Both, Moving, NEW t, Current(t),
         cur # 0 => cur \in DOMAIN fibers' /\ fibers'[cur].id = fibers[cur].id,
         \A u \in Ids : u # t => ThreadPoint'[u] = ThreadPoint[u]
  PROVE  t \in {Main} \cup Ids /\ T!Executor(t) /\ T!Move(t) /\ SnapPoint' = SnapPoint
<1>1. t \in {Main} \cup Ids /\ T!Executor(t)
  BY BothViews, Executes
<1>2. PICK p \in Points : cpu' = [cpu EXCEPT !.at = p]
  BY DEF Moving
<1>3. cur' = cur /\ mainCtx' = mainCtx /\ snap' = snap /\ saved' = saved
  BY DEF Moving
<1>4. (cur = 0 => mainCtx = NoCtx) /\ (cur # 0 => mainCtx # NoCtx)
  BY BothViews DEF Moving, IInv, Shape, InFiber
<1>5. ThreadPoint[t] = cpu /\ ThreadPoint'[t] = cpu'
  <2>1. CASE cur = 0
    BY <1>3, <1>4, <2>1, BothViews DEF Current, Viewed
  <2>2. CASE cur # 0
    BY <1>3, <2>2, BothViews, Held DEF Current, Viewed, StatusSeen, PointSeen
  <2> QED
    BY <2>1, <2>2
<1>6. \A u \in {Main} \cup Ids : u # t => ThreadPoint'[u] = ThreadPoint[u]
  <2>1. t # Main => ThreadPoint'[Main] = ThreadPoint[Main]
    BY <1>3, <1>4, MainSame DEF Current
  <2> QED
    BY <2>1
<1>7. ThreadPoint' = [ThreadPoint EXCEPT ![t] = ThreadPoint'[t]]
  BY <1>1, <1>6, BothViews, Updated DEF Viewed
<1>8. T!Move(t)
  BY <1>2, <1>5, <1>7 DEF T!Move
<1> QED
  BY <1>1, <1>3, <1>8, KeptSame

LEMMA QuietMoves ==
  ASSUME Both, Moving, fibers' = fibers
  PROVE  T!ThreadsNext
<1>1. PICK t : Current(t)
  BY CurrentIs
<1>2. cur' = cur /\ saved' = saved
  BY DEF Moving
<1>3. \A u \in Ids : /\ ThreadStatus'[u] = ThreadStatus[u] /\ ThreadWaits'[u] = ThreadWaits[u]
                     /\ u # t => ThreadPoint'[u] = ThreadPoint[u]
  <2> SUFFICES ASSUME NEW u \in Ids
               PROVE  /\ ThreadStatus'[u] = ThreadStatus[u] /\ ThreadWaits'[u] = ThreadWaits[u]
                      /\ u # t => ThreadPoint'[u] = ThreadPoint[u]
    OBVIOUS
  <2>1. CASE \A i \in DOMAIN fibers : fibers[i].id # u
    BY <2>1, BothViews DEF Viewed
  <2>2. ASSUME NEW i \in DOMAIN fibers, fibers[i].id = u
        PROVE  /\ ThreadStatus'[u] = ThreadStatus[u] /\ ThreadWaits'[u] = ThreadWaits[u]
               /\ u # t => ThreadPoint'[u] = ThreadPoint[u]
    <3>1. ThreadStatus'[u] = ThreadStatus[u] /\ ThreadWaits'[u] = ThreadWaits[u]
      BY <1>2, <2>2, BothViews DEF Viewed
    <3>2. u # t => i # cur
      BY <1>1, <2>2, BothViews, FiberFacts DEF Current
    <3>3. u # t => ThreadPoint'[u] = ThreadPoint[u]
      BY <1>2, <2>2, <3>2, BothViews DEF Viewed, StatusSeen, PointSeen
    <3> QED
      BY <3>1, <3>3
  <2> QED
    BY <2>1, <2>2
<1>4. t \in {Main} \cup Ids /\ T!Executor(t) /\ T!Move(t) /\ SnapPoint' = SnapPoint
  <2>1. cur # 0 => cur \in DOMAIN fibers' /\ fibers'[cur].id = fibers[cur].id
    BY BothViews, Held
  <2>2. \A u \in Ids : u # t => ThreadPoint'[u] = ThreadPoint[u]
    BY <1>3
  <2> QED
    BY <1>1, <2>1, <2>2, MovesCurrent
<1>5. ThreadStatus' = ThreadStatus /\ ThreadWaits' = ThreadWaits
  BY <1>3, BothViews, Agree DEF Viewed
<1>6. T!Execute(t)
  BY <1>4, <1>5 DEF T!Execute
<1> QED
  BY <1>4, <1>6, MainApart DEF T!ThreadsNext

LEMMA StepMoves == ASSUME Step PROVE \E p \in Points : cpu' = [cpu EXCEPT !.at = p]
BY PointsFacts DEF Step

LEMMA GuestMoves ==
  ASSUME Both, Uncounted \/ FutexWait \/ Nanosleep \/ Syscall \/ sysExit \/ StrayStop \/ GuestReturn \/ CallFunc
  PROVE  T!ThreadsNext
<1>1. UNCHANGED <<cur, mainCtx, snap, saved, fibers>>
  BY DEF Uncounted, FutexWait, Nanosleep, Yield, Syscall, sysExit, StrayStop, GuestReturn, CallFunc, loopVars
<1>2. ctl \in {"idle", "call", "slice"}
  BY DEF Uncounted, FutexWait, Nanosleep, Yield, Syscall, sysExit, StrayStop, GuestReturn, CallFunc, Executing
<1>3. \E p \in Points : cpu' = [cpu EXCEPT !.at = p]
  <2>1. CASE Step
    BY <2>1, StepMoves
  <2>2. CASE GuestReturn
    BY <2>2, PointsFacts DEF GuestReturn
  <2>3. CASE CallFunc
    <3>1. 0 \in Points
      BY PointsFacts, BoundsAssumption
    <3> QED
      BY <2>3, <3>1 DEF CallFunc
  <2> QED
    BY <2>1, <2>2, <2>3 DEF Uncounted, FutexWait, Nanosleep, Yield, Syscall, sysExit, StrayStop
<1> QED
  BY <1>1, <1>2, <1>3, QuietMoves DEF Moving

LEMMA CreateSpawns == ASSUME Both, hostPthreadCreate PROVE T!ThreadsNext
<1> DEFINE u == nextFiberID + 1
           n == Len(fibers)
<1>1. PICK t : Current(t)
  BY CurrentIs
<1>2. /\ fibers' = Append(fibers, NewFiber(u)) /\ fibers \in Seq(Fiber) /\ u \in Ids
      /\ UNCHANGED <<cur, mainCtx, snap, saved>> /\ ctl \in {"call", "slice"} /\ Step
  BY BothViews, BoundsAssumption DEF hostPthreadCreate, IInv, TypeOK, Executing, Ids, loopVars
<1>3. NewFiber(u) \in Fiber
  BY <1>2, ValuesAssumption DEF NewFiber, Fiber, States
<1>4. /\ DOMAIN fibers = 1 .. n /\ DOMAIN fibers' = 1 .. n + 1 /\ n \in Nat
      /\ \A j \in 1 .. n : fibers'[j] = fibers[j]
      /\ fibers'[n + 1] = NewFiber(u)
  BY <1>2, <1>3, AppendFacts, FiberTyped
<1>5. ASSUME NEW j \in DOMAIN fibers PROVE fibers[j].id # u
  <2>1. fibers[j].id <= nextFiberID
    BY BothViews DEF Numbered
  <2>2. fibers[j].id \in Nat /\ nextFiberID \in Nat
    <3>1. fibers[j].id \in Ids
      BY BothViews, FiberFacts
    <3> QED
      BY <3>1, BothViews, BoundsAssumption DEF Ids, IInv, TypeOK
  <2> HIDE DEF n
  <2> QED
    BY <2>1, <2>2
<1> HIDE DEF u
<1>6. ThreadStatus[u] = "absent" /\ ThreadPoint[u] = Garbage /\ ThreadWaits[u] = Garbage
  BY <1>2, <1>5, BothViews DEF Viewed
<1>7. ThreadStatus'[u] = "fresh" /\ ThreadPoint'[u] = Garbage /\ ThreadWaits'[u] = Garbage
  <2>1. n + 1 \in DOMAIN fibers' /\ n + 1 # cur'
    BY <1>2, <1>4, BothViews, Held
  <2>2. fibers'[n + 1].id = u /\ fibers'[n + 1].state = "runnable" /\ fibers'[n + 1].started = FALSE
    BY <1>4 DEF NewFiber
  <2>3. StatusSeen(fibers'[n + 1], n + 1 = cur') = "fresh"
    BY <2>1, <2>2 DEF StatusSeen
  <2>4. /\ ThreadStatus'[u] = "fresh"
        /\ ThreadPoint'[u] = PointSeen("fresh", fibers'[n + 1], cpu', saved')
        /\ ThreadWaits'[u] = WaitSeen("fresh", fibers'[n + 1])
    BY <2>1, <2>2, <2>3, BothViews DEF Viewed
  <2> QED
    BY <2>4 DEF PointSeen, WaitSeen
<1>8. ASSUME NEW w \in Ids, w # u
      PROVE  /\ ThreadStatus'[w] = ThreadStatus[w] /\ ThreadWaits'[w] = ThreadWaits[w]
             /\ w # t => ThreadPoint'[w] = ThreadPoint[w]
  <2>1. CASE \A i \in DOMAIN fibers : fibers[i].id # w
    <3>1. \A i \in DOMAIN fibers' : fibers'[i].id # w
      <4>1. \A i \in 1 .. n + 1 : i \in 1 .. n \/ i = n + 1
        BY <1>4
      <4>2. fibers'[n + 1].id = u
        BY <1>4 DEF NewFiber
      <4> QED
        BY <1>4, <1>8, <2>1, <4>1, <4>2
    <3> QED
      BY <2>1, <3>1, BothViews DEF Viewed
  <2>2. ASSUME NEW i \in DOMAIN fibers, fibers[i].id = w
        PROVE  /\ ThreadStatus'[w] = ThreadStatus[w] /\ ThreadWaits'[w] = ThreadWaits[w]
               /\ w # t => ThreadPoint'[w] = ThreadPoint[w]
    <3>1. i \in DOMAIN fibers' /\ fibers'[i] = fibers[i] /\ cur' = cur /\ saved' = saved
      BY <1>2, <1>4
    <3>2. ThreadStatus'[w] = ThreadStatus[w] /\ ThreadWaits'[w] = ThreadWaits[w]
      BY <2>2, <3>1, BothViews DEF Viewed
    <3>3. w # t => i # cur
      BY <1>1, <2>2, BothViews, FiberFacts DEF Current
    <3>4. w # t => ThreadPoint'[w] = ThreadPoint[w]
      BY <2>2, <3>1, <3>3, BothViews DEF Viewed, StatusSeen, PointSeen
    <3> QED
      BY <3>2, <3>4
  <2> QED
    BY <2>1, <2>2
<1>9. t \in {Main} \cup Ids /\ T!Executor(t) /\ T!Move(t) /\ SnapPoint' = SnapPoint
  <2>1. \E p \in Points : cpu' = [cpu EXCEPT !.at = p]
    BY <1>2, StepMoves
  <2>2. Moving
    BY <1>2, <2>1 DEF Moving
  <2>3. cur # 0 => cur \in DOMAIN fibers' /\ fibers'[cur].id = fibers[cur].id
    BY <1>4, BothViews, Held
  <2>4. \A w \in Ids : w # t => ThreadPoint'[w] = ThreadPoint[w]
    BY <1>6, <1>7, <1>8
  <2> QED
    BY <1>1, <2>2, <2>3, <2>4, MovesCurrent
<1>10. ThreadStatus' = [ThreadStatus EXCEPT ![u] = "fresh"]
  <2>1. \A w \in Ids : w # u => ThreadStatus'[w] = ThreadStatus[w]
    BY <1>8
  <2>2. ThreadStatus' = [ThreadStatus EXCEPT ![u] = ThreadStatus'[u]]
    BY <1>2, <2>1, BothViews, Updated DEF Viewed
  <2> QED
    BY <1>7, <2>2
<1>11. ThreadWaits' = ThreadWaits
  <2>1. \A w \in Ids : ThreadWaits'[w] = ThreadWaits[w]
    BY <1>6, <1>7, <1>8
  <2> QED
    BY <2>1, BothViews, Agree DEF Viewed
<1>12. PICK x \in Ids : x = u
  BY <1>2
<1>13. T!Spawn(t, x)
  BY <1>6, <1>9, <1>10, <1>11, <1>12 DEF T!Spawn
<1> QED
  BY <1>9, <1>12, <1>13, MainApart DEF T!ThreadsNext

LEMMA WakeWakes == ASSUME Both, FutexWake PROVE T!ThreadsNext
<1>1. PICK a \in Addrs : fibers' = wakeFutex(a)
  BY DEF FutexWake
<1>2. PICK t : Current(t)
  BY CurrentIs
<1>3. UNCHANGED <<cur, mainCtx, snap, saved>> /\ ctl \in {"call", "slice"} /\ Step
  BY DEF FutexWake, Executing, loopVars
<1>4. /\ DOMAIN fibers' = DOMAIN fibers
      /\ \A j \in DOMAIN fibers : fibers'[j] = Woken(fibers[j], a)
  BY <1>1, BothViews, WakeFacts DEF IInv, TypeOK
<1> DEFINE Roused(w) == ThreadStatus[w] = "blocked" /\ ThreadWaits[w] = a
<1>5. ASSUME NEW w \in Ids
      PROVE  /\ ThreadStatus'[w] = IF Roused(w) THEN "ready" ELSE ThreadStatus[w]
             /\ ThreadWaits'[w] = IF Roused(w) THEN Garbage ELSE ThreadWaits[w]
             /\ w # t => ThreadPoint'[w] = ThreadPoint[w]
  <2>1. CASE \A i \in DOMAIN fibers : fibers[i].id # w
    <3>1. \A i \in DOMAIN fibers' : fibers'[i].id # w
      BY <1>4, <2>1, BothViews, FiberFacts, WokenFacts
    <3> QED
      BY <2>1, <3>1, BothViews DEF Viewed
  <2>2. ASSUME NEW i \in DOMAIN fibers, fibers[i].id = w
        PROVE  /\ ThreadStatus'[w] = IF Roused(w) THEN "ready" ELSE ThreadStatus[w]
               /\ ThreadWaits'[w] = IF Roused(w) THEN Garbage ELSE ThreadWaits[w]
               /\ w # t => ThreadPoint'[w] = ThreadPoint[w]
    <3> DEFINE f == fibers[i]
               g == Woken(fibers[i], a)
    <3>1. /\ i \in DOMAIN fibers' /\ fibers'[i] = g /\ cur' = cur /\ saved' = saved
          /\ g.id = f.id /\ g.ctx = f.ctx /\ g.started = f.started
          /\ g.state = IF ParkedOn(f, a) THEN "runnable" ELSE f.state
      BY <1>3, <1>4, BothViews, FiberFacts, WokenFacts
    <3>2. ~ParkedOn(f, a) => g = f
      BY DEF Woken
    <3>3. /\ f.ctx # NoCtx => f.state \in {"runnable", "sleeping", "waiting"}
          /\ i = cur => f.ctx = NoCtx
      BY BothViews, FiberFacts, Held DEF IInv, Shape, InFiber
    <3> HIDE DEF g
    <3>4. /\ ThreadStatus[w] = StatusSeen(f, i = cur)
          /\ ThreadPoint[w] = PointSeen(StatusSeen(f, i = cur), f, cpu, saved)
          /\ ThreadWaits[w] = WaitSeen(StatusSeen(f, i = cur), f)
      BY <2>2, BothViews DEF Viewed
    <3>5. /\ ThreadStatus'[w] = StatusSeen(g, i = cur)
          /\ ThreadPoint'[w] = PointSeen(StatusSeen(g, i = cur), g, cpu', saved)
          /\ ThreadWaits'[w] = WaitSeen(StatusSeen(g, i = cur), g)
      BY <2>2, <3>1, BothViews DEF Viewed
    <3>6. CASE ~ParkedOn(f, a)
      <4>1. g = f
        BY <3>2, <3>6
      <4>2. ~Roused(w)
        BY <3>4, <3>6 DEF ParkedOn, StatusSeen, WaitSeen
      <4>3. w # t => i # cur
        BY <1>2, <2>2, BothViews, FiberFacts DEF Current
      <4>4. w # t => ThreadPoint'[w] = ThreadPoint[w]
        BY <3>4, <3>5, <4>1, <4>3 DEF StatusSeen, PointSeen
      <4> QED
        BY <3>4, <3>5, <4>1, <4>2, <4>4
    <3>7. CASE ParkedOn(f, a) /\ f.ctx # NoCtx
      <4>1. f.state = "waiting" /\ f.waitAddr = a /\ g.state = "runnable" /\ i # cur /\ f.started
        BY <3>1, <3>3, <3>7, BothViews, FiberFacts DEF ParkedOn
      <4>2. StatusSeen(f, i = cur) = "blocked" /\ StatusSeen(g, i = cur) = "ready"
        BY <3>1, <3>7, <4>1 DEF StatusSeen
      <4>3. ThreadPoint'[w] = ThreadPoint[w]
        BY <3>1, <3>4, <3>5, <4>2 DEF PointSeen
      <4>4. Roused(w) /\ ThreadWaits'[w] = Garbage
        BY <3>4, <3>5, <4>1, <4>2 DEF WaitSeen
      <4> QED
        BY <3>5, <4>2, <4>3, <4>4
    <3>8. CASE ParkedOn(f, a) /\ f.ctx = NoCtx
      <4>1. i # cur
        BY <3>8, BothViews, Held DEF ParkedOn, IInv, Shape, InFiber, Eligible
      <4>2. /\ StatusSeen(f, i = cur) = IF f.started THEN "lost" ELSE "fresh"
            /\ StatusSeen(g, i = cur) = IF f.started THEN "lost" ELSE "fresh"
        BY <3>1, <3>8, <4>1 DEF StatusSeen, ParkedOn
      <4>3. ThreadStatus[w] \in {"lost", "fresh"} /\ ThreadStatus'[w] = ThreadStatus[w]
        BY <3>4, <3>5, <4>2
      <4>4. /\ ThreadPoint[w] = Garbage /\ ThreadPoint'[w] = Garbage
            /\ ThreadWaits[w] = Garbage /\ ThreadWaits'[w] = Garbage
        BY <3>4, <3>5, <4>2 DEF PointSeen, WaitSeen
      <4> QED
        BY <4>3, <4>4
    <3> QED
      BY <3>6, <3>7, <3>8
  <2> QED
    BY <2>1, <2>2
<1>6. t \in {Main} \cup Ids /\ T!Executor(t) /\ T!Move(t) /\ SnapPoint' = SnapPoint
  <2>1. \E p \in Points : cpu' = [cpu EXCEPT !.at = p]
    BY <1>3, StepMoves
  <2>2. Moving
    BY <1>3, <2>1 DEF Moving
  <2>3. cur # 0 => cur \in DOMAIN fibers' /\ fibers'[cur].id = fibers[cur].id
    BY <1>4, BothViews, Held, FiberFacts, WokenFacts
  <2>4. \A w \in Ids : w # t => ThreadPoint'[w] = ThreadPoint[w]
    BY <1>5
  <2> QED
    BY <1>2, <2>2, <2>3, <2>4, MovesCurrent
<1>7. /\ ThreadStatus' = [w \in Ids |-> ThreadStatus'[w]]
      /\ ThreadWaits' = [w \in Ids |-> ThreadWaits'[w]]
  BY BothViews DEF Viewed
<1>8. /\ ThreadStatus' = [w \in Ids |-> IF Roused(w) THEN "ready" ELSE ThreadStatus[w]]
      /\ ThreadWaits' = [w \in Ids |-> IF Roused(w) THEN Garbage ELSE ThreadWaits[w]]
  BY <1>5, <1>7
<1>9. T!Wake(t, a)
  <2> DEFINE woken == {w \in Ids : Roused(w)}
  <2>1. /\ ThreadStatus' = [w \in Ids |-> IF w \in woken THEN "ready" ELSE ThreadStatus[w]]
        /\ ThreadWaits' = [w \in Ids |-> IF w \in woken THEN Garbage ELSE ThreadWaits[w]]
    BY <1>8
  <2> QED
    BY <1>6, <2>1 DEF T!Wake
<1> QED
  BY <1>6, <1>9, MainApart DEF T!ThreadsNext

-----------------------------------------------------------------------------
(* The host's part changes what is seen of one fiber at most.                *)

\* Nothing but the fiber at i changes, and the contexts main and the snapshot hold are kept.
Only(i) ==
  /\ i \in DOMAIN fibers /\ DOMAIN fibers' = DOMAIN fibers /\ fibers'[i].id = fibers[i].id
  /\ cur \in {0, i} /\ cur' \in {0, i}
  /\ \A j \in DOMAIN fibers : j # i =>
       /\ fibers'[j] = fibers[j]
       /\ fibers[j].ctx # NoCtx => saved'[fibers[j].ctx] = saved[fibers[j].ctx]
  /\ mainCtx' = mainCtx /\ snap' = snap /\ mainCtx # NoCtx
  /\ \A c \in {mainCtx, snap.ctx} \ {NoCtx} : saved'[c] = saved[c]

Seen(t, s, p, w) == ThreadStatus[t] = s /\ ThreadPoint[t] = p /\ ThreadWaits[t] = w

LEMMA OnlyOne ==
  ASSUME Both, NEW i, Only(i), NEW t, t = fibers[i].id
  PROVE  /\ t \in Ids /\ T!Main = Main /\ SnapPoint' = SnapPoint
         /\ ThreadPoint'[Main] = ThreadPoint[Main]
         /\ \A u \in Ids : u # t => /\ ThreadStatus'[u] = ThreadStatus[u]
                                    /\ ThreadPoint'[u] = ThreadPoint[u]
                                    /\ ThreadWaits'[u] = ThreadWaits[u]
         /\ ThreadStatus' = [ThreadStatus EXCEPT ![t] = ThreadStatus'[t]]
         /\ ThreadPoint' = [ThreadPoint EXCEPT ![t] = ThreadPoint'[t]]
         /\ ThreadWaits' = [ThreadWaits EXCEPT ![t] = ThreadWaits'[t]]
         /\ ThreadStatus[t] = StatusSeen(fibers[i], i = cur)
         /\ ThreadPoint[t] = PointSeen(StatusSeen(fibers[i], i = cur), fibers[i], cpu, saved)
         /\ ThreadWaits[t] = WaitSeen(StatusSeen(fibers[i], i = cur), fibers[i])
         /\ ThreadStatus'[t] = StatusSeen(fibers'[i], i = cur')
         /\ ThreadPoint'[t] = PointSeen(StatusSeen(fibers'[i], i = cur'), fibers'[i], cpu', saved')
         /\ ThreadWaits'[t] = WaitSeen(StatusSeen(fibers'[i], i = cur'), fibers'[i])
<1>1. i \in DOMAIN fibers /\ i \in DOMAIN fibers' /\ fibers'[i].id = t
  BY DEF Only
<1>2. t \in Ids /\ T!Main = Main
  BY <1>1, BothViews, FiberFacts, MainApart
<1>3. SnapPoint' = SnapPoint
  BY KeptSame DEF Only
<1>4. ThreadPoint'[Main] = ThreadPoint[Main]
  BY MainSame DEF Only
<1>5. \A u \in Ids : u # t => /\ ThreadStatus'[u] = ThreadStatus[u]
                              /\ ThreadPoint'[u] = ThreadPoint[u]
                              /\ ThreadWaits'[u] = ThreadWaits[u]
  BY <1>1, Beside DEF Only
<1>6. /\ ThreadStatus' = [ThreadStatus EXCEPT ![t] = ThreadStatus'[t]]
      /\ ThreadWaits' = [ThreadWaits EXCEPT ![t] = ThreadWaits'[t]]
  <2>1. ThreadStatus' = [ThreadStatus EXCEPT ![t] = ThreadStatus'[t]]
    BY <1>2, <1>5, BothViews, Updated DEF Viewed
  <2>2. ThreadWaits' = [ThreadWaits EXCEPT ![t] = ThreadWaits'[t]]
    BY <1>2, <1>5, BothViews, Updated DEF Viewed
  <2> QED
    BY <2>1, <2>2
<1>7. ThreadPoint' = [ThreadPoint EXCEPT ![t] = ThreadPoint'[t]]
  <2>1. t \in {Main} \cup Ids /\ \A u \in {Main} \cup Ids : u # t => ThreadPoint'[u] = ThreadPoint[u]
    BY <1>2, <1>4, <1>5
  <2> QED
    BY <2>1, BothViews, Updated DEF Viewed
<1>8. /\ ThreadStatus[t] = StatusSeen(fibers[i], i = cur)
      /\ ThreadPoint[t] = PointSeen(StatusSeen(fibers[i], i = cur), fibers[i], cpu, saved)
      /\ ThreadWaits[t] = WaitSeen(StatusSeen(fibers[i], i = cur), fibers[i])
  BY <1>1, BothViews DEF Viewed
<1>9. /\ ThreadStatus'[t] = StatusSeen(fibers'[i], i = cur')
      /\ ThreadPoint'[t] = PointSeen(StatusSeen(fibers'[i], i = cur'), fibers'[i], cpu', saved')
      /\ ThreadWaits'[t] = WaitSeen(StatusSeen(fibers'[i], i = cur'), fibers'[i])
  BY <1>1, BothViews DEF Viewed
<1> QED
  BY <1>2, <1>3, <1>4, <1>5, <1>6, <1>7, <1>8, <1>9

LEMMA OnlySeen ==
  ASSUME Both, NEW i, Only(i), NEW t, t = fibers[i].id, NEW g, g = fibers'[i],
         NEW s, s = StatusSeen(fibers[i], i = cur), NEW q, q = StatusSeen(g, i = cur')
  PROVE  /\ t \in Ids /\ T!Main = Main /\ SnapPoint' = SnapPoint
         /\ ThreadPoint'[Main] = ThreadPoint[Main]
         /\ \A u \in Ids : u # t => /\ ThreadStatus'[u] = ThreadStatus[u]
                                    /\ ThreadPoint'[u] = ThreadPoint[u]
                                    /\ ThreadWaits'[u] = ThreadWaits[u]
         /\ ThreadStatus' = [ThreadStatus EXCEPT ![t] = ThreadStatus'[t]]
         /\ ThreadPoint' = [ThreadPoint EXCEPT ![t] = ThreadPoint'[t]]
         /\ ThreadWaits' = [ThreadWaits EXCEPT ![t] = ThreadWaits'[t]]
         /\ ThreadStatus[t] = s
         /\ ThreadPoint[t] = PointSeen(s, fibers[i], cpu, saved)
         /\ ThreadWaits[t] = WaitSeen(s, fibers[i])
         /\ ThreadStatus'[t] = q
         /\ ThreadPoint'[t] = PointSeen(q, g, cpu', saved')
         /\ ThreadWaits'[t] = WaitSeen(q, g)
BY OnlyOne

\* The fiber at i gives its execution up: it is finished, or without a context.
LEMMA GivenUp ==
  ASSUME Both, NEW i, Only(i), i # cur', fibers'[i].state = "done" \/ fibers'[i].ctx = NoCtx,
         fibers'[i].started = fibers[i].started, i = cur => fibers[i].started,
         fibers[i].state # "done",
         i # cur => fibers[i].state # "waiting" /\ fibers'[i].state # "done"
  PROVE  T!ThreadsNext \/ UNCHANGED T!tvars
<1> DEFINE t == fibers[i].id
           s == StatusSeen(fibers[i], i = cur)
           q == StatusSeen(fibers'[i], i = cur')
<1>1. /\ t \in Ids /\ T!Main = Main /\ SnapPoint' = SnapPoint
      /\ ThreadPoint'[Main] = ThreadPoint[Main]
      /\ \A u \in Ids : u # t => /\ ThreadStatus'[u] = ThreadStatus[u]
                                 /\ ThreadPoint'[u] = ThreadPoint[u]
                                 /\ ThreadWaits'[u] = ThreadWaits[u]
      /\ ThreadStatus' = [ThreadStatus EXCEPT ![t] = ThreadStatus'[t]]
      /\ ThreadPoint' = [ThreadPoint EXCEPT ![t] = ThreadPoint'[t]]
      /\ ThreadWaits' = [ThreadWaits EXCEPT ![t] = ThreadWaits'[t]]
      /\ ThreadStatus[t] = s
      /\ ThreadPoint[t] = PointSeen(s, fibers[i], cpu, saved)
      /\ ThreadWaits[t] = WaitSeen(s, fibers[i])
      /\ ThreadStatus'[t] = q
      /\ ThreadPoint'[t] = PointSeen(q, fibers'[i], cpu', saved')
      /\ ThreadWaits'[t] = WaitSeen(q, fibers'[i])
  BY OnlyOne
<1>2. s \in {"running", "fresh", "lost", "ready"} /\ q \in {"done", "fresh", "lost"}
  BY DEF StatusSeen
<1>3. /\ s = "running" => q \in {"done", "lost"}
      /\ s = "fresh" => q = "fresh"
      /\ s \in {"lost", "ready"} => q = "lost"
  BY DEF StatusSeen
<1> HIDE DEF s, q
<1>4. ThreadWaits[t] = Garbage /\ ThreadWaits'[t] = Garbage /\ ThreadPoint'[t] = Garbage
  BY <1>1, <1>2 DEF WaitSeen, PointSeen
<1>5. PICK x \in Ids : x = t
  BY <1>1
<1> HIDE DEF t
<1>6. ThreadWaits' = ThreadWaits
  <2>1. \A u \in Ids : ThreadWaits'[u] = ThreadWaits[u]
    BY <1>1, <1>4
  <2> QED
    BY <2>1, BothViews, Agree DEF Viewed
<1>7. CASE s = "running" /\ q = "done"
  <2>1. T!Finish(x)
    BY <1>1, <1>4, <1>5, <1>6, <1>7 DEF T!Finish, T!Running
  <2> QED
    BY <1>5, <2>1 DEF T!ThreadsNext
<1>8. CASE s \in {"running", "ready"} /\ q = "lost"
  <2>1. T!Lose(x)
    BY <1>1, <1>4, <1>5, <1>6, <1>8 DEF T!Lose
  <2> QED
    BY <1>5, <2>1 DEF T!ThreadsNext
<1>9. CASE s \in {"fresh", "lost"}
  <2>1. ThreadStatus'[t] = ThreadStatus[t] /\ ThreadPoint[t] = Garbage
    BY <1>1, <1>3, <1>9 DEF PointSeen
  <2> QED
    BY <1>1, <1>4, <2>1, Stutters
<1> QED
  BY <1>2, <1>3, <1>7, <1>8, <1>9

LEMMA Freed ==
  ASSUME IInv, NEW i \in DOMAIN fibers, Free({fibers[i].ctx})
  PROVE  /\ \A j \in DOMAIN fibers : j # i /\ fibers[j].ctx # NoCtx =>
              saved'[fibers[j].ctx] = saved[fibers[j].ctx]
         /\ \A c \in {mainCtx, snap.ctx} \ {NoCtx} : saved'[c] = saved[c]
<1>1. \A d \in Ctxs \ {fibers[i].ctx} : saved'[d] = saved[d]
  BY FreeTyped DEF IInv
<1>2. \A j \in DOMAIN fibers : j # i /\ fibers[j].ctx # NoCtx =>
        fibers[j].ctx \in Ctxs /\ fibers[j].ctx # fibers[i].ctx
  BY FiberFacts
<1>3. \A c \in {mainCtx, snap.ctx} \ {NoCtx} : c \in Ctxs /\ c # fibers[i].ctx
  BY FiberFacts, Held
<1> QED
  BY <1>1, <1>2, <1>3

LEMMA SliceEnds ==
  ASSUME Both, SliceFault \/ SliceDone \/ SliceSaveFails \/ SliceExited
  PROVE  T!ThreadsNext \/ UNCHANGED T!tvars
<1>1. /\ ctl \in {"slice", "stopped"} /\ cur' = 0
      /\ UNCHANGED <<mainCtx, snap, cpu, saved>>
  BY DEF SliceFault, SliceDone, SliceSaveFails, SliceExited, EndSlice, engine, loopVars
<1>2. /\ cur \in 1 .. Len(fibers) /\ fibers[cur] \in Fiber /\ fibers[cur].ctx = NoCtx
      /\ fibers[cur].started /\ mainCtx # NoCtx
  BY <1>1, BothViews, CurFacts
<1>3. cur \in DOMAIN fibers /\ fibers \in Seq(Fiber) /\ fibers[cur].state \notin {"done", "waiting"} /\ cur # 0
  BY <1>1, <1>2, BothViews, Held DEF IInv, Shape, InFiber, Eligible, TypeOK
<1>4. /\ DOMAIN fibers' = DOMAIN fibers
      /\ \A j \in DOMAIN fibers : j # cur => fibers'[j] = fibers[j]
      /\ fibers'[cur].id = fibers[cur].id /\ fibers'[cur].ctx = NoCtx
      /\ fibers'[cur].started = fibers[cur].started
  <2>1. CASE SliceFault
    BY <1>2, <1>3, <2>1 DEF SliceFault, SetFiber, Fiber
  <2>2. CASE SliceSaveFails
    BY <1>2, <1>3, <2>2 DEF SliceSaveFails, SetFiber, Fiber
  <2>3. CASE SliceExited
    BY <1>2, <1>3, <2>3 DEF SliceExited
  <2>4. CASE SliceDone
    <3>1. PICK r \in Rets : SetFiber(cur, [fibers[cur] EXCEPT !.state = "done", !.ret = r])
      BY <2>4 DEF SliceDone
    <3> QED
      BY <1>2, <1>3, <3>1 DEF SetFiber, Fiber
  <2> QED
    BY <2>1, <2>2, <2>3, <2>4
<1>5. Only(cur)
  BY <1>1, <1>2, <1>3, <1>4 DEF Only
<1> QED
  BY <1>1, <1>2, <1>3, <1>4, <1>5, GivenUp

LEMMA PickedOnly ==
  ASSUME Both, Picked, NEW f, f.id = fibers[idx].id, SetFiber(idx, f), cur' \in {0, idx},
         UNCHANGED <<mainCtx, snap>>, Free({fibers[idx].ctx}) \/ saved' = saved
  PROVE  Only(idx) /\ fibers'[idx] = f /\ cur = 0 /\ idx # cur
<1>1. idx \in DOMAIN fibers /\ fibers \in Seq(Fiber) /\ cur = 0 /\ mainCtx # NoCtx /\ idx # 0
  <2>1. idx \in 1 .. Len(fibers) /\ mainCtx # NoCtx /\ cur = 0
    BY BothViews, PickedFacts
  <2>2. fibers \in Seq(Fiber)
    BY BothViews DEF IInv, TypeOK
  <2> QED
    BY <2>1, <2>2
<1>2. /\ DOMAIN fibers' = DOMAIN fibers /\ fibers'[idx] = f
      /\ \A j \in DOMAIN fibers : j # idx => fibers'[j] = fibers[j]
  BY <1>1 DEF SetFiber
<1>3. /\ \A j \in DOMAIN fibers : j # idx /\ fibers[j].ctx # NoCtx =>
           saved'[fibers[j].ctx] = saved[fibers[j].ctx]
      /\ \A c \in {mainCtx, snap.ctx} \ {NoCtx} : saved'[c] = saved[c]
  BY <1>1, BothViews, Freed
<1> QED
  BY <1>1, <1>2, <1>3 DEF Only

LEMMA Parks ==
  ASSUME Both, parkFiber \/ DropFiber
  PROVE  T!ThreadsNext \/ UNCHANGED T!tvars
<1> DEFINE f == [fibers[idx] EXCEPT !.state = "parked", !.ctx = NoCtx]
<1>1. /\ Picked /\ Eligible(fibers[idx]) /\ SetFiber(idx, f) /\ Free({fibers[idx].ctx})
      /\ UNCHANGED <<cur, mainCtx, snap>>
  BY DEF parkFiber, DropFiber, Scheduled
<1>2. fibers[idx] \in Fiber
  BY <1>1, BothViews, PickedFacts
<1>3. /\ f.id = fibers[idx].id /\ f.ctx = NoCtx /\ f.state = "parked"
      /\ f.started = fibers[idx].started
  BY <1>2 DEF Fiber
<1>4. fibers[idx].state \notin {"done", "waiting"}
  BY <1>1 DEF Eligible
<1> HIDE DEF f
<1>5. cur = 0
  BY <1>1, BothViews, PickedFacts
<1>6. Only(idx) /\ fibers'[idx] = f /\ idx # cur
  BY <1>1, <1>3, <1>5, PickedOnly
<1> QED
  BY <1>1, <1>3, <1>4, <1>5, <1>6, GivenUp

LEMMA Starts == ASSUME Both, StartFiber PROVE T!ThreadsNext
<1> DEFINE t == fibers[idx].id
           f == [fibers[idx] EXCEPT !.started = TRUE]
<1>1. /\ Picked /\ Eligible(fibers[idx]) /\ ~fibers[idx].started /\ SetFiber(idx, f)
      /\ cpu' = [who |-> t, at |-> 0] /\ cur' = idx /\ UNCHANGED <<mainCtx, snap, saved>>
  BY DEF StartFiber, Scheduled, BeginSlice, loopVars
<1>2. fibers[idx] \in Fiber /\ cur = 0
  BY <1>1, BothViews, PickedFacts
<1>3. f.id = t
  BY <1>2 DEF Fiber
<1>4. T!NobodyRuns
  BY <1>2, BothViews, Nobody
<1> HIDE DEF f
<1>6. Only(idx) /\ fibers'[idx] = f /\ idx # cur
  BY <1>1, <1>3, PickedOnly
<1>7. /\ t \in Ids /\ T!Main = Main /\ SnapPoint' = SnapPoint
      /\ ThreadPoint'[Main] = ThreadPoint[Main]
      /\ \A u \in Ids : u # t => ThreadWaits'[u] = ThreadWaits[u]
      /\ ThreadStatus' = [ThreadStatus EXCEPT ![t] = ThreadStatus'[t]]
      /\ ThreadPoint' = [ThreadPoint EXCEPT ![t] = ThreadPoint'[t]]
      /\ ThreadStatus[t] = "fresh" /\ ThreadWaits[t] = WaitSeen("fresh", fibers[idx])
      /\ ThreadStatus'[t] = "running"
      /\ ThreadPoint'[t] = PointSeen("running", f, cpu', saved')
      /\ ThreadWaits'[t] = WaitSeen("running", f)
  <2>1. "fresh" = StatusSeen(fibers[idx], idx = cur)
    BY <1>1, <1>6 DEF StatusSeen, Eligible
  <2>2. "running" = StatusSeen(f, idx = cur')
    BY <1>1 DEF StatusSeen
  <2> QED
    BY <1>6, <2>1, <2>2, OnlySeen
<1>8. /\ ThreadStatus'[t] = "running" /\ ThreadPoint'[t] = [who |-> t, at |-> 0]
      /\ ThreadWaits'[t] = Garbage /\ ThreadWaits[t] = Garbage
  BY <1>1, <1>7 DEF StatusSeen, PointSeen, WaitSeen
<1>9. ThreadWaits' = ThreadWaits
  <2>1. \A u \in Ids : ThreadWaits'[u] = ThreadWaits[u]
    BY <1>7, <1>8
  <2> QED
    BY <2>1, BothViews, Agree DEF Viewed
<1> HIDE DEF t
<1>10. PICK x \in Ids : x = t
  BY <1>7
<1>11. PICK a \in Points : a = 0
  BY PointsFacts, BoundsAssumption
<1>12. ThreadPoint' = [ThreadPoint EXCEPT ![x] = [who |-> x, at |-> a]]
  BY <1>7, <1>8, <1>10, <1>11
<1>13. T!Dispatch(x)
  BY <1>4, <1>7, <1>8, <1>9, <1>10, <1>12 DEF T!Dispatch
<1> QED
  BY <1>10, <1>13 DEF T!ThreadsNext

LEMMA Resumes == ASSUME Both, ResumeFiber PROVE T!ThreadsNext
<1> DEFINE t == fibers[idx].id
           f == [fibers[idx] EXCEPT !.ctx = NoCtx]
<1>1. /\ Picked /\ Eligible(fibers[idx]) /\ fibers[idx].started /\ fibers[idx].ctx # NoCtx
      /\ SetFiber(idx, f) /\ Free({fibers[idx].ctx})
      /\ cpu' = saved[fibers[idx].ctx] /\ cur' = idx /\ UNCHANGED <<mainCtx, snap>>
  BY DEF ResumeFiber, Scheduled, BeginSlice, loopVars
<1>2. fibers[idx] \in Fiber /\ cur = 0
  BY <1>1, BothViews, PickedFacts
<1>3. f.id = t
  BY <1>2 DEF Fiber
<1>4. T!NobodyRuns
  BY <1>2, BothViews, Nobody
<1> HIDE DEF f
<1>6. Only(idx) /\ fibers'[idx] = f /\ idx # cur
  BY <1>1, <1>3, PickedOnly
<1>7. /\ t \in Ids /\ T!Main = Main /\ SnapPoint' = SnapPoint
      /\ \A u \in Ids : u # t => ThreadPoint'[u] = ThreadPoint[u] /\ ThreadWaits'[u] = ThreadWaits[u]
      /\ ThreadPoint'[Main] = ThreadPoint[Main]
      /\ ThreadStatus' = [ThreadStatus EXCEPT ![t] = ThreadStatus'[t]]
      /\ ThreadStatus[t] = "ready" /\ ThreadWaits[t] = WaitSeen("ready", fibers[idx])
      /\ ThreadPoint[t] = PointSeen("ready", fibers[idx], cpu, saved)
      /\ ThreadStatus'[t] = "running"
      /\ ThreadPoint'[t] = PointSeen("running", f, cpu', saved')
      /\ ThreadWaits'[t] = WaitSeen("running", f)
  <2>1. "ready" = StatusSeen(fibers[idx], idx = cur)
    BY <1>1, <1>6 DEF StatusSeen, Eligible
  <2>2. "running" = StatusSeen(f, idx = cur')
    BY <1>1 DEF StatusSeen
  <2> QED
    BY <1>6, <2>1, <2>2, OnlySeen
<1>8. /\ ThreadStatus'[t] = "running" /\ ThreadPoint'[t] = ThreadPoint[t]
      /\ ThreadWaits'[t] = Garbage /\ ThreadWaits[t] = Garbage
  BY <1>1, <1>7 DEF StatusSeen, PointSeen, WaitSeen
<1>9. ThreadWaits' = ThreadWaits
  <2>1. \A u \in Ids : ThreadWaits'[u] = ThreadWaits[u]
    BY <1>7, <1>8
  <2> QED
    BY <2>1, BothViews, Agree DEF Viewed
<1>10. ThreadPoint' = ThreadPoint
  <2>1. \A u \in {Main} \cup Ids : ThreadPoint'[u] = ThreadPoint[u]
    BY <1>7, <1>8
  <2> QED
    BY <2>1, BothViews, Agree DEF Viewed
<1> HIDE DEF t
<1>11. PICK x \in Ids : x = t
  BY <1>7
<1>12. T!Dispatch(x)
  BY <1>4, <1>7, <1>8, <1>9, <1>10, <1>11 DEF T!Dispatch
<1> QED
  BY <1>11, <1>12 DEF T!ThreadsNext

LEMMA Suspends == ASSUME Both, SliceSaved PROVE T!ThreadsNext
<1> DEFINE t == fibers[cur].id
           c == FreshCtx
           f == Suspended(fibers[cur], c)
           s == IF yieldReason = "futexWait" THEN "blocked" ELSE "ready"
<1>1. /\ ctl = "stopped" /\ cur' = 0 /\ CanSave /\ SaveContext(c) /\ SetFiber(cur, f)
      /\ UNCHANGED <<mainCtx, snap>>
  BY DEF SliceSaved, EndSlice
<1>2. /\ cur \in DOMAIN fibers /\ fibers[cur] \in Fiber /\ fibers[cur].started /\ mainCtx # NoCtx
      /\ cur # 0 /\ yieldAddr \in Addrs
  BY <1>1, BothViews, CurFacts, FiberTyped, Held DEF IInv, TypeOK
<1>3. c \in Ctxs /\ c \notin live /\ c # NoCtx
  BY <1>1, BothViews, FreshFacts DEF IInv
<1> HIDE DEF c
<1>4. saved'[c] = cpu /\ \A d \in Ctxs \ {c} : saved'[d] = saved[d]
  BY <1>1, <1>3, BothViews, SaveTyped DEF IInv
<1>5. /\ f.id = t /\ f.ctx = c /\ f.started
      /\ f.state = IF yieldReason = "futexWait" THEN "waiting" ELSE "sleeping"
      /\ yieldReason = "futexWait" => f.waitAddr = yieldAddr
  BY <1>2 DEF Suspended, Fiber
<1> HIDE DEF f
<1>6. Only(cur) /\ fibers'[cur] = f
  <2>1. /\ DOMAIN fibers' = DOMAIN fibers /\ fibers'[cur] = f
        /\ \A j \in DOMAIN fibers : j # cur => fibers'[j] = fibers[j]
    BY <1>1, <1>2 DEF SetFiber
  <2>2. \A j \in DOMAIN fibers : j # cur /\ fibers[j].ctx # NoCtx =>
          saved'[fibers[j].ctx] = saved[fibers[j].ctx]
    BY <1>3, <1>4, BothViews, FiberFacts
  <2>3. \A d \in {mainCtx, snap.ctx} \ {NoCtx} : saved'[d] = saved[d]
    BY <1>3, <1>4, BothViews, Held
  <2> QED
    BY <1>1, <1>2, <1>5, <2>1, <2>2, <2>3 DEF Only
<1>7. /\ t \in Ids /\ T!Main = Main /\ SnapPoint' = SnapPoint
      /\ \A u \in Ids : u # t => ThreadPoint'[u] = ThreadPoint[u] /\ ThreadWaits'[u] = ThreadWaits[u]
      /\ ThreadPoint'[Main] = ThreadPoint[Main]
      /\ ThreadStatus' = [ThreadStatus EXCEPT ![t] = ThreadStatus'[t]]
      /\ ThreadWaits' = [ThreadWaits EXCEPT ![t] = ThreadWaits'[t]]
      /\ ThreadStatus[t] = "running"
      /\ ThreadPoint[t] = PointSeen("running", fibers[cur], cpu, saved)
      /\ ThreadWaits[t] = WaitSeen("running", fibers[cur])
      /\ ThreadStatus'[t] = s
      /\ ThreadPoint'[t] = PointSeen(s, f, cpu', saved')
      /\ ThreadWaits'[t] = WaitSeen(s, f)
  <2>1. "running" = StatusSeen(fibers[cur], cur = cur)
    BY DEF StatusSeen
  <2>2. s = StatusSeen(f, cur = cur')
    BY <1>1, <1>2, <1>3, <1>5 DEF StatusSeen
  <2> HIDE DEF s
  <2> QED
    BY <1>6, <2>1, <2>2, OnlySeen
<1>8. ThreadStatus[t] = "running" /\ ThreadPoint[t] = cpu /\ ThreadWaits[t] = Garbage
  BY <1>7 DEF StatusSeen, PointSeen, WaitSeen
<1>9. /\ ThreadStatus'[t] = IF yieldReason = "futexWait" THEN "blocked" ELSE "ready"
      /\ ThreadWaits'[t] = IF yieldReason = "futexWait" THEN yieldAddr ELSE Garbage
      /\ ThreadPoint'[t] = cpu
  BY <1>4, <1>5, <1>7 DEF PointSeen, WaitSeen
<1>10. ThreadPoint' = ThreadPoint
  <2>1. \A u \in {Main} \cup Ids : ThreadPoint'[u] = ThreadPoint[u]
    BY <1>7, <1>8, <1>9
  <2> QED
    BY <2>1, BothViews, Agree DEF Viewed
<1> HIDE DEF t
<1>11. PICK x \in Ids : x = t
  BY <1>7
<1>12. CASE yieldReason = "futexWait"
  <2>1. PICK a \in Addrs : a = yieldAddr
    BY <1>2
  <2>2. T!Suspend(x)
    BY <1>7, <1>8, <1>9, <1>10, <1>11, <1>12, <2>1 DEF T!Suspend, T!Running
  <2> QED
    BY <1>11, <2>2 DEF T!ThreadsNext
<1>13. CASE yieldReason # "futexWait"
  <2>1. ThreadWaits' = ThreadWaits
    <3>1. \A u \in Ids : ThreadWaits'[u] = ThreadWaits[u]
      BY <1>7, <1>8, <1>9, <1>13
    <3> QED
      BY <3>1, BothViews, Agree DEF Viewed
  <2>2. T!Suspend(x)
    BY <1>7, <1>8, <1>9, <1>10, <1>11, <1>13, <2>1 DEF T!Suspend, T!Running
  <2> QED
    BY <1>11, <2>2 DEF T!ThreadsNext
<1> QED
  BY <1>12, <1>13

-----------------------------------------------------------------------------
(* Between slices: what the host and the loop do outside guest code.          *)

LEMMA ListSame ==
  ASSUME Both, fibers' = fibers, cur = 0, cur' = 0,
         \A j \in DOMAIN fibers : fibers[j].ctx # NoCtx => saved'[fibers[j].ctx] = saved[fibers[j].ctx]
  PROVE  \A u \in Ids : /\ ThreadStatus'[u] = ThreadStatus[u] /\ ThreadPoint'[u] = ThreadPoint[u]
                        /\ ThreadWaits'[u] = ThreadWaits[u]
<1> SUFFICES ASSUME NEW u \in Ids
             PROVE  /\ ThreadStatus'[u] = ThreadStatus[u] /\ ThreadPoint'[u] = ThreadPoint[u]
                    /\ ThreadWaits'[u] = ThreadWaits[u]
  OBVIOUS
<1>1. CASE \A j \in DOMAIN fibers : fibers[j].id # u
  BY <1>1, BothViews DEF Viewed
<1>2. ASSUME NEW j \in DOMAIN fibers, fibers[j].id = u
      PROVE  /\ ThreadStatus'[u] = ThreadStatus[u] /\ ThreadPoint'[u] = ThreadPoint[u]
             /\ ThreadWaits'[u] = ThreadWaits[u]
  <2>1. j # cur /\ j # cur' /\ fibers'[j] = fibers[j] /\ j \in DOMAIN fibers'
    BY BothViews, FiberFacts
  <2>2. /\ ThreadStatus[u] = StatusSeen(fibers[j], FALSE)
        /\ ThreadPoint[u] = PointSeen(StatusSeen(fibers[j], FALSE), fibers[j], cpu, saved)
        /\ ThreadWaits[u] = WaitSeen(StatusSeen(fibers[j], FALSE), fibers[j])
    BY <1>2, <2>1, BothViews DEF Viewed
  <2>3. /\ ThreadStatus'[u] = StatusSeen(fibers[j], FALSE)
        /\ ThreadPoint'[u] = PointSeen(StatusSeen(fibers[j], FALSE), fibers[j], cpu', saved')
        /\ ThreadWaits'[u] = WaitSeen(StatusSeen(fibers[j], FALSE), fibers[j])
    BY <1>2, <2>1, BothViews DEF Viewed
  <2>4. PointSeen(StatusSeen(fibers[j], FALSE), fibers[j], cpu', saved')
          = PointSeen(StatusSeen(fibers[j], FALSE), fibers[j], cpu, saved)
    BY DEF PointSeen, StatusSeen
  <2> QED
    BY <2>2, <2>3, <2>4
<1> QED
  BY <1>1, <1>2

LEMMA ListGone ==
  ASSUME Both, fibers' = <<>>
  PROVE  /\ ThreadStatus' = [u \in Ids |-> "absent"] /\ ThreadWaits' = [u \in Ids |-> Garbage]
         /\ ThreadPoint' = [u \in {Main} \cup Ids |-> IF u = Main THEN ThreadPoint'[Main] ELSE Garbage]
<1>1. \A u \in Ids : \A i \in DOMAIN fibers' : fibers'[i].id # u
  OBVIOUS
<1>2. \A u \in Ids : ThreadStatus'[u] = "absent" /\ ThreadPoint'[u] = Garbage /\ ThreadWaits'[u] = Garbage
  BY <1>1, BothViews DEF Viewed
<1>3. /\ ThreadStatus' = [u \in Ids |-> ThreadStatus'[u]]
      /\ ThreadPoint' = [u \in {Main} \cup Ids |-> ThreadPoint'[u]]
      /\ ThreadWaits' = [u \in Ids |-> ThreadWaits'[u]]
  BY BothViews DEF Viewed
<1> QED
  BY <1>2, <1>3

LEMMA QuietStutters ==
  ASSUME Both, SkipFiber \/ NextRound \/ LastRound \/ RestoreFails \/ NoEffect
  PROVE  UNCHANGED T!tvars
<1>1. UNCHANGED <<fibers, cur, mainCtx, snap, cpu, saved>> /\ ctl \in {"pick", "idle", "closed"}
  BY DEF SkipFiber, NextRound, LastRound, RestoreFails, NoEffect, Picked, engine, loopVars, vars
<1>2. cur = 0
  BY <1>1, BothViews DEF IInv, Shape, InFiber
<1>3. \A u \in Ids : /\ ThreadStatus'[u] = ThreadStatus[u] /\ ThreadPoint'[u] = ThreadPoint[u]
                     /\ ThreadWaits'[u] = ThreadWaits[u]
  BY <1>1, <1>2, ListSame
<1>4. ThreadPoint'[Main] = ThreadPoint[Main]
  BY <1>1, BothViews DEF Viewed
<1>5. SnapPoint' = SnapPoint
  BY <1>1 DEF SnapPoint
<1> QED
  BY <1>3, <1>4, <1>5, Stutters

\* Main's execution point moves to its context and back.
LEMMA MainStays ==
  ASSUME Both, RunThreads \/ RestoreMain
  PROVE  UNCHANGED T!tvars
<1>1. fibers' = fibers /\ cur' = cur /\ snap' = snap /\ ctl \in {"idle", "return"}
  BY DEF RunThreads, RestoreMain
<1>2. cur = 0
  BY <1>1, BothViews DEF IInv, Shape, InFiber
<1>3. /\ \A j \in DOMAIN fibers : fibers[j].ctx # NoCtx => saved'[fibers[j].ctx] = saved[fibers[j].ctx]
      /\ snap.ctx # NoCtx => saved'[snap.ctx] = saved[snap.ctx]
      /\ ThreadPoint'[Main] = ThreadPoint[Main]
  <2>1. CASE RunThreads
    <3> DEFINE c == FreshCtx
    <3>1. ctl = "idle" /\ CanSave /\ SaveContext(c) /\ mainCtx' = c /\ cpu' = cpu
      BY <2>1 DEF RunThreads
    <3>2. c \in Ctxs /\ c \notin live /\ c # NoCtx
      BY <3>1, BothViews, FreshFacts DEF IInv
    <3> HIDE DEF c
    <3>3. saved'[c] = cpu /\ \A d \in Ctxs \ {c} : saved'[d] = saved[d]
      BY <3>1, <3>2, BothViews, SaveTyped DEF IInv
    <3>4. \A j \in DOMAIN fibers : fibers[j].ctx # NoCtx => saved'[fibers[j].ctx] = saved[fibers[j].ctx]
      BY <3>2, <3>3, BothViews, FiberFacts
    <3>5. snap.ctx # NoCtx => saved'[snap.ctx] = saved[snap.ctx]
      BY <3>2, <3>3, BothViews, Held
    <3>6. mainCtx = NoCtx
      BY <3>1, BothViews, IdleFacts
    <3>7. ThreadPoint'[Main] = ThreadPoint[Main]
      BY <3>1, <3>2, <3>3, <3>6, BothViews DEF Viewed
    <3> QED
      BY <3>4, <3>5, <3>7
  <2>2. CASE RestoreMain
    <3>1. /\ ctl = "return" /\ cpu' = saved[mainCtx] /\ Free({mainCtx}) /\ mainCtx' = NoCtx
      BY <2>2 DEF RestoreMain
    <3>2. \A d \in Ctxs \ {mainCtx} : saved'[d] = saved[d]
      BY <3>1, BothViews, FreeTyped DEF IInv
    <3>3. \A j \in DOMAIN fibers : fibers[j].ctx # NoCtx => saved'[fibers[j].ctx] = saved[fibers[j].ctx]
      BY <3>2, BothViews, FiberFacts
    <3>4. snap.ctx # NoCtx => saved'[snap.ctx] = saved[snap.ctx]
      BY <3>2, BothViews, Held
    <3>5. mainCtx # NoCtx
      BY <3>1, BothViews DEF IInv, Shape
    <3>6. ThreadPoint'[Main] = ThreadPoint[Main]
      BY <3>1, <3>5, BothViews DEF Viewed
    <3> QED
      BY <3>3, <3>4, <3>6
  <2> QED
    BY <2>1, <2>2
<1>4. \A u \in Ids : /\ ThreadStatus'[u] = ThreadStatus[u] /\ ThreadPoint'[u] = ThreadPoint[u]
                     /\ ThreadWaits'[u] = ThreadWaits[u]
  BY <1>1, <1>2, <1>3, ListSame
<1> QED
  BY <1>1, <1>3, <1>4, KeptSame, Stutters

LEMMA SnapshotKeeps == ASSUME Both, Snapshot PROVE T!ThreadsNext
<1> DEFINE c == FreshCtx
<1>1. /\ ctl = "idle" /\ snap = NoSnap /\ CanSave /\ SaveContext(c) /\ snap'.ctx = c
      /\ UNCHANGED <<fibers, cur, mainCtx, cpu>>
  BY DEF Snapshot, loopVars
<1>2. c \in Ctxs /\ c \notin live /\ c # NoCtx
  BY <1>1, BothViews, FreshFacts DEF IInv
<1> HIDE DEF c
<1>3. saved'[c] = cpu /\ \A d \in Ctxs \ {c} : saved'[d] = saved[d]
  BY <1>1, <1>2, BothViews, SaveTyped DEF IInv
<1>4. cur = 0 /\ mainCtx = NoCtx
  BY <1>1, BothViews, IdleFacts
<1>5. \A j \in DOMAIN fibers : fibers[j].ctx # NoCtx => saved'[fibers[j].ctx] = saved[fibers[j].ctx]
  BY <1>2, <1>3, BothViews, FiberFacts
<1>6. \A u \in Ids : /\ ThreadStatus'[u] = ThreadStatus[u] /\ ThreadPoint'[u] = ThreadPoint[u]
                     /\ ThreadWaits'[u] = ThreadWaits[u]
  BY <1>1, <1>4, <1>5, ListSame
<1>7. ThreadPoint[Main] = cpu /\ ThreadPoint'[Main] = cpu
  BY <1>1, <1>4, BothViews DEF Viewed
<1>8. SnapPoint' = cpu
  BY <1>1, <1>2, <1>3 DEF SnapPoint
<1>9. UNCHANGED <<ThreadStatus, ThreadPoint, ThreadWaits>>
  <2>1. ThreadStatus' = ThreadStatus /\ ThreadWaits' = ThreadWaits
    BY <1>6, BothViews, Agree DEF Viewed
  <2>2. \A u \in {Main} \cup Ids : ThreadPoint'[u] = ThreadPoint[u]
    BY <1>6, <1>7
  <2>3. ThreadPoint' = ThreadPoint
    BY <2>2, BothViews, Agree DEF Viewed
  <2> QED
    BY <2>1, <2>3
<1>10. T!NobodyRuns
  BY <1>4, BothViews, Nobody
<1>11. T!Keep
  BY <1>7, <1>8, <1>9, <1>10, MainApart DEF T!Keep
<1> QED
  BY <1>11 DEF T!ThreadsNext

LEMMA FreeDiscards == ASSUME Both, SnapshotFree PROVE T!ThreadsNext
<1>1. /\ ctl = "idle" /\ snap # NoSnap /\ Free({snap.ctx}) /\ snap'.ctx = NoCtx
      /\ UNCHANGED <<fibers, cur, mainCtx, cpu>>
  BY DEF SnapshotFree, loopVars, NoSnap
<1>2. snap.ctx # NoCtx /\ cur = 0 /\ mainCtx = NoCtx
  BY <1>1, BothViews, IdleFacts DEF IInv, Shape
<1>3. \A d \in Ctxs \ {snap.ctx} : saved'[d] = saved[d]
  BY <1>1, BothViews, FreeTyped DEF IInv
<1>4. \A j \in DOMAIN fibers : fibers[j].ctx # NoCtx => saved'[fibers[j].ctx] = saved[fibers[j].ctx]
  BY <1>3, BothViews, FiberFacts
<1>5. \A u \in Ids : /\ ThreadStatus'[u] = ThreadStatus[u] /\ ThreadPoint'[u] = ThreadPoint[u]
                     /\ ThreadWaits'[u] = ThreadWaits[u]
  BY <1>1, <1>2, <1>4, ListSame
<1>6. ThreadPoint'[Main] = ThreadPoint[Main]
  BY <1>1, <1>2, BothViews DEF Viewed
<1>7. SnapPoint' = Garbage
  BY <1>1 DEF SnapPoint
<1>8. UNCHANGED <<ThreadStatus, ThreadPoint, ThreadWaits>>
  <2>1. ThreadStatus' = ThreadStatus /\ ThreadWaits' = ThreadWaits
    BY <1>5, BothViews, Agree DEF Viewed
  <2>2. \A u \in {Main} \cup Ids : ThreadPoint'[u] = ThreadPoint[u]
    BY <1>5, <1>6
  <2>3. ThreadPoint' = ThreadPoint
    BY <2>2, BothViews, Agree DEF Viewed
  <2> QED
    BY <2>1, <2>3
<1>9. T!Discard
  BY <1>7, <1>8 DEF T!Discard
<1> QED
  BY <1>9 DEF T!ThreadsNext

LEMMA RestoreRewinds == ASSUME Both, Restore PROVE T!ThreadsNext
<1>1. /\ ctl = "idle" /\ snap # NoSnap /\ cpu' = saved[snap.ctx] /\ fibers' = <<>>
      /\ UNCHANGED <<mainCtx, snap, saved>>
  BY DEF Restore, loopVars
<1>2. snap.ctx # NoCtx /\ cur = 0 /\ mainCtx = NoCtx
  BY <1>1, BothViews, IdleFacts DEF IInv, Shape
<1>3. SnapPoint = saved[snap.ctx] /\ SnapPoint' = SnapPoint /\ SnapPoint # Garbage
  BY <1>1, <1>2, BothViews, Held DEF SnapPoint
<1>4. ThreadPoint'[Main] = SnapPoint
  BY <1>1, <1>2, <1>3, BothViews DEF Viewed
<1>5. T!NobodyRuns
  BY <1>2, BothViews, Nobody
<1>6. T!Rewind
  BY <1>1, <1>3, <1>4, <1>5, ListGone, MainApart DEF T!Rewind, T!Forget
<1> QED
  BY <1>6 DEF T!ThreadsNext

LEMMA CloseShuts == ASSUME Both, Close PROVE T!ThreadsNext
<1>1. /\ ctl = "idle" /\ Free(FiberCtxs) /\ fibers' = <<>> /\ UNCHANGED <<mainCtx, snap, cpu>>
  BY DEF Close, loopVars
<1>2. cur = 0 /\ mainCtx = NoCtx
  BY <1>1, BothViews, IdleFacts
<1>3. snap.ctx # NoCtx => saved'[snap.ctx] = saved[snap.ctx]
  <2>1. \A d \in Ctxs \ FiberCtxs : saved'[d] = saved[d]
    BY <1>1, BothViews, FreeTyped DEF IInv
  <2>2. snap.ctx \notin FiberCtxs
    BY BothViews DEF IInv, ContextsOwned
  <2> QED
    BY <2>1, <2>2, BothViews, Held
<1>4. SnapPoint' = SnapPoint
  BY <1>1, <1>3 DEF SnapPoint
<1>5. ThreadPoint'[Main] = ThreadPoint[Main]
  BY <1>1, <1>2, BothViews DEF Viewed
<1>6. T!NobodyRuns
  BY <1>2, BothViews, Nobody
<1>7. T!Shutdown
  BY <1>1, <1>4, <1>5, <1>6, ListGone, MainApart DEF T!Shutdown, T!Forget
<1> QED
  BY <1>7 DEF T!ThreadsNext

-----------------------------------------------------------------------------
(* The theorem.                                                              *)

LEMMA StartsAbstract == ASSUME IInv, Numbered, Init PROVE T!ThreadsInit
<1>1. fibers = <<>> /\ mainCtx = NoCtx /\ snap.ctx = NoCtx /\ cpu \in CPUState
  BY DEF Init, NoSnap, IInv, TypeOK
<1>2. \A u \in Ids : \A i \in DOMAIN fibers : fibers[i].id # u
  BY <1>1
<1>3. \A u \in Ids : ThreadStatus[u] = "absent" /\ ThreadPoint[u] = Garbage /\ ThreadWaits[u] = Garbage
  BY <1>2, Views DEF Viewed
<1>4. ThreadPoint[Main] = cpu /\ cpu # Garbage /\ SnapPoint = Garbage
  BY <1>1, Views, GarbageAssumption DEF Viewed, SnapPoint
<1>5. /\ ThreadStatus = [u \in Ids |-> ThreadStatus[u]]
      /\ ThreadPoint = [u \in {Main} \cup Ids |-> ThreadPoint[u]]
      /\ ThreadWaits = [u \in Ids |-> ThreadWaits[u]]
  BY Views DEF Viewed
<1>6. ThreadStatus = [u \in Ids |-> "absent"] /\ ThreadWaits = [u \in Ids |-> Garbage]
  BY <1>3, <1>5
<1>7. ThreadPoint \in [{Main} \cup Ids -> CPUState \cup {Garbage}]
  <2>1. \A u \in {Main} \cup Ids : ThreadPoint[u] \in CPUState \cup {Garbage}
    BY <1>1, <1>3, <1>4
  <2> QED
    BY <1>5, <2>1
<1>8. T!CPUState = CPUState
  BY MainApart DEF T!CPUState, CPUState
<1> QED
  BY <1>3, <1>4, <1>6, <1>7, <1>8, MainApart DEF T!ThreadsInit

LEMMA StepsAbstract == ASSUME Both, [Next]_vars PROVE T!ThreadsNext \/ UNCHANGED T!tvars
<1>1. CASE Guest
  BY <1>1, GuestMoves, CreateSpawns, WakeWakes DEF Guest
<1>2. CASE SliceFault
  BY <1>2, SliceEnds
<1>3. CASE Loop
  BY <1>3, SliceEnds, Suspends, Parks, Starts, Resumes, QuietStutters, MainStays DEF Loop
<1>4. CASE Host
  BY <1>4, GuestMoves, MainStays, SnapshotKeeps, RestoreRewinds, QuietStutters, FreeDiscards, CloseShuts
     DEF Host
<1>5. CASE UNCHANGED vars
  <2>1. T!tvars' = T!tvars
    BY <1>5 DEF vars, yieldVars, loopVars, engine, T!tvars, ThreadStatus, ThreadPoint, ThreadWaits, SnapPoint,
                StatusOf, Exists, IndexOf
  <2> QED
    BY <2>1
<1> QED
  BY <1>1, <1>2, <1>3, <1>4, <1>5 DEF Next

(* The scheduler implements the abstract threads: at every point of every      *)
(* behaviour at most one thread executes, each goes on from exactly where it   *)
(* was suspended, only a wake on its own address readies a blocked one, and    *)
(* main comes back to its own point after any run of RunThreads.               *)
THEOREM Implements == Spec => ImplementsThreads
<1>1. IInv /\ Numbered /\ Init => T!ThreadsInit
  BY StartsAbstract
<1>2. IInv /\ Numbered /\ IInv' /\ Numbered' /\ [Next]_vars => [T!ThreadsNext]_(T!tvars)
  BY StepsAbstract DEF Both
<1>3. Spec => [](IInv /\ Numbered)
  BY Invariance, AlwaysNumbered, PTL
<1> QED
  BY <1>1, <1>2, <1>3, PTL DEF Spec, ImplementsThreads, T!ThreadsSpec
=============================================================================
