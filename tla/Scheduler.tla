------------------------------ MODULE Scheduler ------------------------------
(***************************************************************************)
(* The cooperative thread scheduler of the emulator (emulator/scheduler.go) *)
(* with everything that drives it: pthread_create and pthread_join          *)
(* (hostfns.go), the interrupt handler and CallFunc and Close               *)
(* (emulator.go), and the part of Snapshot and Restore that touches fibers  *)
(* and CPU contexts (snapshot.go).                                          *)
(*                                                                         *)
(* There is one CPU engine.  Its register file is `cpu`: whose execution    *)
(* it holds (`who`, 0 for main) and at which point (`at`).  A context is a  *)
(* separately allocated copy of it, so the engine's heap of contexts is     *)
(* modelled too: `live` are the allocated ones, `saved` their content.      *)
(* What guest code computes is left out; which calls it makes is not.       *)
(***************************************************************************)
EXTENDS Naturals, Sequences, FiniteSets

CONSTANTS
  MaxFibers,   \* bound on the thread ids handed out
  MaxSlices,   \* fiberMaxSlices
  MaxRounds,   \* schedMaxRounds
  SliceCap,    \* fiberSliceCap
  HandleBase,  \* the 0x7300 of fiberHandle
  HandleSpan,  \* ids equal modulo it share a handle (0x100 for ids < 0x400)
  Addrs,       \* futex addresses the guest uses, the zero address among them
  NullAddr,    \* the zero address, a fresh fiber's waitAddr
  Rets,        \* values a start routine returns
  Null,        \* the NULL result
  Ctxs,        \* contexts the engine can allocate at once
  NoCtx,       \* a nil CPUContext
  Garbage,     \* the content of a context that is not allocated
  MaxPoint     \* execution points inside a thread are 0 .. MaxPoint

ASSUME BoundsAssumption ==
  /\ MaxFibers \in Nat /\ MaxSlices \in Nat \ {0} /\ MaxRounds \in Nat \ {0}
  /\ SliceCap \in Nat /\ MaxPoint \in Nat
  /\ HandleBase \in Nat /\ HandleSpan \in Nat \ {0}

ASSUME ValuesAssumption ==
  NullAddr \in Addrs /\ Null \in Rets /\ NoCtx \notin Ctxs

Main == 0
Ids == 1 .. MaxFibers
Sentinel == MaxPoint + 1           \* PC = the return sentinel
Points == 0 .. Sentinel
CPUState == [who : {Main} \cup Ids, at : Points]

ASSUME GarbageAssumption == Garbage \notin CPUState

VARIABLES
  ctl,          \* where the host is: see Controls
  fibers,       \* e.fibers
  nextFiberID,  \* e.nextFiberID
  cur,          \* index of e.curFiber in fibers, 0 for nil
  yieldReason, yieldAddr,
  threadOps,    \* serviced syscalls in this slice
  round, idx, limit, progressed,   \* locals of RunThreads
  mainCtx,      \* main's saved context during RunThreads
  exited,       \* kctx.Exited
  snap,         \* the host's Snapshot: [ctx, nextID, exited], or NoSnap
  cpu, live, saved,                \* the engine
  orphans       \* history: contexts dropped without Free

loopVars == <<round, idx, limit, progressed, mainCtx>>
yieldVars == <<yieldReason, yieldAddr, threadOps>>
engine == <<cpu, live, saved>>
vars == <<ctl, fibers, nextFiberID, cur, yieldVars, loopVars, exited, snap,
          engine, orphans>>

(* idle: the host may call the API.  call: CallFunc is executing guest code  *)
(* on main.  pick: RunThreads looks at fibers[idx].  slice: guest code of    *)
(* fibers[cur] executes.  stopped: the engine has returned from Start, the   *)
(* slice's epilogue is due.  return: RunThreads is leaving.  closed.         *)
Controls == {"idle", "call", "pick", "slice", "stopped", "return", "closed"}
States == {"runnable", "waiting", "sleeping", "parked", "done"}
Yields == {"none", "preempt", "futexWait", "sleep"}

Fiber == [id : Ids, started : BOOLEAN, ctx : Ctxs \cup {NoCtx}, state : States,
          waitAddr : Addrs, slices : Nat, ret : Rets]

NoSnap == [ctx |-> NoCtx, nextID |-> 0, exited |-> FALSE]

TypeOK ==
  /\ ctl \in Controls
  /\ fibers \in Seq(Fiber)
  /\ nextFiberID \in 0 .. MaxFibers
  /\ cur \in 0 .. Len(fibers)
  /\ yieldReason \in Yields /\ yieldAddr \in Addrs
  /\ threadOps \in 0 .. SliceCap + 1
  /\ round \in 0 .. MaxRounds /\ idx \in Nat /\ limit \in Nat
  /\ progressed \in BOOLEAN
  /\ mainCtx \in Ctxs \cup {NoCtx}
  /\ exited \in BOOLEAN
  /\ snap \in [ctx : Ctxs \cup {NoCtx}, nextID : 0 .. MaxFibers, exited : BOOLEAN]
  /\ cpu \in CPUState
  /\ live \in SUBSET Ctxs
  /\ saved \in [Ctxs -> CPUState \cup {Garbage}]
  /\ orphans \in SUBSET Ctxs

Init ==
  /\ ctl = "idle" /\ fibers = <<>> /\ nextFiberID = 0 /\ cur = 0
  /\ yieldReason = "none" /\ yieldAddr = NullAddr /\ threadOps = 0
  /\ round = 0 /\ idx = 1 /\ limit = 0 /\ progressed = FALSE
  /\ mainCtx = NoCtx /\ exited = FALSE /\ snap = NoSnap
  /\ cpu = [who |-> Main, at |-> Sentinel]
  /\ live = {} /\ saved = [c \in Ctxs |-> Garbage] /\ orphans = {}

-----------------------------------------------------------------------------
(* The engine's contexts.                                                    *)

CanSave == live # Ctxs
FreshCtx == CHOOSE c \in Ctxs : c \notin live

SaveContext(c) ==
  /\ live' = live \cup {c}
  /\ saved' = [saved EXCEPT ![c] = cpu]

Free(cs) ==
  /\ live' = live \ cs
  /\ saved' = [c \in Ctxs |-> IF c \in cs THEN Garbage ELSE saved[c]]

FiberCtxs == {fibers[i].ctx : i \in DOMAIN fibers} \ {NoCtx}

-----------------------------------------------------------------------------
(* Guest code.  It executes on main (call) or on fibers[cur] (slice); every  *)
(* action of it also moves the execution point.                              *)

Executing == ctl \in {"call", "slice"}
InFiber == cur # 0

Step == \E p \in 0 .. MaxPoint : p # cpu.at /\ cpu' = [cpu EXCEPT !.at = p]

\* Instructions, host functions, JNI calls, stubs and the futex operations
\* other than WAIT and WAKE: nothing the scheduler counts or sees.
Uncounted ==
  /\ Executing /\ Step
  /\ UNCHANGED <<ctl, fibers, nextFiberID, cur, yieldVars, loopVars, exited,
                 snap, live, saved, orphans>>

NewFiberFromZero(id) ==
  [id |-> id - 1, started |-> FALSE, ctx |-> NoCtx, state |-> "runnable",
   waitAddr |-> NullAddr, slices |-> 0, ret |-> Null]

NewFiber(id) ==
  [id |-> id, started |-> FALSE, ctx |-> NoCtx, state |-> "runnable",
   waitAddr |-> NullAddr, slices |-> 0, ret |-> Null]

hostPthreadCreate ==
  /\ Executing /\ Step
  /\ nextFiberID < MaxFibers
  /\ nextFiberID' = nextFiberID + 1
  /\ fibers' = Append(fibers, NewFiber(nextFiberID + 1))
  /\ UNCHANGED <<ctl, cur, yieldVars, loopVars, exited, snap, live, saved, orphans>>

ParkedOnAnything(f, a) == f.state \in {"waiting", "parked"}
ParkedOnEvenDone(f, a) == f.state \notin {"runnable", "sleeping"} /\ f.waitAddr = a
ParkedOn(f, a) == f.state \in {"waiting", "parked"} /\ f.waitAddr = a

wakeFutex(a) ==
  [i \in DOMAIN fibers |->
     IF ParkedOn(fibers[i], a) THEN [fibers[i] EXCEPT !.state = "runnable"]
                               ELSE fibers[i]]

FutexWake ==
  /\ Executing /\ Step
  /\ \E a \in Addrs : fibers' = wakeFutex(a)
  /\ UNCHANGED <<ctl, nextFiberID, cur, yieldVars, loopVars, exited, snap,
                 live, saved, orphans>>

\* A syscall that ends a fiber's slice: on main it has no effect but X0 = 0.
Yield(reason, a) ==
  /\ Executing /\ Step
  /\ IF InFiber
     THEN yieldReason' = reason /\ yieldAddr' = a /\ ctl' = "stopped"
     ELSE UNCHANGED <<yieldReason, yieldAddr, ctl>>
  /\ UNCHANGED <<fibers, nextFiberID, cur, threadOps, loopVars, exited, snap,
                 live, saved, orphans>>

FutexWait == \E a \in Addrs : Yield("futexWait", a)
Nanosleep == Yield("sleep", yieldAddr)

SyscallUncounted ==
  /\ Executing /\ Step
  /\ UNCHANGED <<ctl, fibers, nextFiberID, cur, yieldVars, loopVars, exited,
                 snap, live, saved, orphans>>

\* Any other syscall is dispatched to the kernel layer and, in a fiber,
\* counted; the one past the cap preempts.
Syscall ==
  /\ Executing /\ Step
  /\ IF InFiber
     THEN /\ threadOps' = threadOps + 1
          /\ IF threadOps' > SliceCap
             THEN yieldReason' = "preempt" /\ ctl' = "stopped"
             ELSE UNCHANGED <<yieldReason, ctl>>
     ELSE UNCHANGED <<threadOps, yieldReason, ctl>>
  /\ UNCHANGED <<fibers, nextFiberID, cur, yieldAddr, loopVars, exited, snap,
                 live, saved, orphans>>

\* exit and exit_group latch Exited and stop the engine.
sysExit ==
  /\ Executing /\ Step
  /\ exited' = TRUE
  /\ ctl' = IF InFiber THEN "stopped" ELSE "idle"
  /\ UNCHANGED <<fibers, nextFiberID, cur, yieldVars, loopVars, snap, live,
                 saved, orphans>>

\* A stray exception (BRK, HLT) or a hook calling Stop ends Start early with no
\* yield reason; on main CallFunc reports an error.
StrayStop ==
  /\ Executing /\ Step
  /\ ctl' = IF InFiber THEN "stopped" ELSE "idle"
  /\ UNCHANGED <<fibers, nextFiberID, cur, yieldVars, loopVars, exited, snap,
                 live, saved, orphans>>

\* The routine returns to the sentinel.
GuestReturn ==
  /\ Executing
  /\ cpu' = [cpu EXCEPT !.at = Sentinel]
  /\ ctl' = IF InFiber THEN "stopped" ELSE "idle"
  /\ UNCHANGED <<fibers, nextFiberID, cur, yieldVars, loopVars, exited, snap,
                 live, saved, orphans>>

\* pthread_join's answer for a handle: the first fiber the handle fits decides,
\* and one that has not finished gives NULL.  Serving it is an Uncounted step.
fiberHandleAllAlike(id) == HandleBase
fiberHandle(id) == HandleBase + (id % HandleSpan)

fiberByHandle(h) ==
  LET fitting == {i \in DOMAIN fibers : fiberHandle(fibers[i].id) = h}
  IN IF fitting = {} THEN 0 ELSE CHOOSE i \in fitting : \A j \in fitting : i <= j

hostPthreadJoin(h) ==
  LET i == fiberByHandle(h)
  IN IF i # 0 /\ fibers[i].state = "done" THEN fibers[i].ret ELSE Null

-----------------------------------------------------------------------------
(* The slice's epilogue: the part of runFiberSlice after Start.              *)

\* curFiber = nil and threadCap = 0 end every slice; yieldReason and threadOps
\* are dead until the next slice sets them, so they are cleared here.
EndSlice ==
  /\ cur' = 0 /\ yieldReason' = "none" /\ yieldAddr' = NullAddr /\ threadOps' = 0

NextFiberNoProgress == idx' = idx + 1 /\ ctl' = "pick" /\ UNCHANGED progressed
NextFiber == idx' = idx + 1 /\ progressed' = TRUE /\ ctl' = "pick"

SetFiber(i, f) == fibers' = [fibers EXCEPT ![i] = f]

\* Start failed: the guest faulted in the middle of the slice.
SliceFault ==
  /\ ctl = "slice"
  /\ SetFiber(cur, [fibers[cur] EXCEPT !.state = "done"])
  /\ EndSlice /\ NextFiber
  /\ UNCHANGED <<nextFiberID, round, limit, mainCtx, exited, snap, engine, orphans>>

SliceExited ==
  /\ ctl = "stopped" /\ exited
  /\ EndSlice /\ ctl' = "return"
  /\ UNCHANGED <<fibers, nextFiberID, loopVars, exited, snap, engine, orphans>>

SliceDone ==
  /\ ctl = "stopped" /\ ~exited /\ cpu.at = Sentinel
  /\ \E r \in Rets :
       SetFiber(cur, [fibers[cur] EXCEPT !.state = "done", !.ret = r])
  /\ EndSlice /\ NextFiber
  /\ UNCHANGED <<nextFiberID, round, limit, mainCtx, exited, snap, engine, orphans>>

Suspended(f, c) ==
  LET g == [f EXCEPT !.ctx = c, !.slices = @ + 1]
  IN IF yieldReason = "futexWait"
     THEN [g EXCEPT !.state = "waiting", !.waitAddr = yieldAddr]
     ELSE [g EXCEPT !.state = "sleeping"]

SliceSaved ==
  /\ ctl = "stopped" /\ ~exited /\ cpu.at # Sentinel
  /\ CanSave
  /\ SaveContext(FreshCtx)
  /\ SetFiber(cur, Suspended(fibers[cur], FreshCtx))
  /\ EndSlice /\ NextFiber
  /\ UNCHANGED <<nextFiberID, round, limit, mainCtx, exited, snap, cpu, orphans>>

\* The backend cannot snapshot: "single-slice only".
SliceSaveFails ==
  /\ ctl = "stopped" /\ ~exited /\ cpu.at # Sentinel
  /\ SetFiber(cur, [fibers[cur] EXCEPT !.state = "parked"])
  /\ EndSlice /\ NextFiber
  /\ UNCHANGED <<nextFiberID, round, limit, mainCtx, exited, snap, engine, orphans>>

-----------------------------------------------------------------------------
(* RunThreads.                                                               *)

EligibleOnlyRunnable(f) == f.state = "runnable"
Eligible(f) == f.state \in {"runnable", "sleeping"}
anyRunnable == \E i \in DOMAIN fibers : Eligible(fibers[i])

RunThreads ==
  /\ ctl = "idle" /\ anyRunnable /\ CanSave
  /\ SaveContext(FreshCtx) /\ mainCtx' = FreshCtx
  /\ ctl' = "pick"
  /\ round' = 0 /\ idx' = 1 /\ limit' = Len(fibers) /\ progressed' = FALSE
  /\ UNCHANGED <<fibers, nextFiberID, cur, yieldVars, exited, snap, cpu, orphans>>

\* The range expression was evaluated once: fibers created during the round
\* are looked at in the next one.
Picked == ctl = "pick" /\ idx <= limit

SkipFiber ==
  /\ Picked /\ ~Eligible(fibers[idx])
  /\ idx' = idx + 1
  /\ UNCHANGED <<ctl, fibers, nextFiberID, cur, yieldVars, round, limit,
                 progressed, mainCtx, exited, snap, engine, orphans>>

SpentOneLate(f) == f.slices > MaxSlices
Spent(f) == f.slices >= MaxSlices

parkFiberLeaks ==
  /\ Picked /\ Eligible(fibers[idx]) /\ Spent(fibers[idx])
  /\ SetFiber(idx, [fibers[idx] EXCEPT !.state = "parked", !.ctx = NoCtx])
  /\ idx' = idx + 1
  /\ UNCHANGED <<ctl, nextFiberID, cur, yieldVars, round, limit, progressed,
                 mainCtx, exited, snap, engine, orphans>>

parkFiber ==
  /\ Picked /\ Eligible(fibers[idx]) /\ Spent(fibers[idx])
  /\ SetFiber(idx, [fibers[idx] EXCEPT !.state = "parked", !.ctx = NoCtx])
  /\ Free({fibers[idx].ctx})
  /\ idx' = idx + 1
  /\ UNCHANGED <<ctl, nextFiberID, cur, yieldVars, round, limit, progressed,
                 mainCtx, exited, snap, cpu, orphans>>

Scheduled == Picked /\ Eligible(fibers[idx]) /\ ~Spent(fibers[idx])

BeginSlice == cur' = idx /\ ctl' = "slice"

StartFiber ==
  /\ Scheduled /\ ~fibers[idx].started
  /\ cpu' = [who |-> fibers[idx].id, at |-> 0]
  /\ SetFiber(idx, [fibers[idx] EXCEPT !.started = TRUE])
  /\ BeginSlice
  /\ UNCHANGED <<nextFiberID, yieldVars, loopVars, exited, snap, live, saved, orphans>>

ResumeFiber ==
  /\ Scheduled /\ fibers[idx].started /\ fibers[idx].ctx # NoCtx
  /\ cpu' = saved[fibers[idx].ctx]
  /\ Free({fibers[idx].ctx})
  /\ SetFiber(idx, [fibers[idx] EXCEPT !.ctx = NoCtx])
  /\ BeginSlice
  /\ UNCHANGED <<nextFiberID, yieldVars, loopVars, exited, snap, orphans>>

\* No context to resume from, or the engine refuses it: the fiber is parked and
\* the slice counts as run.
DropFiber ==
  /\ Scheduled /\ fibers[idx].started
  /\ SetFiber(idx, [fibers[idx] EXCEPT !.state = "parked", !.ctx = NoCtx])
  /\ Free({fibers[idx].ctx})
  /\ NextFiber
  /\ UNCHANGED <<nextFiberID, cur, yieldVars, round, limit, mainCtx, exited, snap,
                 cpu, orphans>>

NextRound ==
  /\ ctl = "pick" /\ idx > limit /\ progressed /\ round + 1 < MaxRounds
  /\ round' = round + 1 /\ idx' = 1 /\ limit' = Len(fibers) /\ progressed' = FALSE
  /\ UNCHANGED <<ctl, fibers, nextFiberID, cur, yieldVars, mainCtx, exited, snap,
                 engine, orphans>>

LastRound ==
  /\ ctl = "pick" /\ idx > limit
  /\ ~progressed \/ round + 1 >= MaxRounds
  /\ ctl' = "return"
  /\ UNCHANGED <<fibers, nextFiberID, cur, yieldVars, loopVars, exited, snap,
                 engine, orphans>>

\* The deferred restore of main.
RestoreMainForgotten ==
  /\ ctl = "return"
  /\ Free({mainCtx}) /\ mainCtx' = NoCtx
  /\ ctl' = "idle"
  /\ round' = 0 /\ idx' = 1 /\ limit' = 0 /\ progressed' = FALSE
  /\ UNCHANGED <<fibers, nextFiberID, cur, yieldVars, exited, snap, cpu, orphans>>

RestoreMain ==
  /\ ctl = "return"
  /\ cpu' = saved[mainCtx] /\ Free({mainCtx}) /\ mainCtx' = NoCtx
  /\ ctl' = "idle"
  /\ round' = 0 /\ idx' = 1 /\ limit' = 0 /\ progressed' = FALSE
  /\ UNCHANGED <<fibers, nextFiberID, cur, yieldVars, exited, snap, orphans>>

-----------------------------------------------------------------------------
(* The rest of the host API.                                                 *)

CallFunc ==
  /\ ctl = "idle" /\ ctl' = "call"
  /\ cpu' = [cpu EXCEPT !.at = 0]
  /\ UNCHANGED <<fibers, nextFiberID, cur, yieldVars, loopVars, exited, snap,
                 live, saved, orphans>>

Snapshot ==
  /\ ctl = "idle" /\ snap = NoSnap /\ CanSave
  /\ SaveContext(FreshCtx)
  /\ snap' = [ctx |-> FreshCtx, nextID |-> nextFiberID, exited |-> exited]
  /\ UNCHANGED <<ctl, fibers, nextFiberID, cur, yieldVars, loopVars, exited, cpu,
                 orphans>>

\* Restore drops the fibers, and with them any context they still hold.
Restore ==
  /\ ctl = "idle" /\ snap # NoSnap
  /\ cpu' = saved[snap.ctx]
  /\ exited' = snap.exited
  /\ orphans' = orphans \cup FiberCtxs
  /\ fibers' = <<>> /\ cur' = 0 /\ nextFiberID' = snap.nextID
  /\ yieldReason' = "none" /\ yieldAddr' = NullAddr /\ threadOps' = 0
  /\ UNCHANGED <<ctl, loopVars, snap, live, saved>>

\* The engine refuses the snapshot's context, the last thing that can fail:
\* kernel state has already been rewound, the scheduler's has not.
RestoreFails ==
  /\ ctl = "idle" /\ snap # NoSnap
  /\ exited' = snap.exited
  /\ UNCHANGED <<ctl, fibers, nextFiberID, cur, yieldVars, loopVars, snap, engine,
                 orphans>>

SnapshotFree ==
  /\ ctl = "idle" /\ snap # NoSnap
  /\ Free({snap.ctx}) /\ snap' = NoSnap
  /\ UNCHANGED <<ctl, fibers, nextFiberID, cur, yieldVars, loopVars, exited, cpu,
                 orphans>>

Close ==
  /\ ctl = "idle" /\ ctl' = "closed"
  /\ Free(FiberCtxs)
  /\ fibers' = <<>> /\ cur' = 0
  /\ UNCHANGED <<nextFiberID, yieldVars, loopVars, exited, snap, cpu, orphans>>

\* Calls that are refused, or have nothing to do, change nothing: errClosed, a
\* failed SaveContext, RunThreads with no eligible fiber.
NoEffect == ctl \in {"idle", "closed"} /\ UNCHANGED vars

Guest ==
  \/ Uncounted \/ hostPthreadCreate \/ FutexWake \/ FutexWait \/ Nanosleep
  \/ Syscall \/ sysExit \/ StrayStop \/ GuestReturn

Loop ==
  \/ SliceExited \/ SliceDone \/ SliceSaved \/ SliceSaveFails
  \/ SkipFiber \/ parkFiber \/ StartFiber \/ ResumeFiber \/ DropFiber
  \/ NextRound \/ LastRound \/ RestoreMain

Host ==
  \/ RunThreads \/ CallFunc \/ Snapshot \/ Restore \/ RestoreFails
  \/ SnapshotFree \/ Close \/ NoEffect

Next == Guest \/ SliceFault \/ Loop \/ Host

Spec == Init /\ [][Next]_vars

(* The host's own code runs to completion (Loop).  GuestFair is an assumption *)
(* about guest code: it does not compute, or issue uncounted calls, forever.  *)
GuestFair == WF_vars(ctl = "slice" /\ (Syscall \/ FutexWait \/ Nanosleep
                       \/ sysExit \/ StrayStop \/ GuestReturn \/ SliceFault))

LiveSpec == Spec /\ WF_vars(Loop) /\ GuestFair

-----------------------------------------------------------------------------
(* Properties.                                                               *)

(* Every CPU context the engine has allocated belongs to exactly one holder:  *)
(* a suspended fiber, RunThreads (main's), the host's snapshot, or the        *)
(* orphans Restore leaves behind.  So no context is freed twice, resumed      *)
(* after its Free, shared, or leaked by any path but Restore.                 *)
ContextsOwned ==
  /\ \A i, j \in DOMAIN fibers :
       i # j /\ fibers[i].ctx # NoCtx => fibers[i].ctx # fibers[j].ctx
  /\ mainCtx \notin FiberCtxs /\ snap.ctx \notin FiberCtxs
  /\ mainCtx = snap.ctx => mainCtx = NoCtx
  /\ orphans \cap (FiberCtxs \cup {mainCtx, snap.ctx}) = {}
  /\ live = orphans \cup FiberCtxs \cup ({mainCtx, snap.ctx} \ {NoCtx})

(* A suspended fiber's context holds that fiber's execution and nobody else's, *)
(* the engine holds the current fiber's execution while its slice runs, and   *)
(* main's whenever the host or a top-level call is in control.                *)
ContextsIntact ==
  /\ \A i \in DOMAIN fibers : fibers[i].ctx # NoCtx =>
       /\ saved[fibers[i].ctx] # Garbage
       /\ saved[fibers[i].ctx].who = fibers[i].id
       /\ fibers[i].started /\ fibers[i].state \in {"runnable", "sleeping", "waiting"}
  /\ \A c \in {mainCtx, snap.ctx} \ {NoCtx} :
       saved[c] # Garbage /\ saved[c].who = Main
  /\ cpu.who = IF InFiber THEN fibers[cur].id
               ELSE IF mainCtx = NoCtx THEN Main ELSE cpu.who

(* pthread_join on the handle pthread_create gave out answers with that       *)
(* thread's own result, and NULL as long as it has not finished.              *)
JoinOwnResult ==
  \A i \in DOMAIN fibers :
    hostPthreadJoin(fiberHandle(fibers[i].id)) =
      IF fibers[i].state = "done" THEN fibers[i].ret ELSE Null

(* The two budgets: no fiber is suspended more than MaxSlices times, and no   *)
(* slice gets further than one serviced syscall past its cap.                 *)
BudgetsHold ==
  /\ \A i \in DOMAIN fibers : fibers[i].slices <= MaxSlices
  /\ threadOps <= SliceCap + 1 /\ (ctl = "slice" => threadOps <= SliceCap)

(* How the control state, the current fiber and main's context go together;   *)
(* with the invariants above it is inductive.                                 *)
Shape ==
  /\ InFiber <=> ctl \in {"slice", "stopped"}
  /\ mainCtx # NoCtx <=> ctl \in {"pick", "slice", "stopped", "return"}
  /\ InFiber => /\ fibers[cur].ctx = NoCtx /\ fibers[cur].started
                /\ Eligible(fibers[cur]) /\ ~Spent(fibers[cur])
  /\ ~InFiber => threadOps = 0
  /\ idx >= 1 /\ (mainCtx # NoCtx => limit <= Len(fibers))
  /\ snap # NoSnap => snap.ctx # NoCtx

IInv == TypeOK /\ Shape /\ ContextsOwned /\ ContextsIntact /\ BudgetsHold

DoneKept ==
  \A i \in DOMAIN fibers :
    fibers[i].state = "done" /\ fibers' # <<>> =>
      /\ i \in DOMAIN fibers'
      /\ fibers'[i].state = "done" /\ fibers'[i].ret = fibers[i].ret

(* A finished fiber keeps its state and its result until Restore or Close     *)
(* drops the whole list: no wake or slice ever revives it.                    *)
DoneIsFinal == [][DoneKept]_vars

(* RunThreads stops by itself only when no fiber is left to run, unless the   *)
(* bound on rounds is reached: a fiber created or woken in the last round, by *)
(* a fiber earlier or later in the list, is not left behind.                  *)
QuiescentReturn ==
  [][ctl = "pick" /\ ctl' = "return" /\ round + 1 < MaxRounds => ~anyRunnable]_vars

(* RunThreads returns to the host.                                            *)
RunThreadsReturns == (ctl \in {"pick", "slice", "stopped"}) ~> (ctl = "idle")

(* While RunThreads works, a fiber that only slept gets another slice, or is  *)
(* parked, before RunThreads returns (unless the guest exits; MaxRounds is    *)
(* taken large enough not to matter, as schedMaxRounds is).                   *)
SleeperServed ==
  \A t \in Ids :
    (\E i \in DOMAIN fibers : fibers[i].id = t /\ ctl = "pick"
                              /\ fibers[i].state = "sleeping")
      ~> (\/ exited
          \/ InFiber /\ fibers[cur].id = t
          \/ \E i \in DOMAIN fibers : fibers[i].id = t /\ fibers[i].state = "parked")

(* "slice budget spent; only a futex wake resumes it" (of fsParked): a fiber  *)
(* parked for its slice budget that a wake makes runnable has a context to    *)
(* go on from.                                                                *)
ParkedFiberResumes ==
  [][\A i \in DOMAIN fibers :
       fibers[i].state = "parked" /\ Spent(fibers[i])
         /\ fibers' # <<>> /\ fibers'[i].state = "runnable"
       => fibers'[i].ctx # NoCtx]_vars

-----------------------------------------------------------------------------
(* The refinement: contexts, rounds and slices implement Threads.            *)

StatusOf(i) ==
  LET f == fibers[i]
  IN IF i = cur THEN "running"
     ELSE IF f.state = "done" THEN "done"
     ELSE IF ~f.started THEN "fresh"
     ELSE IF f.ctx = NoCtx THEN "lost"
     ELSE IF f.state = "waiting" THEN "blocked" ELSE "ready"

Exists(t) == \E i \in DOMAIN fibers : fibers[i].id = t
IndexOf(t) == CHOOSE i \in DOMAIN fibers : fibers[i].id = t

ThreadStatus == [t \in Ids |-> IF Exists(t) THEN StatusOf(IndexOf(t)) ELSE "absent"]

ThreadPoint ==
  [t \in {Main} \cup Ids |->
     IF t = Main THEN IF mainCtx # NoCtx THEN saved[mainCtx] ELSE cpu
     ELSE IF ThreadStatus[t] = "running" THEN cpu
     ELSE IF ThreadStatus[t] \in {"ready", "blocked"} THEN saved[fibers[IndexOf(t)].ctx]
     ELSE Garbage]

ThreadWaits ==
  [t \in Ids |-> IF ThreadStatus[t] = "blocked" THEN fibers[IndexOf(t)].waitAddr
                                               ELSE Garbage]

SnapPoint == IF snap.ctx = NoCtx THEN Garbage ELSE saved[snap.ctx]

T == INSTANCE Threads WITH
       NoPoint <- Garbage, status <- ThreadStatus, point <- ThreadPoint,
       waits <- ThreadWaits, kept <- SnapPoint

(* The scheduler implements Threads: at most one thread executes, each goes   *)
(* on from exactly where it was suspended, only a wake on its own address     *)
(* readies a blocked one, a thread without context never executes again, and  *)
(* main comes back to its own point after any run.                            *)
ImplementsThreads == T!ThreadsSpec
=============================================================================
