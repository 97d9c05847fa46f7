---------------------------- MODULE UnicornEngine ----------------------------
(***************************************************************************)
(* The unicorn backend (internal/emu): on Windows every call to the engine  *)
(* is handed to one C thread through a single command slot and two auto-    *)
(* reset events (uc_shim.c), except calls made on that thread itself, from  *)
(* a hook callback while Start runs.  On top of it unicorn_cgo.go keeps the *)
(* registry of hook callbacks and flushes the engine's translations when a  *)
(* hook is added.                                                           *)
(*                                                                         *)
(* One thread, Driver, adds hooks, starts the guest and closes the backend; *)
(* the others read and write registers and memory, and ask it to stop.      *)
(***************************************************************************)
EXTENDS Integers, Sequences

CONSTANTS
  Callers, Driver,
  Nobody, None,
  Vals,         \* states of the machine; `get` and `put` stand for every read and write
  Blocks,       \* blocks of guest code
  MaxHooks,     \* bound on the hooks added
  MaxDepth,     \* bound on nested Starts
  MayFailOpen   \* whether uc_open can fail

ASSUME EngineAssumption ==
  /\ Driver \in Callers /\ Nobody \notin Callers
  /\ Vals \subseteq Nat /\ MaxHooks \in Nat /\ MaxDepth \in Nat \ {0}
  /\ MayFailOpen \in BOOLEAN

Ids == 1 .. MaxHooks
OK == 100
ERR == 101
Answers == {OK, ERR}

Command(op, arg) == [op |-> op, arg |-> arg]
NoCommand == Command("get", 0)
Commands ==
  {Command(op, 0) : op \in {"get", "stop", "start", "flush", "quit"}}
  \cup {Command("put", v) : v \in Vals}
  \cup {Command(op, id) : op \in {"hookadd", "hookdel"}, id \in Ids}

ASSUME NoneAssumption ==
  None \notin Answers \cup Vals /\ None \notin Commands /\ \A s \in SUBSET Ids : None # s

VARIABLES
  pc,      \* per caller: see Places
  cmd,     \* its ucs_cmd
  ans,     \* the ret and rval of that
  then,    \* what Driver's method does when its command has returned
  lock, cur, ready, done, \* struct ucs_engine
  eng,     \* the engine thread: opening, waiting, serving, running, ended
  val, hooks, tb, frames, \* unicorn: the machine, its hooks, translations, and
                          \* the uc_emu_starts in progress
  cbReg, cbs, kinds,      \* the registry, the backend's list, kinds of hooks
  depth, pendingFlush

pump == <<lock, cur, ready, done, eng>>
machine == <<val, hooks, tb, frames>>
registry == <<cbReg, cbs, kinds>>
flushing == <<depth, pendingFlush>>
vars == <<pc, cmd, ans, then, pump, machine, registry, flushing>>

(* new: ucs_new waits for the engine thread.  between: outside a call.  idle: *)
(* outside a method.  enter: at EnterCriticalSection.  locked, posted: inside, *)
(* before and after SetEvent(ready).  answered: done was received.  closed.    *)
Places == {"new", "idle", "between", "enter", "locked", "posted", "answered", "join", "closed"}
Thens == {"nothing", "added", "begin", "ended", "freed"}

Init ==
  /\ pc = [t \in Callers |-> IF t = Driver THEN "new" ELSE "idle"]
  /\ cmd = [t \in Callers |-> NoCommand] /\ ans = [t \in Callers |-> None]
  /\ then = "nothing"
  /\ lock = Nobody /\ cur = Nobody /\ ready = FALSE /\ done = FALSE /\ eng = "opening"
  /\ val \in Vals /\ hooks = {} /\ tb = [b \in Blocks |-> None] /\ frames = <<>>
  /\ cbReg = {} /\ cbs = {} /\ kinds = <<>> /\ depth = 0 /\ pendingFlush = FALSE

-----------------------------------------------------------------------------
(* ucs_run, on any thread but the engine's.                                  *)

Enter(t) ==
  /\ pc[t] = "enter" /\ lock = Nobody
  /\ lock' = t /\ cur' = t /\ pc' = [pc EXCEPT ![t] = "locked"]
  /\ UNCHANGED <<cmd, ans, then, ready, done, eng, machine, registry, flushing>>

Post(t) ==
  /\ pc[t] = "locked"
  /\ ready' = TRUE /\ pc' = [pc EXCEPT ![t] = "posted"]
  /\ UNCHANGED <<cmd, ans, then, lock, cur, done, eng, machine, registry, flushing>>

AnsweredManualReset(t) ==
  /\ pc[t] = "posted" /\ done
  /\ pc' = [pc EXCEPT ![t] = "answered"]
  /\ UNCHANGED <<cmd, ans, then, lock, cur, ready, done, eng, machine, registry, flushing>>

Answered(t) ==
  /\ pc[t] = "posted" /\ done
  /\ done' = FALSE /\ pc' = [pc EXCEPT ![t] = "answered"]
  /\ UNCHANGED <<cmd, ans, then, lock, cur, ready, eng, machine, registry, flushing>>

\* The command is a local of the call: with the call it is gone.
Leave(t) ==
  /\ pc[t] = "answered"
  /\ lock' = Nobody
  /\ IF t = Driver /\ then # "nothing"
     THEN pc' = [pc EXCEPT ![t] = "between"] /\ UNCHANGED <<cmd, ans>>
     ELSE /\ pc' = [pc EXCEPT ![t] = "idle"]
          /\ cmd' = [cmd EXCEPT ![t] = NoCommand] /\ ans' = [ans EXCEPT ![t] = None]
  /\ UNCHANGED <<then, cur, ready, done, eng, machine, registry, flushing>>

Issue(t, c, next) ==
  /\ cmd' = [cmd EXCEPT ![t] = c] /\ ans' = [ans EXCEPT ![t] = None]
  /\ pc' = [pc EXCEPT ![t] = "enter"]
  /\ then' = IF t = Driver THEN next ELSE then

(* The engine thread.                                                        *)

engineOpens ==
  /\ eng = "opening"
  /\ eng' \in {"waiting"} \cup IF MayFailOpen THEN {"ended"} ELSE {}
  /\ UNCHANGED <<pc, cmd, ans, then, lock, cur, ready, done, machine, registry, flushing>>

Take ==
  /\ eng = "waiting" /\ ready
  /\ ready' = FALSE /\ eng' = "serving"
  /\ UNCHANGED <<pc, cmd, ans, then, lock, cur, done, machine, registry, flushing>>

QuitSilently ==
  /\ eng = "serving" /\ cmd[cur].op = "quit"
  /\ eng' = "ended" /\ ans' = [ans EXCEPT ![cur] = OK]
  /\ UNCHANGED <<pc, cmd, then, lock, cur, ready, done, machine, registry, flushing>>

Quit ==
  /\ eng = "serving" /\ cmd[cur].op = "quit"
  /\ done' = TRUE /\ eng' = "ended"
  /\ ans' = [ans EXCEPT ![cur] = OK]
  /\ UNCHANGED <<pc, cmd, then, lock, cur, ready, machine, registry, flushing>>

(* unicorn.                                                                  *)

CodeHooks(hs) == {h \in hs : kinds[h] = "code"}
Innermost == frames[Len(frames)]

UcHookAdded(c, a) == CASE c.op = "hookadd" /\ a = OK -> hooks \cup {c.arg}
                       [] c.op = "hookdel" -> hooks \ {c.arg}
                       [] OTHER -> hooks
UcFlushed == [b \in Blocks |-> None]

\* Start runs on; any other command is answered at once.
Dispatch ==
  LET c == cmd[cur]
  IN /\ eng = "serving" /\ c.op \notin {"quit", "start"}
     /\ \E a \in IF c.op = "hookadd" THEN {OK, ERR} ELSE {OK} :
          /\ ans' = [ans EXCEPT ![cur] = IF c.op = "get" THEN val ELSE a]
          /\ hooks' = UcHookAdded(c, a)
     /\ val' = IF c.op = "put" THEN c.arg ELSE val
     /\ tb' = IF c.op = "flush" THEN UcFlushed ELSE tb
     /\ eng' = "waiting" /\ done' = TRUE
     /\ UNCHANGED <<pc, cmd, then, lock, cur, ready, frames, registry, flushing>>

Frame == [since |-> hooks, stopped |-> FALSE, inCallback |-> FALSE]

DispatchStart ==
  /\ eng = "serving" /\ cmd[cur].op = "start"
  /\ eng' = "running" /\ frames' = <<Frame>>
  /\ UNCHANGED <<pc, cmd, ans, then, lock, cur, ready, done, val, hooks, tb, registry, flushing>>

InGuest == eng = "running" /\ ~Innermost.inCallback
InCallback == eng = "running" /\ Innermost.inCallback
Inside == <<pc, cmd, ans, then, pump, registry, flushing>>

(* A block is translated when it is first reached, with the hooks there are   *)
(* then; it, or an event in it, may call one of them back.                    *)
Reached(b) == IF tb[b] = None THEN CodeHooks(hooks) ELSE tb[b]
lookupCB(b) == cbReg \cap hooks \cap (Reached(b) \cup {h \in hooks : kinds[h] # "code"})

RunBlock ==
  /\ InGuest /\ ~Innermost.stopped
  /\ \E b \in Blocks, v \in Vals :
       /\ tb' = [tb EXCEPT ![b] = Reached(b)] /\ val' = v
       /\ frames' \in {frames} \cup IF lookupCB(b) = {} THEN {}
                                    ELSE {[frames EXCEPT ![Len(frames)].inCallback = TRUE]}
  /\ UNCHANGED <<hooks, Inside>>

StartEnds ==
  /\ InGuest
  /\ frames' = SubSeq(frames, 1, Len(frames) - 1)
  /\ IF Len(frames) = 1
     THEN /\ \E a \in Answers : ans' = [ans EXCEPT ![cur] = a]
          /\ eng' = "waiting" /\ done' = TRUE /\ UNCHANGED depth
     ELSE depth' = depth - 1 /\ UNCHANGED <<ans, eng, done>>
  /\ UNCHANGED <<pc, cmd, then, lock, cur, ready, val, hooks, tb, registry, pendingFlush>>

-----------------------------------------------------------------------------
(* Callbacks: calls made on the engine's own thread.                         *)

registerCB(kind) == kinds' = Append(kinds, kind)
NextId == Len(kinds) + 1
Kinds == {"code", "intr"}   \* HookCode and HookMemRead/Write; HookInterrupt and HookMemInvalid

\* A hook whose calls are part of a translation asks for a flush.
hookAdded(kind) == kind = "code"

CallbackHooks ==
  /\ InCallback /\ NextId \in Ids
  /\ \E kind \in Kinds :
       /\ registerCB(kind)
       /\ \/ /\ cbReg' = cbReg \cup {NextId} /\ cbs' = cbs \cup {NextId}
             /\ hooks' = hooks \cup {NextId}
             /\ pendingFlush' = (pendingFlush \/ hookAdded(kind))
          \/ UNCHANGED <<cbReg, cbs, hooks, pendingFlush>>
  /\ UNCHANGED <<pc, cmd, ans, then, pump, val, tb, frames, depth>>

CallbackRemoves ==
  /\ InCallback
  /\ \E id \in cbs : cbReg' = cbReg \ {id} /\ hooks' = hooks \ {id}
  /\ UNCHANGED <<pc, cmd, ans, then, pump, val, tb, frames, cbs, kinds, flushing>>

CallbackPuts ==
  /\ InCallback /\ val' \in Vals
  /\ UNCHANGED <<hooks, tb, frames, Inside>>

CallbackStarts ==
  /\ InCallback /\ depth < MaxDepth
  /\ depth' = depth + 1 /\ frames' = Append(frames, Frame)
  /\ UNCHANGED <<pc, cmd, ans, then, pump, val, hooks, tb, registry, pendingFlush>>

CallbackStops ==
  /\ InCallback /\ frames' = [frames EXCEPT ![Len(frames)].stopped = TRUE]
  /\ UNCHANGED <<val, hooks, tb, Inside>>

\* It returns, or it panics: guardHook stops the engine.
CallbackEnds ==
  /\ InCallback
  /\ \E panic \in BOOLEAN :
       frames' = [frames EXCEPT ![Len(frames)] =
                    [Innermost EXCEPT !.inCallback = FALSE,
                                      !.stopped = Innermost.stopped \/ panic]]
  /\ UNCHANGED <<val, hooks, tb, Inside>>

-----------------------------------------------------------------------------
(* The backend's methods.                                                    *)

Open == pc[Driver] \notin {"new", "closed"} /\ then # "freed"
NoPump == UNCHANGED <<pump, machine>>

newUnicornBackend ==
  /\ pc[Driver] = "new" /\ eng # "opening"
  /\ IF eng = "ended" THEN Issue(Driver, Command("quit", 0), "freed")
     ELSE pc' = [pc EXCEPT ![Driver] = "idle"] /\ UNCHANGED <<cmd, ans, then>>
  /\ NoPump /\ UNCHANGED <<registry, flushing>>

Access(t) ==
  /\ pc[t] = "idle" /\ Open
  /\ \E c \in {Command("get", 0), Command("stop", 0)} \cup {Command("put", v) : v \in Vals} :
       Issue(t, c, "nothing")
  /\ NoPump /\ UNCHANGED <<registry, flushing>>

HookAdd ==
  /\ pc[Driver] = "idle" /\ NextId \in Ids
  /\ \E kind \in Kinds : registerCB(kind)
  /\ cbReg' = cbReg \cup {NextId}
  /\ Issue(Driver, Command("hookadd", NextId), "added")
  /\ NoPump /\ UNCHANGED <<cbs, flushing>>

Finished ==
  /\ pc' = [pc EXCEPT ![Driver] = "idle"] /\ then' = "nothing"
  /\ cmd' = [cmd EXCEPT ![Driver] = NoCommand] /\ ans' = [ans EXCEPT ![Driver] = None]

HookAddReturns ==
  /\ pc[Driver] = "between" /\ then = "added"
  /\ IF ans[Driver] = ERR
     THEN cbReg' = cbReg \ {cmd[Driver].arg} /\ Finished /\ UNCHANGED <<cbs, pendingFlush>>
     ELSE /\ cbs' = cbs \cup {cmd[Driver].arg} /\ UNCHANGED cbReg
          /\ IF hookAdded(kinds[cmd[Driver].arg]) /\ depth = 0
             THEN Issue(Driver, Command("flush", 0), "nothing") /\ UNCHANGED pendingFlush
             ELSE /\ Finished
                  /\ pendingFlush' = (pendingFlush \/ hookAdded(kinds[cmd[Driver].arg]))
  /\ NoPump /\ UNCHANGED <<kinds, depth>>

Remove ==
  /\ pc[Driver] = "idle"
  /\ \E id \in cbs : cbReg' = cbReg \ {id} /\ Issue(Driver, Command("hookdel", id), "nothing")
  /\ NoPump /\ UNCHANGED <<cbs, kinds, flushing>>

StartNestedFlush ==
  /\ pc[Driver] = "idle"
  /\ depth' = depth + 1
  /\ IF depth' > 1 /\ pendingFlush
     THEN pendingFlush' = FALSE /\ Issue(Driver, Command("flush", 0), "begin")
     ELSE UNCHANGED pendingFlush /\ Issue(Driver, Command("start", 0), "ended")
  /\ NoPump /\ UNCHANGED registry

Start ==
  /\ pc[Driver] = "idle"
  /\ depth' = depth + 1
  /\ IF depth' = 1 /\ pendingFlush
     THEN pendingFlush' = FALSE /\ Issue(Driver, Command("flush", 0), "begin")
     ELSE UNCHANGED pendingFlush /\ Issue(Driver, Command("start", 0), "ended")
  /\ NoPump /\ UNCHANGED registry

StartFlushed ==
  /\ pc[Driver] = "between" /\ then = "begin"
  /\ Issue(Driver, Command("start", 0), "ended")
  /\ NoPump /\ UNCHANGED <<registry, flushing>>

StartReturnsNoDefer ==
  /\ pc[Driver] = "between" /\ then = "ended"
  /\ UNCHANGED depth /\ Finished
  /\ NoPump /\ UNCHANGED <<registry, pendingFlush>>

StartReturns ==
  /\ pc[Driver] = "between" /\ then = "ended"
  /\ depth' = depth - 1 /\ Finished
  /\ NoPump /\ UNCHANGED <<registry, pendingFlush>>

CloseKeepsRegistry ==
  /\ \A t \in Callers : pc[t] = "idle"
  /\ Issue(Driver, Command("quit", 0), "freed")
  /\ NoPump /\ UNCHANGED <<registry, flushing>>

\* Nobody may be in a call, and nobody calls afterwards.
Close ==
  /\ \A t \in Callers : pc[t] = "idle"
  /\ cbReg' = cbReg \ cbs
  /\ Issue(Driver, Command("quit", 0), "freed")
  /\ NoPump /\ UNCHANGED <<cbs, kinds, flushing>>

Freed ==
  /\ pc[Driver] = "between" /\ then = "freed" /\ eng = "ended"
  /\ pc' = [pc EXCEPT ![Driver] = "closed"]
  /\ NoPump /\ UNCHANGED <<cmd, ans, then, registry, flushing>>

EngineThread == engineOpens \/ Take \/ Quit \/ Dispatch \/ DispatchStart
Callback ==
  \/ CallbackHooks \/ CallbackRemoves \/ CallbackPuts \/ CallbackStarts \/ CallbackStops
  \/ CallbackEnds
Pump(t) == Enter(t) \/ Post(t) \/ Answered(t) \/ Leave(t)
Method ==
  \/ newUnicornBackend \/ HookAdd \/ HookAddReturns \/ Remove \/ Start \/ StartFlushed
  \/ StartReturns \/ Close \/ Freed

Next ==
  \/ EngineThread \/ RunBlock \/ StartEnds \/ Callback \/ Method
  \/ \E t \in Callers : Pump(t) \/ Access(t)

Spec == Init /\ [][Next]_vars

(* Threads that are neither blocked nor in guest code go on; a critical       *)
(* section is granted in the end to who keeps asking.  GuestEnds assumes that *)
(* neither a Start nor a callback, at any depth, runs for ever.               *)
GuestEnds ==
  \A n \in 1 .. MaxDepth : /\ SF_vars(StartEnds /\ Len(frames) = n)
                          /\ SF_vars(CallbackEnds /\ Len(frames) = n)

LiveSpec ==
  /\ Spec /\ GuestEnds /\ WF_vars(EngineThread)
  /\ \A t \in Callers : SF_vars(Enter(t)) /\ WF_vars(Pump(t))
  /\ WF_vars(newUnicornBackend \/ HookAddReturns \/ StartFlushed \/ StartReturns \/ Freed)

-----------------------------------------------------------------------------
(* Properties.                                                               *)

Frames == [since : SUBSET Ids, stopped : BOOLEAN, inCallback : BOOLEAN]

(* Every variable has its type.                                               *)
TypeOK ==
  /\ pc \in [Callers -> Places] /\ cmd \in [Callers -> Commands] /\ then \in Thens
  /\ ans \in [Callers -> {None} \cup Answers \cup Vals]
  /\ lock \in Callers \cup {Nobody} /\ cur \in Callers \cup {Nobody}
  /\ ready \in BOOLEAN /\ done \in BOOLEAN
  /\ eng \in {"opening", "waiting", "serving", "running", "ended"}
  /\ val \in Vals /\ hooks \in SUBSET Ids
  /\ tb \in [Blocks -> (SUBSET Ids) \cup {None}] /\ frames \in Seq(Frames)
  /\ kinds \in Seq(Kinds) /\ Len(kinds) <= MaxHooks
  /\ cbReg \in SUBSET (1 .. Len(kinds)) /\ cbs \in SUBSET (1 .. Len(kinds))
  /\ depth \in 0 .. MaxDepth /\ pendingFlush \in BOOLEAN

(* "A hook added after a block was translated never fires there", so adding   *)
(* one flushes, at once or before the next top-level Start: whatever code a   *)
(* Start runs, old or new, it runs with every code hook that was there when   *)
(* the outermost Start began and has not been removed since.                  *)
HooksSeen ==
  frames # <<>> =>
    \A b \in Blocks : tb[b] # None => CodeHooks(frames[1].since \cap hooks) \subseteq tb[b]

(* The engine never calls back into a registration that is gone, and none     *)
(* outlives its backend: outside HookAdd and Remove the registry has exactly  *)
(* the hooks the engine has, and after Close nothing.                         *)
RegistryExact ==
  /\ pc[Driver] \in {"idle", "between"} /\ then \notin {"added", "freed"} => cbReg = hooks
  /\ pc[Driver] = "closed" => cbReg = {}

(* The refinement: the slot, the lock and the two events implement calls that *)
(* take effect one at a time, each with its own answer, while callbacks get   *)
(* through to the engine during a Start.                                      *)
Calls == INSTANCE EngineCalls WITH
  state <- val,
  running <- IF eng = "running" THEN cur ELSE Nobody,
  asked <- [t \in Callers |->
              IF pc[t] \in {"enter", "locked", "posted", "answered"} THEN cmd[t] ELSE None],
  answer <- [t \in Callers |->
              IF pc[t] \in {"enter", "locked", "posted", "answered"} THEN ans[t] ELSE None]
ImplementsCalls == Calls!Spec

(* Every call returns: no caller waits for an engine thread that waits for a  *)
(* command, or for a lock held by one who does.                               *)
CallsReturn == \A t \in Callers : pc[t] = "enter" ~> pc[t] \in {"idle", "between"}
=============================================================================
