---------------------------- MODULE EngineProofs -----------------------------
(***************************************************************************)
(* The unicorn engine's pump, registry and hook flush, for any number of    *)
(* callers, machine states, blocks, hooks and nested Starts.                *)
(*                                                                         *)
(* The invariant says who holds the slot and what the two events mean       *)
(* (Slot, Events), what the driver's command is for each thing its method   *)
(* goes on to do (Roles), how deep it is (Depths), which hooks the engine   *)
(* and the registry have in the middle of an add or a remove (Registered),  *)
(* and which translations may be older than a hook (Translated).            *)
(***************************************************************************)
EXTENDS UnicornEngine, SequenceTheorems, TLAPS

Held == {"locked", "posted", "answered"}
InCall == {"enter", "locked", "posted", "answered"}
Busy == {"serving", "running"}

(* The slot: a caller is inside the critical section exactly while it holds   *)
(* the lock, and cur is its command.                                          *)
Slot ==
  /\ \A t \in Callers : pc[t] \in Held <=> lock = t
  /\ lock # Nobody => cur = lock

(* The two events: ready is up between SetEvent and the engine taking the     *)
(* command, done between the engine answering and the caller seeing it; a     *)
(* command has an answer exactly from then on.                                *)
Events ==
  /\ ready => lock # Nobody /\ pc[lock] = "posted" /\ ~done /\ eng \notin Busy /\ ans[lock] = None
  /\ done => lock # Nobody /\ pc[lock] = "posted" /\ eng \notin Busy /\ ans[lock] # None
  /\ eng \in Busy => lock # Nobody /\ pc[lock] = "posted" /\ ans[lock] = None
  /\ \A t \in Callers : pc[t] \in {"enter", "locked"} => ans[t] = None
  /\ \A t \in Callers : pc[t] = "answered" => ans[t] # None

(* The command in flight says what the method of the driver does next.        *)
Roles ==
  /\ \A t \in Callers \ {Driver} : cmd[t].op \in {"get", "put", "stop"} /\ pc[t] \in InCall \cup {"idle"}
  /\ then = "nothing" => cmd[Driver].op \in {"get", "put", "stop", "flush", "hookdel"}
  /\ then = "added" => cmd[Driver].op = "hookadd" /\ cmd[Driver].arg = Len(kinds) /\ Len(kinds) # 0
  /\ then = "begin" => cmd[Driver].op = "flush"
  /\ then = "ended" => cmd[Driver].op = "start"
  /\ then = "freed" => cmd[Driver].op = "quit"
  /\ pc[Driver] = "between" => then # "nothing"
  /\ pc[Driver] \in {"new", "idle"} => then = "nothing" /\ cmd[Driver].op = "get"
  /\ pc[Driver] = "closed" => then = "freed"
  /\ pc[Driver] = "new" => cbs = {}
  /\ pc[Driver] = "between" => ans[Driver] # None

(* The engine runs guest code for one Start of the driver; depth counts it    *)
(* and the Starts its callbacks made.                                         *)
Depths ==
  /\ frames # <<>> <=> eng = "running"
  /\ eng = "running" => cmd[cur].op = "start"
  /\ depth = IF eng = "running" THEN Len(frames) ELSE IF then \in {"begin", "ended"} THEN 1 ELSE 0

Shape == Slot /\ Events /\ Roles /\ Depths

(* A hook_del, or a flush, that has not been answered.                        *)
Removing == cmd[Driver].op = "hookdel" /\ ans[Driver] = None

(* In the middle of a hook_add the registry is one hook ahead of the engine   *)
(* or will give it back; in the middle of a hook_del, one behind.             *)
Registered ==
  /\ hooks \subseteq 1 .. Len(kinds)
  /\ then \notin {"added", "freed"} /\ ~Removing => cbReg = hooks
  /\ Removing => cbReg = hooks \ {cmd[Driver].arg}
  /\ then = "added" => /\ cbReg = hooks \cup {cmd[Driver].arg}
                       /\ ans[Driver] \in {None, OK, ERR}
                       /\ ans[Driver] = OK <=> cmd[Driver].arg \in hooks
  /\ then = "freed" => cbReg = {}
  /\ cbReg \subseteq cbs \cup IF then = "added" THEN {cmd[Driver].arg} ELSE {}

Seen(hs) == \A b \in Blocks : tb[b] # None => CodeHooks(hs) \subseteq tb[b]
Adding == IF then = "added" THEN {cmd[Driver].arg} ELSE {}
FlushIssued == cmd[Driver].op = "flush" /\ ans[Driver] = None

(* Translations that miss a code hook of now are due for a flush, and none    *)
(* misses a code hook there was when the outermost Start began.               *)
Translated ==
  /\ frames # <<>> => Seen(frames[1].since \cap hooks)
  /\ frames # <<>> => frames[1].since \subseteq 1 .. Len(kinds)
  /\ pendingFlush \/ FlushIssued \/ Seen(hooks \ Adding)
  /\ then = "begin" \/ (then = "ended" /\ ans[Driver] = None /\ frames = <<>>) => ~pendingFlush

IInv == TypeOK /\ Shape /\ Registered /\ Translated

-----------------------------------------------------------------------------
(* Types: what the operators and the steps return.                           *)

(* The innermost of a non-empty stack of uc_emu_starts is a frame.            *)
LEMMA Stack ==
  ASSUME frames \in Seq(Frames), frames # <<>>
  PROVE  /\ Len(frames) \in Nat \ {0} /\ Innermost \in Frames
         /\ DOMAIN frames = 1 .. Len(frames) /\ frames[1] \in Frames
<1>1. Len(frames) \in Nat /\ DOMAIN frames = 1 .. Len(frames) /\ Len(frames) # 0
  BY EmptySeq, LenProperties
<1> QED
  BY <1>1, ElementOfSeq DEF Innermost

(* Changing the innermost frame keeps the stack, and the hooks the outermost  *)
(* began with.                                                                *)
LEMMA TopChanges ==
  ASSUME frames \in Seq(Frames), frames # <<>>, NEW f \in Frames,
         frames' = [frames EXCEPT ![Len(frames)] = f]
  PROVE  /\ frames' \in Seq(Frames) /\ Len(frames') = Len(frames) /\ frames' # <<>>
         /\ f.since = Innermost.since => frames'[1].since = frames[1].since
<1>1. Len(frames) \in DOMAIN frames /\ Len(frames) \in Nat \ {0} /\ DOMAIN frames = 1 .. Len(frames)
  BY Stack
<1>2. frames' \in Seq(Frames) /\ Len(frames') = Len(frames)
  BY <1>1, ExceptSeq
<1> QED
  BY <1>1, <1>2, EmptySeq DEF Innermost

LEMMA FrameTyped == TypeOK => Frame \in Frames
BY DEF TypeOK, Frame, Frames

(* A nested Start keeps the outermost frame.                                  *)
LEMMA Pushed ==
  ASSUME frames \in Seq(Frames), frames # <<>>, NEW f \in Frames, frames' = Append(frames, f)
  PROVE  /\ frames' \in Seq(Frames) /\ Len(frames') = Len(frames) + 1 /\ frames' # <<>>
         /\ frames'[1] = frames[1]
<1>1. Len(frames) \in Nat \ {0}
  BY Stack
<1> QED
  BY <1>1, AppendProperties

(* The end of a Start drops the innermost frame.                              *)
LEMMA Popped ==
  ASSUME frames \in Seq(Frames), frames # <<>>, frames' = SubSeq(frames, 1, Len(frames) - 1)
  PROVE  /\ frames' \in Seq(Frames) /\ Len(frames') = Len(frames) - 1
         /\ Len(frames) = 1 <=> frames' = <<>>
         /\ Len(frames) # 1 => frames'[1] = frames[1]
<1> DEFINE n == Len(frames) - 1
<1>1. Len(frames) \in Nat \ {0} /\ n \in Nat /\ \A i \in 1 .. n : frames[i] \in Frames
  BY Stack, ElementOfSeq
<1>2. /\ SubSeq(frames, 1, n) \in Seq(Frames)
      /\ Len(SubSeq(frames, 1, n)) = IF 1 <= n THEN n - 1 + 1 ELSE 0
      /\ \A i \in 1 .. n - 1 + 1 : SubSeq(frames, 1, n)[i] = frames[1 + i - 1]
  <2> HIDE DEF n
  <2> QED
    BY <1>1, SubSeqProperties
<1>3. frames' = SubSeq(frames, 1, n)
  OBVIOUS
<1>4. frames' \in Seq(Frames) /\ Len(frames') = n
  <2> HIDE DEF n
  <2> QED
    BY <1>1, <1>2, <1>3
<1>5. n # 0 => frames'[1] = frames[1]
  <2> HIDE DEF n
  <2>1. n # 0 => 1 \in 1 .. n - 1 + 1 /\ 1 + 1 - 1 = 1
    BY <1>1
  <2> QED
    BY <1>1, <1>2, <1>3, <2>1
<1>6. n = 0 <=> frames' = <<>>
  <2> HIDE DEF n
  <2> QED
    BY <1>4, EmptySeq
<1>7. Len(frames) = 1 <=> n = 0
  BY <1>1
<1> QED
  BY <1>4, <1>5, <1>6, <1>7

(* Registering a callback gives it the next number and keeps the kinds of the *)
(* others.                                                                    *)
LEMMA HooksKept ==
  ASSUME TypeOK, NEW k \in Kinds, registerCB(k), NextId \in Ids
  PROVE  /\ kinds' \in Seq(Kinds) /\ Len(kinds') = Len(kinds) + 1 /\ Len(kinds') <= MaxHooks
         /\ Len(kinds) \in Nat /\ NextId = Len(kinds')
         /\ \A i \in 1 .. Len(kinds) : kinds'[i] = kinds[i]
         /\ kinds'[NextId] = k
<1>1. kinds \in Seq(Kinds) /\ Len(kinds) \in Nat
  BY LenProperties DEF TypeOK
<1> QED
  BY <1>1, AppendProperties, EngineAssumption DEF registerCB, NextId, Ids

LEMMA CommandTyped ==
  /\ \A op \in {"get", "stop", "start", "flush", "quit"} : Command(op, 0) \in Commands
  /\ \A v \in Vals : Command("put", v) \in Commands
  /\ \A id \in Ids : Command("hookadd", id) \in Commands /\ Command("hookdel", id) \in Commands
BY DEF Commands

LEMMA IssueTyped ==
  ASSUME NEW t \in Callers, NEW c \in Commands, NEW next \in Thens, TypeOK, Issue(t, c, next)
  PROVE  /\ pc' \in [Callers -> Places] /\ cmd' \in [Callers -> Commands] /\ then' \in Thens
         /\ ans' \in [Callers -> {None} \cup Answers \cup Vals]
BY DEF Issue, TypeOK, Places

LEMMA FinishedTyped ==
  ASSUME TypeOK, Finished
  PROVE  /\ pc' \in [Callers -> Places] /\ cmd' \in [Callers -> Commands] /\ then' \in Thens
         /\ ans' \in [Callers -> {None} \cup Answers \cup Vals]
<1>1. NoCommand \in Commands
  BY CommandTyped DEF NoCommand
<1> QED
  BY <1>1 DEF Finished, TypeOK, Places, Thens

LEMMA TypeInit == Init => TypeOK
<1> SUFFICES ASSUME Init PROVE TypeOK
  OBVIOUS
<1>1. NoCommand \in Commands
  BY CommandTyped DEF NoCommand
<1>2. frames \in Seq(Frames) /\ kinds \in Seq(Kinds) /\ Len(kinds) = 0
  BY EmptySeq DEF Init
<1>3. /\ pc \in [Callers -> Places] /\ then \in Thens /\ depth \in 0 .. MaxDepth
      /\ tb \in [Blocks -> (SUBSET Ids) \cup {None}] /\ ans \in [Callers -> {None} \cup Answers \cup Vals]
  BY EngineAssumption DEF Init, Places, Thens
<1>4. Len(kinds) <= MaxHooks /\ cbReg \in SUBSET (1 .. Len(kinds)) /\ cbs \in SUBSET (1 .. Len(kinds))
  BY <1>2, EngineAssumption DEF Init
<1>5. cmd \in [Callers -> Commands]
  BY <1>1 DEF Init
<1> QED
  BY <1>2, <1>3, <1>4, <1>5 DEF Init, TypeOK

LEMMA TypePump ==
  ASSUME TypeOK, NEW t \in Callers, Pump(t)
  PROVE  TypeOK'
<1>1. CASE Enter(t)
  BY <1>1 DEF Enter, TypeOK, Places, machine, registry, flushing
<1>2. CASE Post(t)
  BY <1>2 DEF Post, TypeOK, Places, machine, registry, flushing
<1>3. CASE Answered(t)
  BY <1>3 DEF Answered, TypeOK, Places, machine, registry, flushing
<1>4. CASE Leave(t)
  <2>1. NoCommand \in Commands
    BY CommandTyped DEF NoCommand
  <2> QED
    BY <1>4, <2>1 DEF Leave, TypeOK, Places, machine, registry, flushing
<1> QED
  BY <1>1, <1>2, <1>3, <1>4 DEF Pump

LEMMA TypeEngine ==
  ASSUME TypeOK, Shape, EngineThread
  PROVE  TypeOK'
<1>1. CASE engineOpens
  BY <1>1 DEF engineOpens, TypeOK, machine, registry, flushing
<1>2. CASE Take
  BY <1>2 DEF Take, TypeOK, machine, registry, flushing
<1>3. CASE Quit
  BY <1>3 DEF Quit, TypeOK, machine, registry, flushing, Answers
<1>4. CASE Dispatch
  <2> DEFINE c == cmd[cur]
  <2>1. cur \in Callers /\ c \in Commands
    BY <1>4 DEF Dispatch, TypeOK, Shape, Slot, Events, Busy
  <2>2. /\ c.op = "put" => c.arg \in Vals
        /\ c.op \in {"hookadd", "hookdel"} => c.arg \in Ids
    BY <2>1 DEF Commands, Command
  <2>3. PICK a \in Answers :
          /\ ans' = [ans EXCEPT ![cur] = IF c.op = "get" THEN val ELSE a]
          /\ hooks' = UcHookAdded(c, a)
    BY <1>4 DEF Dispatch, Answers
  <2>4. hooks' \in SUBSET Ids
    <3> HIDE DEF c
    <3> QED
      BY <2>2, <2>3 DEF UcHookAdded, TypeOK
  <2>5. val' \in Vals
    BY <1>4, <2>2 DEF Dispatch, TypeOK
  <2>6. tb' \in [Blocks -> (SUBSET Ids) \cup {None}]
    BY <1>4 DEF Dispatch, UcFlushed, TypeOK
  <2>7. ans' \in [Callers -> {None} \cup Answers \cup Vals]
    BY <2>3 DEF TypeOK
  <2> QED
    BY <1>4, <2>4, <2>5, <2>6, <2>7 DEF Dispatch, TypeOK, registry, flushing
<1>5. CASE DispatchStart
  <2>1. <<Frame>> \in Seq(Frames)
    BY FrameTyped
  <2> QED
    BY <1>5, <2>1 DEF DispatchStart, TypeOK, registry, flushing
<1> QED
  BY <1>1, <1>2, <1>3, <1>4, <1>5 DEF EngineThread

LEMMA TypeGuest ==
  ASSUME TypeOK, Shape, RunBlock \/ StartEnds \/ Callback
  PROVE  TypeOK'
<1> USE DEF Inside, pump, registry, flushing
<1>1. frames \in Seq(Frames) /\ (InGuest \/ InCallback => frames # <<>>)
  BY DEF TypeOK, Shape, Depths, InGuest, InCallback
<1>2. CASE RunBlock
  <2>1. frames # <<>> /\ Innermost \in Frames
    BY <1>1, <1>2, Stack DEF RunBlock
  <2>2. [Innermost EXCEPT !.inCallback = TRUE] \in Frames
    BY <2>1 DEF Frames
  <2>3. frames' \in Seq(Frames)
    <3>1. CASE frames' = frames
      BY <1>1, <3>1
    <3>2. CASE frames' = [frames EXCEPT ![Len(frames)].inCallback = TRUE]
      <4>1. frames' = [frames EXCEPT ![Len(frames)] = [Innermost EXCEPT !.inCallback = TRUE]]
        BY <3>2 DEF Innermost
      <4> QED
        BY <1>1, <2>1, <2>2, <4>1, TopChanges
    <3> QED
      BY <1>2, <3>1, <3>2 DEF RunBlock
  <2>4. tb' \in [Blocks -> (SUBSET Ids) \cup {None}]
    BY <1>2 DEF RunBlock, TypeOK, Reached, CodeHooks
  <2> QED
    BY <1>2, <2>3, <2>4 DEF RunBlock, TypeOK
<1>3. CASE StartEnds
  <2>1. frames' \in Seq(Frames) /\ Len(frames) \in Nat \ {0}
    BY <1>1, <1>3, Popped, Stack DEF StartEnds
  <2>2. ans' \in [Callers -> {None} \cup Answers \cup Vals]
    BY <1>3 DEF StartEnds, TypeOK
  <2>3. depth' \in 0 .. MaxDepth
    BY <1>3, <2>1, EngineAssumption DEF StartEnds, TypeOK, Shape, Depths, InGuest
  <2> QED
    BY <1>3, <2>1, <2>2, <2>3 DEF StartEnds, TypeOK
<1>4. CASE CallbackHooks
  <2>1. PICK k \in Kinds : registerCB(k) /\
          \/ /\ cbReg' = cbReg \cup {NextId} /\ cbs' = cbs \cup {NextId}
             /\ hooks' = hooks \cup {NextId}
             /\ pendingFlush' = (pendingFlush \/ hookAdded(k))
          \/ UNCHANGED <<cbReg, cbs, hooks, pendingFlush>>
    BY <1>4 DEF CallbackHooks
  <2>2. kinds' \in Seq(Kinds) /\ Len(kinds') = Len(kinds) + 1 /\ Len(kinds') <= MaxHooks
        /\ Len(kinds) \in Nat /\ NextId \in Ids /\ NextId = Len(kinds')
    BY <1>4, <2>1, HooksKept DEF CallbackHooks
  <2>3. 1 .. Len(kinds) \subseteq 1 .. Len(kinds') /\ NextId \in 1 .. Len(kinds')
    BY <2>2
  <2>4. pendingFlush' \in BOOLEAN
    BY <2>1 DEF TypeOK, hookAdded
  <2>5. cbReg' \in SUBSET (1 .. Len(kinds')) /\ cbs' \in SUBSET (1 .. Len(kinds'))
        /\ hooks' \in SUBSET Ids
    BY <2>1, <2>2, <2>3 DEF TypeOK
  <2> QED
    BY <1>4, <2>2, <2>4, <2>5 DEF CallbackHooks, TypeOK
<1>5. CASE CallbackRemoves
  BY <1>5 DEF CallbackRemoves, TypeOK
<1>6. CASE CallbackPuts
  BY <1>6 DEF CallbackPuts, TypeOK
<1>7. CASE CallbackStarts
  <2>1. frames' \in Seq(Frames)
    BY <1>1, <1>7, FrameTyped, Pushed DEF CallbackStarts
  <2> QED
    BY <1>7, <2>1, EngineAssumption DEF CallbackStarts, TypeOK
<1>8. CASE CallbackStops
  <2>1. Innermost \in Frames
    BY <1>1, <1>8, Stack DEF CallbackStops
  <2>2. [Innermost EXCEPT !.stopped = TRUE] \in Frames
    BY <2>1 DEF Frames
  <2>3. frames' = [frames EXCEPT ![Len(frames)] = [Innermost EXCEPT !.stopped = TRUE]]
    BY <1>8 DEF CallbackStops, Innermost
  <2>4. frames' \in Seq(Frames)
    BY <1>1, <1>8, <2>2, <2>3, TopChanges DEF CallbackStops
  <2> QED
    BY <1>8, <2>4 DEF CallbackStops, TypeOK
<1>9. CASE CallbackEnds
  <2>1. Innermost \in Frames
    BY <1>1, <1>9, Stack DEF CallbackEnds
  <2> DEFINE f(p) == [Innermost EXCEPT !.inCallback = FALSE, !.stopped = Innermost.stopped \/ p]
  <2>2. PICK p \in BOOLEAN : frames' = [frames EXCEPT ![Len(frames)] = f(p)]
    BY <1>9, Zenon DEF CallbackEnds
  <2>3. f(p) \in Frames
    BY <2>1 DEF Frames
  <2>5. frames' \in Seq(Frames)
    <3> HIDE DEF f
    <3> QED
      BY <1>1, <1>9, <2>2, <2>3, TopChanges DEF CallbackEnds
  <2> QED
    BY <1>9, <2>5 DEF CallbackEnds, TypeOK
<1> QED
  BY <1>2, <1>3, <1>4, <1>5, <1>6, <1>7, <1>8, <1>9 DEF Callback

(* The only command that runs guest code is the one of the driver's Start.    *)
LEMMA StartsForDriver ==
  ASSUME TypeOK, Shape, eng \in Busy, cmd[cur].op = "start"
  PROVE  cur = Driver /\ lock = Driver /\ pc[Driver] = "posted" /\ then = "ended"
<1>1. cur = lock /\ pc[lock] = "posted" /\ lock \in Callers
  BY DEF Shape, Slot, Events, Busy, TypeOK
<1>2. cur = Driver
  BY <1>1 DEF Shape, Roles
<1>3. then \in Thens /\ cmd[Driver].op = "start"
  BY <1>1, <1>2 DEF TypeOK
<1>4. then = "ended"
  BY <1>3 DEF Shape, Roles, Thens
<1> QED
  BY <1>1, <1>2, <1>4

LEMMA RunsForDriver ==
  ASSUME TypeOK, Shape, eng = "running"
  PROVE  cur = Driver /\ lock = Driver /\ pc[Driver] = "posted" /\ then = "ended"
BY StartsForDriver DEF Shape, Depths, Busy

LEMMA TypeMethod ==
  ASSUME TypeOK, Shape, Method \/ (\E t \in Callers : Access(t))
  PROVE  TypeOK'
<1> USE DEF NoPump, pump, machine, registry, flushing
<1>1. Driver \in Callers /\ "nothing" \in Thens /\ "added" \in Thens /\ "begin" \in Thens
      /\ "ended" \in Thens /\ "freed" \in Thens
  BY EngineAssumption DEF Thens
<1>2. CASE newUnicornBackend
  <2>1. CASE Issue(Driver, Command("quit", 0), "freed")
    BY <1>1, <1>2, <2>1, CommandTyped, IssueTyped DEF newUnicornBackend, TypeOK
  <2>2. CASE pc' = [pc EXCEPT ![Driver] = "idle"] /\ UNCHANGED <<cmd, ans, then>>
    BY <1>2, <2>2 DEF newUnicornBackend, TypeOK, Places
  <2> QED
    BY <1>2, <2>1, <2>2 DEF newUnicornBackend
<1>3. CASE HookAdd
  <2>1. PICK k \in Kinds : registerCB(k)
    BY <1>3 DEF HookAdd
  <2>2. kinds' \in Seq(Kinds) /\ Len(kinds') = Len(kinds) + 1 /\ Len(kinds') <= MaxHooks
        /\ Len(kinds) \in Nat /\ NextId \in Ids /\ NextId = Len(kinds')
    BY <1>3, <2>1, HooksKept DEF HookAdd
  <2>3. 1 .. Len(kinds) \subseteq 1 .. Len(kinds') /\ NextId \in 1 .. Len(kinds')
    BY <2>2
  <2>4. cbReg' \in SUBSET (1 .. Len(kinds')) /\ cbs' \in SUBSET (1 .. Len(kinds'))
    BY <1>3, <2>2, <2>3 DEF HookAdd, TypeOK
  <2>5. /\ pc' \in [Callers -> Places] /\ cmd' \in [Callers -> Commands] /\ then' \in Thens
        /\ ans' \in [Callers -> {None} \cup Answers \cup Vals]
    BY <1>1, <1>3, <2>2, CommandTyped, IssueTyped DEF HookAdd
  <2> QED
    BY <1>3, <2>2, <2>4, <2>5 DEF HookAdd, TypeOK
<1>4. CASE HookAddReturns
  <2>1. cmd[Driver].op = "hookadd" /\ cmd[Driver].arg \in 1 .. Len(kinds)
    BY <1>4, LenProperties DEF HookAddReturns, Shape, Roles, TypeOK
  <2>2. /\ pc' \in [Callers -> Places] /\ cmd' \in [Callers -> Commands] /\ then' \in Thens
        /\ ans' \in [Callers -> {None} \cup Answers \cup Vals]
    BY <1>1, <1>4, FinishedTyped, CommandTyped, IssueTyped DEF HookAddReturns
  <2>3. /\ cbReg' \in SUBSET (1 .. Len(kinds')) /\ cbs' \in SUBSET (1 .. Len(kinds'))
    BY <1>4, <2>1 DEF HookAddReturns, TypeOK
  <2>4. pendingFlush' \in BOOLEAN
    BY <1>4 DEF HookAddReturns, TypeOK, hookAdded
  <2> QED
    BY <1>4, <2>2, <2>3, <2>4 DEF HookAddReturns, TypeOK
<1>5. CASE Remove
  <2>1. PICK id \in cbs : cbReg' = cbReg \ {id} /\ Issue(Driver, Command("hookdel", id), "nothing")
    BY <1>5 DEF Remove
  <2>2. id \in Ids
    BY EngineAssumption, LenProperties DEF TypeOK, Ids
  <2> QED
    BY <1>1, <1>5, <2>1, <2>2, CommandTyped, IssueTyped DEF Remove, TypeOK
<1>6. CASE Start
  <2>1. eng # "running" /\ then = "nothing"
    BY <1>6, RunsForDriver DEF Start, Shape, Roles
  <2>2. depth = 0 /\ depth' = 1
    BY <1>6, <2>1 DEF Start, Shape, Depths
  <2>4. depth' \in 0 .. MaxDepth
    BY <2>2, EngineAssumption
  <2>5. pendingFlush' \in BOOLEAN
    BY <1>6 DEF Start, TypeOK
  <2>3. /\ pc' \in [Callers -> Places] /\ cmd' \in [Callers -> Commands] /\ then' \in Thens
        /\ ans' \in [Callers -> {None} \cup Answers \cup Vals]
    BY <1>1, <1>6, CommandTyped, IssueTyped DEF Start
  <2> QED
    BY <1>6, <2>3, <2>4, <2>5 DEF Start, TypeOK
<1>7. CASE StartFlushed
  BY <1>1, <1>7, CommandTyped, IssueTyped DEF StartFlushed, TypeOK
<1>8. CASE StartReturns
  <2>1. depth = 1
    BY <1>8, RunsForDriver DEF StartReturns, Shape, Depths
  <2>2. depth' \in 0 .. MaxDepth
    BY <1>8, <2>1, EngineAssumption DEF StartReturns
  <2> QED
    BY <1>8, <2>2, FinishedTyped DEF StartReturns, TypeOK
<1>9. CASE Close
  <2>1. /\ pc' \in [Callers -> Places] /\ cmd' \in [Callers -> Commands] /\ then' \in Thens
        /\ ans' \in [Callers -> {None} \cup Answers \cup Vals]
    BY <1>1, <1>9, CommandTyped, IssueTyped DEF Close
  <2> QED
    BY <1>9, <2>1 DEF Close, TypeOK
<1>10. CASE Freed
  BY <1>10 DEF Freed, TypeOK, Places
<1>11. ASSUME NEW t \in Callers, Access(t) PROVE TypeOK'
  <2>1. PICK c \in {Command("get", 0), Command("stop", 0)} \cup {Command("put", v) : v \in Vals} :
          Issue(t, c, "nothing")
    BY <1>11 DEF Access
  <2> QED
    BY <1>1, <1>11, <2>1, CommandTyped, IssueTyped DEF Access, TypeOK
<1> QED
  BY <1>2, <1>3, <1>4, <1>5, <1>6, <1>7, <1>8, <1>9, <1>10, <1>11 DEF Method

-----------------------------------------------------------------------------
(* The slot, the events, the driver's roles and the depth.                   *)

LEMMA ShapeInit == Init => Shape
<1> SUFFICES ASSUME Init PROVE Shape
  OBVIOUS
<1>1. Slot
  BY EngineAssumption DEF Init, Slot, Held
<1>2. Events
  BY EngineAssumption DEF Init, Events, Held, Busy
<1>3. Roles
  BY EngineAssumption DEF Init, Roles, InCall, Held, NoCommand, Command
<1>4. Depths
  BY DEF Init, Depths
<1> QED
  BY <1>1, <1>2, <1>3, <1>4 DEF Shape

LEMMA ShapePump ==
  ASSUME TypeOK, Shape, NEW t \in Callers, Pump(t)
  PROVE  Shape'
<1> USE EngineAssumption DEF TypeOK, Shape, Slot, Events, Roles, Depths, InCall, Held, Busy, machine, registry, flushing
<1>1. CASE Enter(t)
  <2>1. Slot'
    BY <1>1 DEF Enter, Slot
  <2>2. Events'
    BY <1>1 DEF Enter, Events
  <2>3. Roles'
    BY <1>1 DEF Enter, Roles
  <2>4. Depths'
    BY <1>1 DEF Enter, Depths
  <2> QED
    BY <2>1, <2>2, <2>3, <2>4 DEF Shape
<1>2. CASE Post(t)
  <2>1. Slot'
    BY <1>2 DEF Post, Slot
  <2>2. Events'
    BY <1>2 DEF Post, Events
  <2>3. Roles'
    BY <1>2 DEF Post, Roles
  <2>4. Depths'
    BY <1>2 DEF Post, Depths
  <2> QED
    BY <2>1, <2>2, <2>3, <2>4 DEF Shape
<1>3. CASE Answered(t)
  <2>1. Slot'
    BY <1>3 DEF Answered, Slot
  <2>2. Events'
    BY <1>3 DEF Answered, Events
  <2>3. Roles'
    BY <1>3 DEF Answered, Roles
  <2>4. Depths'
    BY <1>3 DEF Answered, Depths
  <2> QED
    BY <2>1, <2>2, <2>3, <2>4 DEF Shape
<1>4. CASE Leave(t)
  <2>1. Slot'
    BY <1>4 DEF Leave, NoCommand, Command, Slot
  <2>2. Events'
    BY <1>4 DEF Leave, NoCommand, Command, Events
  <2>3. Roles'
    BY <1>4 DEF Leave, NoCommand, Command, Roles
  <2>4. Depths'
    BY <1>4 DEF Leave, NoCommand, Command, Depths
  <2> QED
    BY <2>1, <2>2, <2>3, <2>4 DEF Shape
<1> QED
  BY <1>1, <1>2, <1>3, <1>4 DEF Pump

LEMMA ShapeEngine ==
  ASSUME TypeOK, Shape, EngineThread
  PROVE  Shape'
<1> USE EngineAssumption DEF TypeOK, Shape, Slot, Events, Roles, Depths, InCall, Held, Busy, machine, registry, flushing
<1>1. CASE engineOpens
  <2>1. Slot'
    BY <1>1 DEF engineOpens, Slot
  <2>2. Events'
    BY <1>1 DEF engineOpens, Events
  <2>3. Roles'
    BY <1>1 DEF engineOpens, Roles
  <2>4. Depths'
    BY <1>1 DEF engineOpens, Depths
  <2> QED
    BY <2>1, <2>2, <2>3, <2>4 DEF Shape
<1>2. CASE Take
  <2>1. Slot'
    BY <1>2 DEF Take, Slot
  <2>2. Events'
    BY <1>2 DEF Take, Events
  <2>3. Roles'
    BY <1>2 DEF Take, Roles
  <2>4. Depths'
    BY <1>2 DEF Take, Depths
  <2> QED
    BY <2>1, <2>2, <2>3, <2>4 DEF Shape
<1>3. CASE Quit
  <2>1. Slot'
    BY <1>3, NoneAssumption DEF Quit, Answers, Slot
  <2>2. Events'
    BY <1>3, NoneAssumption DEF Quit, Answers, Events
  <2>3. Roles'
    BY <1>3, NoneAssumption DEF Quit, Answers, Roles
  <2>4. Depths'
    BY <1>3, NoneAssumption DEF Quit, Answers, Depths
  <2> QED
    BY <2>1, <2>2, <2>3, <2>4 DEF Shape
<1>4. CASE Dispatch
  <2>1. Slot'
    BY <1>4, NoneAssumption DEF Dispatch, Answers, Slot
  <2>2. Events'
    BY <1>4, NoneAssumption DEF Dispatch, Answers, Events
  <2>3. Roles'
    BY <1>4, NoneAssumption DEF Dispatch, Answers, Roles
  <2>4. Depths'
    BY <1>4, NoneAssumption DEF Dispatch, Answers, Depths
  <2> QED
    BY <2>1, <2>2, <2>3, <2>4 DEF Shape
<1>5. CASE DispatchStart
  <2>1. Slot'
    BY <1>5 DEF DispatchStart, Slot
  <2>2. Events'
    BY <1>5 DEF DispatchStart, Events
  <2>3. Roles'
    BY <1>5 DEF DispatchStart, Roles
  <2>4. Depths'
    <3>1. then = "ended"
      BY <1>5, StartsForDriver DEF DispatchStart
    <3>2. frames' = <<Frame>> /\ Len(frames') = 1 /\ frames' # <<>> /\ depth' = 1 /\ eng' = "running" /\ cmd' = cmd /\ cur' = cur
      BY <1>5, <3>1 DEF DispatchStart
    <3> QED
      BY <1>5, <3>2 DEF DispatchStart
  <2> QED
    BY <2>1, <2>2, <2>3, <2>4 DEF Shape
<1> QED
  BY <1>1, <1>2, <1>3, <1>4, <1>5 DEF EngineThread

LEMMA ShapeGuest ==
  ASSUME TypeOK, Shape, RunBlock \/ StartEnds \/ Callback
  PROVE  Shape'
<1> USE DEF Inside, pump, registry, flushing
<1>1. eng = "running" /\ frames # <<>> /\ frames \in Seq(Frames) /\ Innermost \in Frames
      /\ Len(frames) \in Nat \ {0}
  <2>1. eng = "running" /\ frames # <<>> /\ frames \in Seq(Frames)
    BY DEF RunBlock, StartEnds, Callback, CallbackHooks, CallbackRemoves, CallbackPuts, CallbackStarts, CallbackStops, CallbackEnds,
           InGuest, InCallback, TypeOK, Shape, Depths
  <2> QED
    BY <2>1, Stack
<1>2. cur = Driver /\ lock = Driver /\ pc[Driver] = "posted" /\ then = "ended"
  BY <1>1, RunsForDriver
<1>3. ASSUME frames' # <<>>, Len(frames') = Len(frames), UNCHANGED <<pc, cmd, ans, then, pump, depth>>,
             Len(kinds) <= Len(kinds'), kinds' # kinds => then # "added"
      PROVE  Shape'
  BY <1>1, <1>2, <1>3 DEF Shape, Slot, Events, Roles, Depths, InCall, Held, Busy
<1>4. CASE RunBlock
  <2>1. frames' = frames \/ frames' = [frames EXCEPT ![Len(frames)] = [Innermost EXCEPT !.inCallback = TRUE]]
    BY <1>4 DEF RunBlock, Innermost
  <2>2. [Innermost EXCEPT !.inCallback = TRUE] \in Frames
    BY <1>1 DEF Frames
  <2>3. frames' # <<>> /\ Len(frames') = Len(frames)
    BY <1>1, <2>1, <2>2, TopChanges
  <2> QED
    BY <1>1, <1>3, <1>4, <2>3 DEF RunBlock
<1>5. CASE StartEnds
  <2>1. Len(frames') = Len(frames) - 1 /\ (Len(frames) = 1 <=> frames' = <<>>)
    BY <1>1, <1>5, Popped DEF StartEnds
  <2>2. CASE Len(frames) = 1
    <3>1. PICK a \in Answers : ans' = [ans EXCEPT ![Driver] = a]
      BY <1>2, <1>5, <2>2 DEF StartEnds
    <3>2. ans'[Driver] # None /\ \A t \in Callers \ {Driver} : ans'[t] = ans[t]
      BY <3>1, NoneAssumption, EngineAssumption DEF TypeOK
    <3>3. eng' = "waiting" /\ done' /\ UNCHANGED <<pc, cmd, then, lock, cur, ready, depth, kinds>> /\ frames' = <<>> /\ depth = 1
      BY <1>1, <1>5, <2>1, <2>2 DEF StartEnds, Shape, Depths
    <3>4. Slot' /\ Roles'
      BY <1>2, <3>2, <3>3, EngineAssumption DEF Shape, Slot, Roles, InCall, Held
    <3>5. Events'
      BY <1>1, <1>2, <3>2, <3>3, EngineAssumption DEF Shape, Slot, Events, Held, Busy
    <3>6. Depths'
      BY <1>2, <3>3 DEF Depths
    <3> QED
      BY <3>4, <3>5, <3>6 DEF Shape
  <2>3. CASE Len(frames) # 1
    <3>1. frames' # <<>> /\ depth' = depth - 1 /\ UNCHANGED <<pc, cmd, ans, then, pump, kinds>>
      BY <1>5, <2>1, <2>3 DEF StartEnds
    <3> QED
      BY <1>1, <1>2, <2>1, <3>1 DEF Shape, Slot, Events, Roles, Depths, InCall, Held, Busy
  <2> QED
    BY <2>2, <2>3
<1>6. CASE CallbackHooks
  <2>1. PICK k \in Kinds : registerCB(k)
    BY <1>6 DEF CallbackHooks
  <2>2. Len(kinds) <= Len(kinds')
    BY <1>6, <2>1, HooksKept DEF CallbackHooks
  <2> QED
    BY <1>1, <1>2, <1>3, <1>6, <2>2 DEF CallbackHooks
<1>7. CASE CallbackRemoves
  BY <1>1, <1>3, <1>7, LenProperties DEF CallbackRemoves, TypeOK
<1>8. CASE CallbackPuts
  BY <1>1, <1>3, <1>8, LenProperties DEF CallbackPuts, TypeOK
<1>9. CASE CallbackStarts
  <2>1. Len(frames') = Len(frames) + 1 /\ frames' # <<>>
    BY <1>1, <1>9, FrameTyped, Pushed DEF CallbackStarts
  <2> QED
    BY <1>1, <1>9, <2>1 DEF CallbackStarts, Shape, Slot, Events, Roles, Depths, InCall, Held, Busy
<1>10. CASE CallbackStops
  <2>1. [Innermost EXCEPT !.stopped = TRUE] \in Frames
    BY <1>1 DEF Frames
  <2>2. frames' = [frames EXCEPT ![Len(frames)] = [Innermost EXCEPT !.stopped = TRUE]]
    BY <1>10 DEF CallbackStops, Innermost
  <2>3. frames' # <<>> /\ Len(frames') = Len(frames)
    BY <1>1, <2>1, <2>2, TopChanges
  <2> QED
    BY <1>1, <1>3, <1>10, <2>3, LenProperties DEF CallbackStops, TypeOK
<1>11. CASE CallbackEnds
  <2> DEFINE f(p) == [Innermost EXCEPT !.inCallback = FALSE, !.stopped = Innermost.stopped \/ p]
  <2>1. PICK p \in BOOLEAN : frames' = [frames EXCEPT ![Len(frames)] = f(p)]
    BY <1>11, Zenon DEF CallbackEnds
  <2>2. f(p) \in Frames
    BY <1>1 DEF Frames
  <2>3. frames' # <<>> /\ Len(frames') = Len(frames)
    <3> HIDE DEF f
    <3> QED
      BY <1>1, <2>1, <2>2, TopChanges
  <2> QED
    BY <1>1, <1>3, <1>11, <2>3, LenProperties DEF CallbackEnds, TypeOK
<1> QED
  BY <1>4, <1>5, <1>6, <1>7, <1>8, <1>9, <1>10, <1>11 DEF Callback

LEMMA ShapeMethod ==
  ASSUME TypeOK, Shape, Method \/ (\E t \in Callers : Access(t))
  PROVE  Shape'
<1> USE EngineAssumption DEF TypeOK, Shape, Slot, Events, Roles, Depths, InCall, Held, Busy, NoPump, pump, machine,
        registry, flushing, Issue, Command
<1>0. pc[Driver] # "posted" => eng # "running"
  BY RunsForDriver
<1>1. CASE newUnicornBackend
  <2>1. Slot'
    BY <1>1, <1>0 DEF newUnicornBackend, Slot
  <2>2. Events'
    BY <1>1, <1>0 DEF newUnicornBackend, Events
  <2>3. Roles'
    BY <1>1, <1>0 DEF newUnicornBackend, Roles
  <2>4. Depths'
    BY <1>1, <1>0 DEF newUnicornBackend, Depths
  <2> QED
    BY <2>1, <2>2, <2>3, <2>4 DEF Shape
<1>2. CASE HookAdd
  <2> HIDE DEF Command
  <2>5. PICK k \in Kinds : registerCB(k)
    BY <1>2 DEF HookAdd
  <2>6. Len(kinds') = Len(kinds) + 1 /\ Len(kinds) \in Nat /\ NextId = Len(kinds')
    BY <1>2, <2>5, HooksKept DEF HookAdd
  <2> USE DEF Command
  <2>1. Slot'
    BY <1>2, <2>6, <1>0 DEF HookAdd, Slot
  <2>2. Events'
    BY <1>2, <2>6, <1>0 DEF HookAdd, Events
  <2>3. Roles'
    BY <1>2, <2>6, <1>0 DEF HookAdd, Roles
  <2>4. Depths'
    BY <1>2, <2>6, <1>0 DEF HookAdd, Depths
  <2> QED
    BY <2>1, <2>2, <2>3, <2>4 DEF Shape
<1>3. CASE HookAddReturns
  <2>1. Slot'
    BY <1>3, <1>0 DEF HookAddReturns, Finished, NoCommand, Slot
  <2>2. Events'
    BY <1>3, <1>0 DEF HookAddReturns, Finished, NoCommand, Events
  <2>3. Roles'
    BY <1>3, <1>0 DEF HookAddReturns, Finished, NoCommand, Roles
  <2>4. Depths'
    BY <1>3, <1>0 DEF HookAddReturns, Finished, NoCommand, Depths
  <2> QED
    BY <2>1, <2>2, <2>3, <2>4 DEF Shape
<1>4. CASE Remove
  <2>1. Slot'
    BY <1>4, <1>0 DEF Remove, Slot
  <2>2. Events'
    BY <1>4, <1>0 DEF Remove, Events
  <2>3. Roles'
    BY <1>4, <1>0 DEF Remove, Roles
  <2>4. Depths'
    BY <1>4, <1>0 DEF Remove, Depths
  <2> QED
    BY <2>1, <2>2, <2>3, <2>4 DEF Shape
<1>5. CASE Start
  <2>1. Slot'
    BY <1>5, <1>0 DEF Start, Slot
  <2>2. Events'
    BY <1>5, <1>0 DEF Start, Events
  <2>3. Roles'
    BY <1>5, <1>0 DEF Start, Roles
  <2>4. Depths'
    BY <1>5, <1>0 DEF Start, Depths
  <2> QED
    BY <2>1, <2>2, <2>3, <2>4 DEF Shape
<1>6. CASE StartFlushed
  <2>1. Slot'
    BY <1>6, <1>0 DEF StartFlushed, Slot
  <2>2. Events'
    BY <1>6, <1>0 DEF StartFlushed, Events
  <2>3. Roles'
    BY <1>6, <1>0 DEF StartFlushed, Roles
  <2>4. Depths'
    BY <1>6, <1>0 DEF StartFlushed, Depths
  <2> QED
    BY <2>1, <2>2, <2>3, <2>4 DEF Shape
<1>7. CASE StartReturns
  <2>1. Slot'
    BY <1>7, <1>0 DEF StartReturns, Finished, NoCommand, Slot
  <2>2. Events'
    BY <1>7, <1>0 DEF StartReturns, Finished, NoCommand, Events
  <2>3. Roles'
    BY <1>7, <1>0 DEF StartReturns, Finished, NoCommand, Roles
  <2>4. Depths'
    BY <1>7, <1>0 DEF StartReturns, Finished, NoCommand, Depths
  <2> QED
    BY <2>1, <2>2, <2>3, <2>4 DEF Shape
<1>8. CASE Close
  <2>1. Slot'
    BY <1>8, <1>0 DEF Close, Slot
  <2>2. Events'
    BY <1>8, <1>0 DEF Close, Events
  <2>3. Roles'
    BY <1>8, <1>0 DEF Close, Roles
  <2>4. Depths'
    BY <1>8, <1>0 DEF Close, Depths
  <2> QED
    BY <2>1, <2>2, <2>3, <2>4 DEF Shape
<1>9. CASE Freed
  <2>1. Slot'
    BY <1>9, <1>0 DEF Freed, Slot
  <2>2. Events'
    BY <1>9, <1>0 DEF Freed, Events
  <2>3. Roles'
    BY <1>9, <1>0 DEF Freed, Roles
  <2>4. Depths'
    BY <1>9, <1>0 DEF Freed, Depths
  <2> QED
    BY <2>1, <2>2, <2>3, <2>4 DEF Shape
<1>10. ASSUME NEW t \in Callers, Access(t) PROVE Shape'
  <2>1. PICK c \in {Command("get", 0), Command("stop", 0)} \cup {Command("put", v) : v \in Vals} :
          Issue(t, c, "nothing")
    BY <1>10 DEF Access
  <2>2. c.op \in {"get", "stop", "put"}
    BY <2>1
  <2>3. Slot'
    BY <1>10, <1>0, <2>1, <2>2 DEF Access
  <2>4. Events'
    BY <1>10, <1>0, <2>1, <2>2 DEF Access
  <2>5. Roles'
    BY <1>10, <1>0, <2>1, <2>2 DEF Access
  <2>6. Depths'
    BY <1>10, <1>0, <2>1, <2>2 DEF Access
  <2> QED
    BY <2>3, <2>4, <2>5, <2>6
<1> QED
  BY <1>1, <1>2, <1>3, <1>4, <1>5, <1>6, <1>7, <1>8, <1>9, <1>10 DEF Method

-----------------------------------------------------------------------------
(* The registry.                                                             *)

(* Steps that touch neither hooks nor the call of the driver keep the         *)
(* registry.                                                                  *)
LEMMA RegisteredKept ==
  ASSUME Registered, UNCHANGED <<hooks, cbReg, cbs, kinds, then>>,
         cmd'[Driver] = cmd[Driver], ans'[Driver] = ans[Driver]
  PROVE  Registered'
BY DEF Registered, Removing

LEMMA RegisteredInit == Init => Registered
BY EngineAssumption DEF Init, Registered, Removing, NoCommand, Command

LEMMA RegisteredPump ==
  ASSUME TypeOK, Shape, Registered, NEW t \in Callers, Pump(t)
  PROVE  Registered'
<1> USE EngineAssumption DEF TypeOK, machine, registry, flushing
<1>1. CASE Enter(t) \/ Post(t) \/ Answered(t)
  BY <1>1, RegisteredKept DEF Enter, Post, Answered
<1>2. CASE Leave(t)
  <2>1. CASE t = Driver /\ then = "nothing"
    <3>1. ans[Driver] # None /\ cmd'[Driver].op = "get" /\ UNCHANGED <<hooks, cbReg, cbs, kinds, then>>
      BY <1>2, <2>1 DEF Leave, Shape, Events, NoCommand, Command
    <3> QED
      BY <2>1, <3>1 DEF Registered, Removing
  <2>2. CASE ~(t = Driver /\ then = "nothing")
    BY <1>2, <2>2, RegisteredKept DEF Leave
  <2> QED
    BY <2>1, <2>2
<1> QED
  BY <1>1, <1>2 DEF Pump

(* The engine serves the caller that holds the lock, and has not answered it. *)
LEMMA ServedInSlot ==
  ASSUME TypeOK, Shape, eng \in Busy
  PROVE  cur = lock /\ cur \in Callers /\ pc[cur] = "posted" /\ ans[cur] = None
BY DEF TypeOK, Shape, Slot, Events, Busy

(* The command of the driver and the continuation of its method determine     *)
(* each other.                                                                *)
LEMMA DriverRoles ==
  ASSUME TypeOK, Shape
  PROVE  /\ cmd[Driver].op = "hookadd" <=> then = "added"
         /\ cmd[Driver].op = "quit" <=> then = "freed"
         /\ cmd[Driver].op = "start" <=> then = "ended"
         /\ cmd[Driver].op = "hookdel" => then = "nothing"
         /\ cmd[Driver].op = "flush" => then \in {"nothing", "begin"}
BY EngineAssumption DEF TypeOK, Thens, Shape, Roles

LEMMA RegisteredEngine ==
  ASSUME TypeOK, Shape, Registered, EngineThread
  PROVE  Registered'
<1> USE EngineAssumption DEF TypeOK, machine, registry, flushing
<1>1. CASE engineOpens \/ Take \/ DispatchStart
  BY <1>1, RegisteredKept DEF engineOpens, Take, DispatchStart
<1>2. CASE Quit
  <2>1. cur = Driver /\ then = "freed" /\ ans'[Driver] = OK
    BY <1>2, ServedInSlot, DriverRoles DEF Quit, Busy, Shape, Roles
  <2> QED
    BY <1>2, <2>1, DriverRoles DEF Quit, Registered, Removing
<1>3. CASE Dispatch
  <2>1. cur \in Callers /\ ans[cur] = None
    BY <1>3, ServedInSlot DEF Dispatch, Busy
  <2>2. PICK a \in IF cmd[cur].op = "hookadd" THEN {OK, ERR} ELSE {OK} :
             /\ ans' = [ans EXCEPT ![cur] = IF cmd[cur].op = "get" THEN val ELSE a]
             /\ hooks' = UcHookAdded(cmd[cur], a)
    BY <1>3 DEF Dispatch
  <2>3. CASE cur # Driver
    <3>1. cmd[cur].op \in {"get", "put", "stop"}
      BY <2>1, <2>3 DEF Shape, Roles
    <3>2. hooks' = hooks /\ ans'[Driver] = ans[Driver]
      BY <2>1, <2>2, <2>3, <3>1 DEF UcHookAdded
    <3> QED
      BY <1>3, <3>2, RegisteredKept DEF Dispatch
  <2>4. CASE cur = Driver
    <3>1. UNCHANGED <<cmd, then, cbReg, cbs, kinds>> /\ ans'[Driver] # None
      BY <1>3, <2>1, <2>2, <2>4, NoneAssumption DEF Dispatch, Answers
    <3>2. CASE cmd[cur].op = "hookadd"
      <4>1. ans'[Driver] = a /\ a \in {OK, ERR} /\ OK # ERR /\ then = "added" /\ ~Removing /\ ~Removing'
        BY <2>2, <2>4, <3>1, <3>2, DriverRoles DEF OK, ERR, Removing
      <4>2. hooks' = IF a = OK THEN hooks \cup {cmd[Driver].arg} ELSE hooks
        BY <2>2, <2>4, <3>2 DEF UcHookAdded
      <4>3. cmd[Driver].arg \notin hooks
        BY <2>1, <2>4, <4>1, NoneAssumption DEF Registered, Answers
      <4>4. cmd[Driver].arg \in 1 .. Len(kinds)
        BY <4>1, LenProperties DEF Shape, Roles
      <4> QED
        BY <3>1, <4>1, <4>2, <4>3, <4>4 DEF Registered
    <3>3. CASE cmd[cur].op = "hookdel"
      <4>1. hooks' = hooks \ {cmd[Driver].arg} /\ Removing /\ ~Removing' /\ then = "nothing"
        BY <2>1, <2>2, <2>4, <3>1, <3>3, DriverRoles DEF UcHookAdded, Removing
      <4> QED
        BY <3>1, <4>1 DEF Registered
    <3>4. CASE cmd[cur].op \notin {"hookadd", "hookdel"}
      <4>1. hooks' = hooks /\ ~Removing /\ ~Removing' /\ then # "added"
        BY <2>2, <2>4, <3>1, <3>4, DriverRoles DEF UcHookAdded, Removing
      <4> QED
        BY <3>1, <4>1 DEF Registered
    <3> QED
      BY <3>2, <3>3, <3>4
  <2> QED
    BY <2>3, <2>4
<1> QED
  BY <1>1, <1>2, <1>3 DEF EngineThread

(* Guest code and its callbacks run inside the Start of the driver.           *)
LEMMA GuestRuns ==
  ASSUME TypeOK, Shape, RunBlock \/ StartEnds \/ Callback
  PROVE  /\ eng = "running" /\ frames # <<>> /\ frames \in Seq(Frames) /\ Innermost \in Frames
         /\ cur = Driver /\ then = "ended" /\ cmd[Driver].op = "start" /\ ans[Driver] = None
<1>1. eng = "running" /\ frames # <<>> /\ frames \in Seq(Frames)
  BY DEF RunBlock, StartEnds, Callback, CallbackHooks, CallbackRemoves, CallbackPuts, CallbackStarts, CallbackStops,
         CallbackEnds, InGuest, InCallback, TypeOK, Shape, Depths
<1> QED
  BY <1>1, Stack, RunsForDriver, ServedInSlot, DriverRoles DEF Busy

LEMMA RegisteredGuest ==
  ASSUME TypeOK, Shape, Registered, RunBlock \/ StartEnds \/ Callback
  PROVE  Registered'
<1> USE DEF Inside, pump, registry, flushing
<1>1. then = "ended" /\ cmd[Driver].op = "start" /\ cur = Driver /\ cbReg = hooks /\ cbReg \subseteq cbs /\ hooks \subseteq 1 .. Len(kinds)
  BY GuestRuns DEF Registered, Removing
<1>2. CASE RunBlock \/ CallbackPuts \/ CallbackStarts \/ CallbackStops \/ CallbackEnds
  BY <1>2, RegisteredKept DEF RunBlock, CallbackPuts, CallbackStarts, CallbackStops, CallbackEnds
<1>3. CASE StartEnds
  <2>1. UNCHANGED <<cmd, then, hooks, cbReg, cbs, kinds>>
    BY <1>3 DEF StartEnds
  <2> QED
    BY <1>1, <2>1 DEF Registered, Removing
<1>4. CASE CallbackRemoves
  <2>1. cbReg' = hooks' /\ hooks' \subseteq hooks /\ UNCHANGED <<cmd, then, cbs, kinds>>
    BY <1>1, <1>4 DEF CallbackRemoves
  <2> QED
    BY <1>1, <2>1 DEF Registered, Removing
<1>5. CASE CallbackHooks
  <2>1. PICK k \in Kinds : registerCB(k)
    BY <1>5 DEF CallbackHooks
  <2>2. Len(kinds') = Len(kinds) + 1 /\ Len(kinds) \in Nat /\ NextId = Len(kinds')
    BY <1>5, <2>1, HooksKept DEF CallbackHooks
  <2>3. UNCHANGED <<cmd, then>> /\ cbReg' = hooks' /\ cbReg' \subseteq cbs'
    BY <1>1, <1>5 DEF CallbackHooks
  <2>5. 1 .. Len(kinds) \subseteq 1 .. Len(kinds') /\ NextId \in 1 .. Len(kinds')
    BY <2>2
  <2>4. hooks' \subseteq 1 .. Len(kinds')
    BY <1>1, <1>5, <2>5 DEF CallbackHooks
  <2> QED
    BY <1>1, <2>3, <2>4 DEF Registered, Removing
<1> QED
  BY <1>2, <1>3, <1>4, <1>5 DEF Callback

LEMMA RegisteredMethod ==
  ASSUME TypeOK, Shape, Registered, Method \/ (\E t \in Callers : Access(t))
  PROVE  Registered'
<1> USE EngineAssumption DEF TypeOK, NoPump, pump, machine, registry, flushing, Issue, Command
<1>1. CASE newUnicornBackend
  BY <1>1 DEF newUnicornBackend, Shape, Roles, Registered, Removing
<1>2. CASE HookAdd
  <2>1. then = "nothing" /\ ~Removing /\ cbReg = hooks /\ cbReg \subseteq cbs /\ hooks \subseteq 1 .. Len(kinds)
    BY <1>2 DEF HookAdd, Shape, Roles, Registered, Removing
  <2>2. PICK k \in Kinds : registerCB(k)
    BY <1>2 DEF HookAdd
  <2>3. Len(kinds') = Len(kinds) + 1 /\ Len(kinds) \in Nat /\ NextId = Len(kinds')
    BY <1>2, <2>2, HooksKept DEF HookAdd
  <2>4. /\ then' = "added" /\ cmd'[Driver].arg = NextId /\ cmd'[Driver].op = "hookadd" /\ ans'[Driver] = None
        /\ cbReg' = hooks' \cup {NextId} /\ hooks' = hooks /\ cbs' = cbs
    BY <1>2, <2>1 DEF HookAdd
  <2>5. hooks' \subseteq 1 .. Len(kinds') /\ NextId \notin hooks
    BY <2>1, <2>3, <2>4
  <2> QED
    BY <2>1, <2>4, <2>5, NoneAssumption DEF Registered, Removing, Answers
<1>3. CASE HookAddReturns
  <2>1. then = "added" /\ cmd[Driver].op = "hookadd" /\ ans[Driver] \in {OK, ERR}
    BY <1>3, DriverRoles DEF HookAddReturns, Shape, Roles, Registered
  <2> DEFINE id == cmd[Driver].arg
  <2>4. cbReg = hooks \cup {id} /\ cbReg \subseteq cbs \cup {id} /\ (ans[Driver] = OK <=> id \in hooks)
    BY <2>1 DEF Registered
  <2>5. UNCHANGED <<hooks, kinds>>
    BY <1>3 DEF HookAddReturns
  <2>6. ASSUME ans[Driver] = OK PROVE cbReg' = hooks /\ cbReg' \subseteq cbs'
    <3>1. cbReg' = cbReg /\ cbs' = cbs \cup {id}
      BY <1>3, <2>6 DEF HookAddReturns, OK, ERR
    <3> HIDE DEF id
    <3> QED
      BY <2>4, <2>6, <3>1
  <2>7. ASSUME ans[Driver] = ERR PROVE cbReg' = hooks /\ cbReg' \subseteq cbs'
    <3>1. cbReg' = cbReg \ {id} /\ cbs' = cbs /\ ans[Driver] # OK
      BY <1>3, <2>7 DEF HookAddReturns, OK, ERR
    <3> HIDE DEF id
    <3> QED
      BY <2>4, <3>1
  <2>2. cbReg' = hooks /\ cbReg' \subseteq cbs' /\ UNCHANGED <<hooks, kinds>>
    BY <2>1, <2>5, <2>6, <2>7
  <2>3. then' = "nothing" /\ cmd'[Driver].op # "hookdel"
    BY <1>3 DEF HookAddReturns, Finished, NoCommand
  <2> QED
    BY <2>2, <2>3 DEF Registered, Removing
<1>4. CASE Remove
  BY <1>4 DEF Remove, Shape, Roles, Registered, Removing
<1>5. CASE Start
  BY <1>5 DEF Start, Shape, Roles, Registered, Removing
<1>6. CASE StartFlushed
  BY <1>6, DriverRoles DEF StartFlushed, Shape, Registered, Removing
<1>7. CASE StartReturns
  BY <1>7, DriverRoles DEF StartReturns, Shape, Finished, NoCommand, Registered, Removing
<1>8. CASE Close
  <2>1. then = "nothing" /\ ~Removing
    BY <1>8 DEF Close, Shape, Roles, Removing
  <2>2. cbReg' = {} /\ then' = "freed" /\ UNCHANGED <<hooks, kinds>> /\ cmd'[Driver].op = "quit"
    BY <1>8, <2>1 DEF Close, Registered
  <2> QED
    BY <2>2 DEF Registered, Removing
<1>9. CASE Freed
  BY <1>9, RegisteredKept DEF Freed
<1>10. ASSUME NEW t \in Callers, Access(t) PROVE Registered'
  <2>1. PICK c \in {Command("get", 0), Command("stop", 0)} \cup {Command("put", v) : v \in Vals} :
          Issue(t, c, "nothing")
    BY <1>10 DEF Access
  <2>2. c.op \in {"get", "stop", "put"}
    BY <2>1
  <2>3. CASE t = Driver
    BY <1>10, <2>1, <2>2, <2>3 DEF Access, Shape, Roles, Registered, Removing
  <2>4. CASE t # Driver
    BY <1>10, <2>1, <2>4, RegisteredKept DEF Access
  <2> QED
    BY <2>3, <2>4
<1> QED
  BY <1>1, <1>2, <1>3, <1>4, <1>5, <1>6, <1>7, <1>8, <1>9, <1>10 DEF Method

-----------------------------------------------------------------------------
(* The translations.                                                         *)

(* Steps that touch neither hooks nor translations nor the call of the driver *)
(* keep what is due for a flush.                                              *)
LEMMA TranslatedKept ==
  ASSUME Translated, UNCHANGED <<hooks, tb, kinds, then, pendingFlush>>,
         cmd'[Driver] = cmd[Driver], ans'[Driver] = ans[Driver],
         frames' # <<>> <=> frames # <<>>, frames # <<>> => frames'[1].since = frames[1].since
  PROVE  Translated'
BY DEF Translated, Seen, CodeHooks, Adding, FlushIssued

LEMMA TranslatedInit == Init => Translated
BY DEF Init, Translated, Seen

LEMMA TranslatedPump ==
  ASSUME TypeOK, Shape, Translated, NEW t \in Callers, Pump(t)
  PROVE  Translated'
<1> USE EngineAssumption DEF TypeOK, machine, registry, flushing
<1>1. CASE Enter(t) \/ Post(t) \/ Answered(t)
  BY <1>1, TranslatedKept DEF Enter, Post, Answered
<1>2. CASE Leave(t)
  <2>1. CASE t = Driver /\ then = "nothing"
    <3>1. /\ ans[Driver] # None /\ cmd'[Driver].op = "get"
          /\ UNCHANGED <<hooks, tb, frames, kinds, then, pendingFlush>>
      BY <1>2, <2>1 DEF Leave, Shape, Events, NoCommand, Command
    <3> QED
      BY <2>1, <3>1 DEF Translated, Seen, CodeHooks, Adding, FlushIssued
  <2>2. CASE ~(t = Driver /\ then = "nothing")
    BY <1>2, <2>2, TranslatedKept DEF Leave
  <2> QED
    BY <2>1, <2>2
<1> QED
  BY <1>1, <1>2 DEF Pump

LEMMA TranslatedEngine ==
  ASSUME TypeOK, Shape, Registered, Translated, EngineThread
  PROVE  Translated'
<1> USE EngineAssumption DEF TypeOK, machine, registry, flushing
<1>1. CASE engineOpens \/ Take
  BY <1>1, TranslatedKept DEF engineOpens, Take
<1>2. CASE Quit
  <2>1. cur = Driver /\ then = "freed" /\ cmd[Driver].op = "quit"
    BY <1>2, ServedInSlot, DriverRoles DEF Quit, Busy, Shape, Roles
  <2>2. UNCHANGED <<hooks, tb, frames, kinds, then, pendingFlush, cmd>>
    BY <1>2 DEF Quit
  <2> QED
    BY <2>1, <2>2 DEF Translated, Seen, CodeHooks, Adding, FlushIssued
<1>3. CASE Dispatch
  <2>1. cur \in Callers /\ ans[cur] = None /\ frames = <<>> /\ cmd[cur].op \notin {"quit", "start"}
    BY <1>3, ServedInSlot DEF Dispatch, Busy, Shape, Depths
  <2>2. PICK a \in IF cmd[cur].op = "hookadd" THEN {OK, ERR} ELSE {OK} :
             /\ ans' = [ans EXCEPT ![cur] = IF cmd[cur].op = "get" THEN val ELSE a]
             /\ hooks' = UcHookAdded(cmd[cur], a)
    BY <1>3 DEF Dispatch
  <2>3. CASE cur # Driver
    <3>1. cmd[cur].op \in {"get", "put", "stop"}
      BY <2>1, <2>3 DEF Shape, Roles
    <3>2. hooks' = hooks /\ ans'[Driver] = ans[Driver] /\ tb' = tb
      BY <1>3, <2>1, <2>2, <2>3, <3>1 DEF Dispatch, UcHookAdded
    <3> QED
      BY <1>3, <3>2, TranslatedKept DEF Dispatch
  <2>4. CASE cur = Driver
    <3>1. /\ UNCHANGED <<cmd, then, kinds, frames, pendingFlush>> /\ ans'[Driver] # None
          /\ then # "ended" /\ ~FlushIssued'
      BY <1>3, <2>1, <2>2, <2>4, NoneAssumption, DriverRoles DEF Dispatch, Answers, FlushIssued
    <3>2. CASE cmd[cur].op = "flush"
      <4>1. \A b \in Blocks : tb'[b] = None
        BY <1>3, <3>2 DEF Dispatch, UcFlushed
      <4> QED
        BY <2>1, <3>1, <4>1 DEF Translated, Seen
    <3>3. CASE cmd[cur].op # "flush"
      <4>1. tb' = tb /\ ~FlushIssued
        BY <1>3, <2>4, <3>3 DEF Dispatch, FlushIssued
      <4>2. hooks' \subseteq hooks \cup Adding
        BY <2>2, <2>4, DriverRoles DEF UcHookAdded, Adding
      <4>3. hooks' \ Adding' \subseteq hooks \ Adding
        BY <3>1, <4>2 DEF Adding
      <4> QED
        BY <2>1, <3>1, <4>1, <4>3 DEF Translated, Seen, CodeHooks
    <3> QED
      BY <3>2, <3>3
  <2> QED
    BY <2>3, <2>4
<1>4. CASE DispatchStart
  <2>1. cur = Driver /\ then = "ended" /\ ans[Driver] = None /\ frames = <<>> /\ cmd[Driver].op = "start"
    BY <1>4, ServedInSlot, StartsForDriver DEF DispatchStart, Busy, Shape, Depths
  <2>2. Seen(hooks) /\ ~pendingFlush
    BY <2>1 DEF Translated, FlushIssued, Adding
  <2>3. frames' # <<>> /\ frames'[1].since = hooks
    BY <1>4 DEF DispatchStart, Frame
  <2>4. UNCHANGED <<hooks, tb, kinds, then, pendingFlush, ans, cmd>>
    BY <1>4 DEF DispatchStart
  <2>5. hooks \subseteq 1 .. Len(kinds)
    BY DEF Registered
  <2> QED
    BY <2>1, <2>2, <2>3, <2>4, <2>5 DEF Translated, Seen, CodeHooks, Adding
<1> QED
  BY <1>1, <1>2, <1>3, <1>4 DEF EngineThread

LEMMA TranslatedGuest ==
  ASSUME TypeOK, Shape, Registered, Translated, RunBlock \/ StartEnds \/ Callback
  PROVE  Translated'
<1> USE DEF Inside, pump, registry, flushing
<1>1. /\ then = "ended" /\ cmd[Driver].op = "start" /\ cur = Driver /\ frames # <<>> /\ frames \in Seq(Frames)
      /\ Innermost \in Frames /\ ~FlushIssued /\ Adding = {}
  BY GuestRuns DEF FlushIssued, Adding
<1>2. /\ Seen(frames[1].since \cap hooks) /\ frames[1].since \subseteq 1 .. Len(kinds)
      /\ pendingFlush \/ Seen(hooks)
  BY <1>1 DEF Translated
<1>3. ASSUME frames' # <<>> => frames'[1].since = frames[1].since, UNCHANGED <<cmd, then>>,
             frames' = <<>> => ans'[Driver] # None
      PROVE  /\ ~FlushIssued' /\ Adding' = {}
             /\ then' = "begin" \/ (then' = "ended" /\ ans'[Driver] = None /\ frames' = <<>>) => ~pendingFlush'
  BY <1>1, <1>3 DEF FlushIssued, Adding
<1>4. ASSUME frames' # <<>>, frames'[1].since = frames[1].since,
             UNCHANGED <<pc, cmd, ans, then, pump, registry, flushing, hooks, tb>>
      PROVE  Translated'
  BY <1>1, <1>4, TranslatedKept
<1>5. CASE RunBlock
  <2>1. frames' = frames \/ frames' = [frames EXCEPT ![Len(frames)] = [Innermost EXCEPT !.inCallback = TRUE]]
    BY <1>5 DEF RunBlock, Innermost
  <2>2. /\ [Innermost EXCEPT !.inCallback = TRUE] \in Frames
        /\ [Innermost EXCEPT !.inCallback = TRUE].since = Innermost.since
    BY <1>1 DEF Frames
  <2>3. frames' # <<>> /\ frames'[1].since = frames[1].since
    BY <1>1, <2>1, <2>2, TopChanges
  <2>4. UNCHANGED <<cmd, ans, then, kinds, hooks, pendingFlush>>
    BY <1>5 DEF RunBlock
  <2>5. PICK b \in Blocks : tb' = [tb EXCEPT ![b] = Reached(b)]
    BY <1>5 DEF RunBlock
  <2>6. ASSUME NEW hs \in SUBSET hooks, Seen(hs)
        PROVE  \A x \in Blocks : tb'[x] # None => CodeHooks(hs) \subseteq tb'[x]
    BY <2>5, <2>6 DEF TypeOK, Seen, Reached, CodeHooks
  <2>8. Seen(frames[1].since \cap hooks)'
    BY <1>2, <2>3, <2>4, <2>6 DEF Seen, CodeHooks
  <2>9. (pendingFlush \/ Seen(hooks))'
    BY <1>2, <2>4, <2>6 DEF Seen, CodeHooks
  <2> QED
    BY <1>1, <1>2, <1>3, <2>3, <2>4, <2>8, <2>9 DEF Translated
<1>6. CASE StartEnds
  <2>1. frames' # <<>> => frames'[1].since = frames[1].since
    BY <1>1, <1>6, Popped DEF StartEnds
  <2>2. UNCHANGED <<cmd, then, kinds, hooks, tb, pendingFlush>>
    BY <1>6 DEF StartEnds
  <2>3. frames' = <<>> => ans'[Driver] # None
    <3>1. frames' = <<>> => Len(frames) = 1
      BY <1>1, <1>6, Popped DEF StartEnds
    <3>2. Len(frames) = 1 => \E a \in Answers : ans' = [ans EXCEPT ![Driver] = a]
      BY <1>1, <1>6 DEF StartEnds
    <3> QED
      BY <3>1, <3>2, NoneAssumption, EngineAssumption DEF TypeOK
  <2> QED
    BY <1>1, <1>2, <1>3, <2>1, <2>2, <2>3 DEF Translated, Seen, CodeHooks
<1>7. CASE CallbackHooks
  <2>1. PICK k \in Kinds : registerCB(k) /\
          \/ /\ hooks' = hooks \cup {NextId} /\ pendingFlush' = (pendingFlush \/ hookAdded(k))
          \/ UNCHANGED <<hooks, pendingFlush>>
    BY <1>7, Zenon DEF CallbackHooks
  <2>2. /\ Len(kinds') = Len(kinds) + 1 /\ Len(kinds) \in Nat /\ NextId = Len(kinds')
        /\ \A i \in 1 .. Len(kinds) : kinds'[i] = kinds[i]
        /\ kinds'[NextId] = k
    BY <1>7, <2>1, HooksKept DEF CallbackHooks
  <2>3. NextId \notin 1 .. Len(kinds) /\ 1 .. Len(kinds) \subseteq 1 .. Len(kinds')
    BY <2>2
  <2>4. UNCHANGED <<cmd, ans, then, tb, frames>>
    BY <1>7 DEF CallbackHooks
  <2>5. frames[1].since \cap hooks' = frames[1].since \cap hooks
    BY <1>2, <2>1, <2>3
  <2>6. Seen(frames[1].since \cap hooks)'
    BY <1>2, <2>2, <2>4, <2>5 DEF Seen, CodeHooks
  <2>7. pendingFlush' \/ Seen(hooks)'
    <3>1. ASSUME Seen(hooks), hooks' = hooks \/ (hooks' = hooks \cup {NextId} /\ k # "code") PROVE Seen(hooks)'
      BY <2>2, <2>4, <3>1 DEF Seen, CodeHooks, Registered
    <3>2. CASE hooks' = hooks \cup {NextId} /\ pendingFlush' = (pendingFlush \/ hookAdded(k))
      <4>1. pendingFlush \/ k = "code" => pendingFlush'
        BY <3>2 DEF hookAdded
      <4> QED
        BY <1>2, <3>1, <3>2, <4>1
    <3>3. CASE UNCHANGED <<hooks, pendingFlush>>
      BY <1>2, <3>1, <3>3
    <3> QED
      BY <2>1, <3>2, <3>3
  <2> QED
    BY <1>1, <1>2, <1>3, <2>3, <2>4, <2>6, <2>7 DEF Translated
<1>8. CASE CallbackRemoves
  <2>1. hooks' \subseteq hooks /\ UNCHANGED <<cmd, ans, then, tb, frames, kinds, pendingFlush>>
    BY <1>8 DEF CallbackRemoves
  <2> QED
    BY <1>1, <1>2, <1>3, <2>1 DEF Translated, Seen, CodeHooks
<1>9. CASE CallbackPuts
  BY <1>1, <1>4, <1>9 DEF CallbackPuts
<1>10. CASE CallbackStarts
  <2>1. frames' # <<>> /\ frames'[1] = frames[1]
    BY <1>1, <1>10, FrameTyped, Pushed DEF CallbackStarts
  <2> QED
    BY <1>1, <1>10, <2>1, TranslatedKept DEF CallbackStarts
<1>11. CASE CallbackStops
  <2>1. /\ [Innermost EXCEPT !.stopped = TRUE] \in Frames
        /\ [Innermost EXCEPT !.stopped = TRUE].since = Innermost.since
    BY <1>1 DEF Frames
  <2>2. frames' = [frames EXCEPT ![Len(frames)] = [Innermost EXCEPT !.stopped = TRUE]]
    BY <1>11 DEF CallbackStops, Innermost
  <2>3. frames' # <<>> /\ frames'[1].since = frames[1].since
    BY <1>1, <2>1, <2>2, TopChanges
  <2> QED
    BY <1>4, <1>11, <2>3 DEF CallbackStops
<1>12. CASE CallbackEnds
  <2> DEFINE f(p) == [Innermost EXCEPT !.inCallback = FALSE, !.stopped = Innermost.stopped \/ p]
  <2>1. PICK p \in BOOLEAN : frames' = [frames EXCEPT ![Len(frames)] = f(p)]
    BY <1>12, Zenon DEF CallbackEnds
  <2>2. f(p) \in Frames /\ f(p).since = Innermost.since
    BY <1>1 DEF Frames
  <2>3. frames' # <<>> /\ frames'[1].since = frames[1].since
    <3> HIDE DEF f
    <3> QED
      BY <1>1, <2>1, <2>2, TopChanges
  <2> QED
    BY <1>4, <1>12, <2>3 DEF CallbackEnds
<1> QED
  BY <1>5, <1>6, <1>7, <1>8, <1>9, <1>10, <1>11, <1>12 DEF Callback

LEMMA TranslatedMethod ==
  ASSUME TypeOK, Shape, Registered, Translated, Method \/ (\E t \in Callers : Access(t))
  PROVE  Translated'
<1> USE EngineAssumption DEF TypeOK, NoPump, pump, machine, registry, flushing, Issue, Command
<1>0. pc[Driver] # "posted" => frames = <<>>
  BY RunsForDriver DEF Shape, Depths
<1>1. CASE newUnicornBackend
  BY <1>0, <1>1 DEF newUnicornBackend, Shape, Roles, Translated, Seen, CodeHooks, Adding, FlushIssued
<1>2. CASE HookAdd
  <2>1. then = "nothing" /\ ~FlushIssued /\ Adding = {} /\ frames = <<>> /\ hooks \subseteq 1 .. Len(kinds)
    BY <1>0, <1>2 DEF HookAdd, Shape, Roles, FlushIssued, Adding, Registered
  <2>2. PICK k \in Kinds : registerCB(k)
    BY <1>2 DEF HookAdd
  <2>3. /\ Len(kinds') = Len(kinds) + 1 /\ Len(kinds) \in Nat /\ NextId = Len(kinds')
        /\ \A i \in 1 .. Len(kinds) : kinds'[i] = kinds[i]
    BY <1>2, <2>2, HooksKept DEF HookAdd
  <2>4. /\ then' = "added" /\ cmd'[Driver].arg = NextId /\ cmd'[Driver].op = "hookadd"
        /\ UNCHANGED <<hooks, tb, frames, pendingFlush>>
    BY <1>2 DEF HookAdd
  <2>5. (hooks \ Adding)' \subseteq hooks
    BY <2>4 DEF Adding
  <2>6. Seen(hooks) => Seen(hooks \ Adding)'
    BY <2>1, <2>3, <2>4, <2>5 DEF Seen, CodeHooks
  <2> QED
    BY <2>1, <2>4, <2>6 DEF Translated
<1>3. CASE HookAddReturns
  <2> DEFINE id == cmd[Driver].arg
  <2>1. /\ then = "added" /\ cmd[Driver].op = "hookadd" /\ frames = <<>> /\ ans[Driver] \in {OK, ERR}
        /\ (ans[Driver] = OK <=> id \in hooks) /\ Adding = {id} /\ ~FlushIssued
    BY <1>0, <1>3, DriverRoles DEF HookAddReturns, Shape, Roles, Registered, Adding, FlushIssued
  <2>2. then' = "nothing" /\ Adding' = {} /\ UNCHANGED <<hooks, tb, frames, kinds>>
    BY <1>3 DEF HookAddReturns, Finished, Adding
  <2>3. pendingFlush => pendingFlush'
    BY <1>3 DEF HookAddReturns
  <2>4. CASE ans[Driver] = ERR
    <3>1. hooks \ {id} = hooks
      BY <2>1, <2>4 DEF OK, ERR
    <3>2. pendingFlush \/ Seen(hooks)
      BY <2>1, <3>1 DEF Translated
    <3> QED
      BY <2>1, <2>2, <2>3, <3>2 DEF Translated, Seen, CodeHooks
  <2>5. CASE ans[Driver] # ERR /\ kinds[id] = "code"
    <3>2. hookAdded(kinds[id])
      BY <2>5 DEF hookAdded
    <3>3. ASSUME depth = 0 PROVE FlushIssued'
      <4>1. cmd' = [cmd EXCEPT ![Driver] = Command("flush", 0)] /\ ans' = [ans EXCEPT ![Driver] = None]
        <5> HIDE DEF Command, TypeOK
        <5> QED
          BY <1>3, <2>5, <3>2, <3>3, Zenon DEF HookAddReturns
      <4> QED
        BY <4>1 DEF FlushIssued
    <3>4. ASSUME depth # 0 PROVE pendingFlush'
      <4> HIDE DEF Command, TypeOK
      <4>1. pendingFlush' = (pendingFlush \/ hookAdded(kinds[id]))
        BY <1>3, <2>5, <3>4, Zenon DEF HookAddReturns
      <4> QED
        BY <3>2, <4>1
    <3>1. pendingFlush' \/ FlushIssued'
      BY <3>3, <3>4
    <3> QED
      BY <2>1, <2>2, <3>1 DEF Translated
  <2>6. CASE ans[Driver] # ERR /\ kinds[id] # "code"
    <3>1. CodeHooks(hooks) \subseteq CodeHooks(hooks \ {id})
      BY <2>6 DEF CodeHooks
    <3>2. pendingFlush \/ Seen(hooks)
      BY <2>1, <3>1 DEF Translated, Seen
    <3> QED
      BY <2>1, <2>2, <2>3, <3>2 DEF Translated, Seen, CodeHooks
  <2> QED
    BY <2>4, <2>5, <2>6
<1>4. CASE Remove
  BY <1>0, <1>4 DEF Remove, Shape, Roles, Translated, Seen, CodeHooks, Adding, FlushIssued
<1>5. CASE Start
  BY <1>0, <1>5 DEF Start, Shape, Roles, Depths, Translated, Seen, CodeHooks, Adding, FlushIssued
<1>6. CASE StartFlushed
  BY <1>0, <1>6, DriverRoles DEF StartFlushed, Shape, Roles, Translated, Seen, CodeHooks, Adding, FlushIssued
<1>7. CASE StartReturns
  BY <1>0, <1>7, DriverRoles
  DEF StartReturns, Finished, NoCommand, Shape, Roles, Translated, Seen, CodeHooks, Adding, FlushIssued
<1>8. CASE Close
  BY <1>0, <1>8 DEF Close, Shape, Roles, Translated, Seen, CodeHooks, Adding, FlushIssued
<1>9. CASE Freed
  BY <1>9, TranslatedKept DEF Freed
<1>10. ASSUME NEW t \in Callers, Access(t) PROVE Translated'
  <2>1. PICK c \in {Command("get", 0), Command("stop", 0)} \cup {Command("put", v) : v \in Vals} :
          Issue(t, c, "nothing")
    BY <1>10 DEF Access
  <2>2. c.op \in {"get", "stop", "put"}
    BY <2>1
  <2>3. CASE t = Driver
    BY <1>0, <1>10, <2>1, <2>2, <2>3
    DEF Access, Shape, Roles, Translated, Seen, CodeHooks, Adding, FlushIssued
  <2>4. CASE t # Driver
    BY <1>10, <2>1, <2>4, TranslatedKept DEF Access
  <2> QED
    BY <2>3, <2>4
<1> QED
  BY <1>1, <1>2, <1>3, <1>4, <1>5, <1>6, <1>7, <1>8, <1>9, <1>10 DEF Method

-----------------------------------------------------------------------------
(* The theorems.                                                             *)

(* Every step preserves the invariant.                                        *)
LEMMA NextInv ==
  ASSUME IInv, [Next]_vars
  PROVE  IInv'
<1> USE DEF IInv
<1>1. CASE EngineThread
  BY <1>1, TypeEngine, ShapeEngine, RegisteredEngine, TranslatedEngine
<1>2. CASE RunBlock \/ StartEnds \/ Callback
  BY <1>2, TypeGuest, ShapeGuest, RegisteredGuest, TranslatedGuest
<1>3. CASE Method \/ (\E t \in Callers : Access(t))
  BY <1>3, TypeMethod, ShapeMethod, RegisteredMethod, TranslatedMethod
<1>4. ASSUME NEW t \in Callers, Pump(t) PROVE IInv'
  BY <1>4, TypePump, ShapePump, RegisteredPump, TranslatedPump
<1>5. CASE UNCHANGED vars
  BY <1>5 DEF vars, pump, machine, registry, flushing, TypeOK, Shape, Slot, Events, Roles, Depths, Registered,
              Removing, Translated, Seen, CodeHooks, Adding, FlushIssued
<1> QED
  BY <1>1, <1>2, <1>3, <1>4, <1>5 DEF Next

(* The invariant the theorems below are read off from.                        *)
THEOREM Inductive == Spec => []IInv
<1>1. Init => IInv
  BY TypeInit, ShapeInit, RegisteredInit, TranslatedInit DEF IInv
<1>2. IInv /\ [Next]_vars => IInv'
  BY NextInv
<1> QED
  BY <1>1, <1>2, PTL DEF Spec

(* The pump, the engine and the registry keep their types (uc_shim.c,         *)
(* unicorn_cgo.go).                                                           *)
THEOREM Typed == Spec => []TypeOK
<1>1. IInv => TypeOK
  BY DEF IInv
<1> QED
  BY <1>1, Inductive, PTL

(* Code a Start runs is never run by a translation older than a code hook     *)
(* that was there when the outermost Start began: hookAdded and start flush   *)
(* in time.                                                                   *)
THEOREM HooksSeenAlways == Spec => []HooksSeen
<1>1. IInv => HooksSeen
  BY DEF IInv, Translated, Seen, HooksSeen
<1> QED
  BY <1>1, Inductive, PTL

(* The registry of callbacks and the hooks of the engine agree outside        *)
(* HookAdd and Remove, and Close leaves none behind (registerCB,              *)
(* unregisterCB).                                                             *)
THEOREM RegistryExactAlways == Spec => []RegistryExact
<1>1. ASSUME IInv PROVE RegistryExact
  <2>1. ans[Driver] = None /\ pc[Driver] = "idle" => ~Removing
    BY <1>1 DEF IInv, Shape, Roles, Removing
  <2>2. pc[Driver] = "between" => ~Removing
    BY <1>1 DEF IInv, Shape, Roles, Removing
  <2> QED
    BY <1>1, <2>1, <2>2 DEF IInv, Shape, Roles, Registered, Removing, RegistryExact
<1> QED
  BY <1>1, Inductive, PTL

-----------------------------------------------------------------------------
(* The refinement.                                                           *)

Asked == [t \in Callers |-> IF pc[t] \in InCall THEN cmd[t] ELSE None]
Answer == [t \in Callers |-> IF pc[t] \in InCall THEN ans[t] ELSE None]
Running == IF eng = "running" THEN cur ELSE Nobody

Stutter == UNCHANGED <<val, Running, Asked, Answer>>

(* Where the mapped variables stay, the specification of calls stutters.      *)
LEMMA Stutters == Stutter => UNCHANGED Calls!callVars
BY Zenon DEF Stutter, Calls!callVars, Asked, Answer, Running, InCall, Held

LEMMA SameCalls ==
  ASSUME TypeOK, UNCHANGED <<cmd, ans, val, Running>>,
         \A t \in Callers : pc[t] \in InCall <=> pc'[t] \in InCall
  PROVE  Stutter
BY DEF Stutter, Asked, Answer, InCall, Held

(* A method that issues a command invokes a call.                             *)
LEMMA Invokes ==
  ASSUME TypeOK, NEW t \in Callers, NEW c \in Commands, NEW next, pc[t] \notin InCall, Issue(t, c, next),
         UNCHANGED <<val, eng, cur>>
  PROVE  Calls!Next
<1>1. Asked[t] = None /\ Asked' = [Asked EXCEPT ![t] = c] /\ Answer' = Answer /\ Running' = Running
  BY DEF TypeOK, Issue, Asked, Answer, Running, InCall
<1>2. Calls!Invoke(t)
  BY <1>1 DEF Calls!Invoke, Asked, Answer, Running, InCall, Held
<1> QED
  BY <1>2 DEF Calls!Next

LEMMA MethodEnds ==
  ASSUME TypeOK, pc[Driver] = "between", Finished, UNCHANGED <<val, eng, cur>>
  PROVE  UNCHANGED Calls!callVars
<1>1. Stutter
  BY EngineAssumption DEF Finished, TypeOK, Stutter, Asked, Answer, Running, InCall, Held
<1> QED
  BY <1>1, Stutters

LEMMA CallsSteps ==
  /\ Calls!Inside => Calls!Next
  /\ \A t \in Callers : Calls!Execute(t) \/ Calls!Begin(t) \/ Calls!End(t) \/ Calls!Return(t) => Calls!Next
BY Zenon DEF Calls!Next

(* Serving a command other than start executes the call whose caller is in    *)
(* the slot.                                                                  *)
LEMMA Executes ==
  ASSUME TypeOK, Shape, NEW t \in Callers, cur = t, eng = "serving", cmd[t].op # "start", eng' # "running",
         NEW a, a \in IF cmd[t].op = "get" THEN {val} ELSE Answers,
         ans' = [ans EXCEPT ![t] = a],
         val' = IF cmd[t].op = "put" THEN cmd[t].arg ELSE val,
         UNCHANGED <<pc, cmd>>
  PROVE  Calls!Next
<1>1. pc[t] \in InCall /\ ans[t] = None
  BY ServedInSlot DEF Busy, InCall, Held
<1>2. /\ Asked[t] = cmd[t] /\ Asked[t] # None /\ Answer[t] = None /\ Running = Nobody
      /\ Asked' = Asked /\ Running' = Running /\ Answer' = [Answer EXCEPT ![t] = a]
  BY <1>1, NoneAssumption DEF TypeOK, Asked, Answer, Running
<1>3. /\ Asked[t] # None /\ Asked[t].op # "start" /\ Answer[t] = None /\ Running = Nobody
      /\ val' = IF Asked[t].op = "put" THEN Asked[t].arg ELSE val
      /\ a \in IF Asked[t].op = "get" THEN {val} ELSE Answers
      /\ Answer' = [Answer EXCEPT ![t] = a]
      /\ UNCHANGED <<Running, Asked>>
  BY <1>2
<1>4. Calls!Execute(t)
  BY <1>3, Zenon DEF Calls!Execute, Asked, Answer, Running, InCall, Held
<1> QED
  BY <1>4, CallsSteps

LEMMA Begins ==
  ASSUME TypeOK, Shape, NEW t \in Callers, cur = t, eng = "serving", cmd[t].op = "start", eng' = "running",
         UNCHANGED <<pc, cmd, ans, val, cur>>
  PROVE  Calls!Next
<1>1. pc[t] \in InCall /\ ans[t] = None
  BY ServedInSlot DEF Busy, InCall, Held
<1>2. /\ Asked[t] # None /\ Asked[t].op = "start" /\ Answer[t] = None /\ Running = Nobody /\ Running' = t
      /\ UNCHANGED <<val, Asked, Answer>>
  BY <1>1, NoneAssumption DEF TypeOK, Asked, Answer, Running
<1>3. Calls!Begin(t)
  BY <1>2, Zenon DEF Calls!Begin, Asked, Answer, Running, InCall, Held
<1> QED
  BY <1>3, CallsSteps

LEMMA ActsInside ==
  ASSUME TypeOK, Shape, eng = "running", eng' = "running", val' \in Vals, UNCHANGED <<pc, cmd, ans, cur>>
  PROVE  Calls!Next
<1>1. cur \in Callers
  BY ServedInSlot DEF Busy
<1>2. Running # Nobody /\ val' \in Vals /\ UNCHANGED <<Running, Asked, Answer>>
  BY <1>1, EngineAssumption DEF Running, Asked, Answer
<1>3. Calls!Inside
  BY <1>2, Zenon DEF Calls!Inside, Asked, Answer, Running, InCall, Held
<1> QED
  BY <1>3, CallsSteps

LEMMA Ends ==
  ASSUME TypeOK, Shape, NEW t \in Callers, cur = t, eng = "running", eng' = "waiting",
         NEW a \in Answers, ans' = [ans EXCEPT ![t] = a], UNCHANGED <<pc, cmd, val>>
  PROVE  Calls!Next
<1>1. pc[t] \in InCall
  BY ServedInSlot DEF Busy, InCall, Held
<1>2. /\ Running = t /\ Running' = Nobody /\ Answer' = [Answer EXCEPT ![t] = a]
      /\ UNCHANGED <<val, Asked>>
  BY <1>1 DEF TypeOK, Asked, Answer, Running
<1>3. Calls!End(t)
  BY <1>2, Zenon DEF Calls!End, Asked, Answer, Running, InCall, Held
<1> QED
  BY <1>3, CallsSteps

LEMMA Returns ==
  ASSUME TypeOK, Shape, NEW t \in Callers, Leave(t)
  PROVE  Calls!Next
<1>1. pc[t] \in InCall /\ ans[t] # None
  BY DEF Leave, Shape, Events, InCall, Held
<1>2. /\ Answer[t] # None /\ Asked' = [Asked EXCEPT ![t] = None] /\ Answer' = [Answer EXCEPT ![t] = None]
      /\ UNCHANGED <<val, Running>>
  BY <1>1 DEF Leave, TypeOK, Asked, Answer, Running, InCall, Held, machine
<1>3. Calls!Return(t)
  BY <1>2, Zenon DEF Calls!Return, Asked, Answer, Running, InCall, Held
<1> QED
  BY <1>3, CallsSteps

LEMMA InitCalls == Init => Calls!Init
<1> SUFFICES ASSUME Init PROVE Calls!Init
  OBVIOUS
<1>1. /\ val \in Vals /\ Running = Nobody
      /\ Asked = [t \in Callers |-> None] /\ Answer = [t \in Callers |-> None]
  BY DEF Init, Asked, Answer, Running, InCall, Held
<1> QED
  BY <1>1, Zenon DEF Calls!Init, Asked, Answer, Running, InCall, Held

(* Every step is a step of the specification of calls, or leaves it           *)
(* unchanged.                                                                 *)
LEMMA NextCalls ==
  ASSUME IInv, [Next]_vars
  PROVE  Calls!Next \/ UNCHANGED Calls!callVars
<1> USE EngineAssumption DEF IInv
<1>1. CASE EngineThread
  <2>1. CASE engineOpens
    BY <1>1, <2>1, SameCalls, Stutters DEF engineOpens, Running, machine
  <2>2. CASE Take
    BY <1>1, <2>2, SameCalls, Stutters DEF Take, Running, machine
  <2>3. CASE Quit
    BY <1>1, <2>3, ServedInSlot, Executes DEF Quit, Busy, machine, Answers
  <2>4. CASE Dispatch
    <3>1. cur \in Callers
      BY <2>4, ServedInSlot DEF Dispatch, Busy
    <3>2. PICK a \in Answers : ans' = [ans EXCEPT ![cur] = IF cmd[cur].op = "get" THEN val ELSE a]
      BY <2>4 DEF Dispatch, Answers
    <3> QED
      BY <2>4, <3>1, <3>2, Executes DEF Dispatch
  <2>5. CASE DispatchStart
    BY <2>5, ServedInSlot, Begins DEF DispatchStart, Busy
  <2> QED
    BY <1>1, <2>1, <2>2, <2>3, <2>4, <2>5 DEF EngineThread
<1>2. CASE RunBlock
  BY <1>2, ActsInside DEF RunBlock, InGuest, Inside, pump
<1>3. CASE StartEnds
  <2>1. CASE Len(frames) = 1
    BY <1>3, <2>1, ServedInSlot, Ends DEF StartEnds, InGuest, Busy
  <2>2. CASE Len(frames) # 1
    BY <1>3, <2>2, ActsInside DEF StartEnds, InGuest, TypeOK
  <2> QED
    BY <2>1, <2>2
<1>4. CASE Callback
  <2>1. val' \in Vals /\ UNCHANGED <<pc, cmd, ans, eng, cur>>
    BY <1>4 DEF Callback, CallbackHooks, CallbackRemoves, CallbackPuts, CallbackStarts, CallbackStops, CallbackEnds,
                Inside, pump, TypeOK
  <2> QED
    BY <1>4, <2>1, GuestRuns, ActsInside
<1>5. CASE Method
  <2> USE DEF NoPump, pump, machine
  <2>1. CASE newUnicornBackend
    <3>1. CASE Issue(Driver, Command("quit", 0), "freed")
      BY <2>1, <3>1, CommandTyped, Invokes DEF newUnicornBackend, InCall, Held
    <3>2. CASE pc' = [pc EXCEPT ![Driver] = "idle"] /\ UNCHANGED <<cmd, ans, then>>
      <4>1. \A t \in Callers : pc[t] \in InCall <=> pc'[t] \in InCall
        BY <2>1, <3>2 DEF newUnicornBackend, InCall, Held, TypeOK
      <4> QED
        BY <2>1, <3>2, <4>1, SameCalls, Stutters DEF newUnicornBackend, Running
    <3> QED
      BY <2>1, <3>1, <3>2 DEF newUnicornBackend
  <2>2. CASE HookAdd
    BY <2>2, CommandTyped, Invokes DEF HookAdd, InCall, Held
  <2>3. CASE HookAddReturns
    <3>1. CASE Finished
      BY <2>3, <3>1, MethodEnds DEF HookAddReturns
    <3>2. CASE Issue(Driver, Command("flush", 0), "nothing")
      BY <2>3, <3>2, CommandTyped, Invokes DEF HookAddReturns, InCall, Held
    <3> QED
      BY <2>3, <3>1, <3>2 DEF HookAddReturns
  <2>4. CASE Remove
    <3>1. PICK id \in cbs : Issue(Driver, Command("hookdel", id), "nothing")
      BY <2>4 DEF Remove
    <3>2. id \in Ids
      BY LenProperties DEF TypeOK, Ids
    <3> QED
      BY <2>4, <3>1, <3>2, CommandTyped, Invokes DEF Remove, InCall, Held
  <2>5. CASE Start
    <3>1. PICK c \in Commands, next \in Thens : Issue(Driver, c, next)
      BY <2>5, CommandTyped DEF Start, Thens
    <3> QED
      BY <2>5, <3>1, Invokes DEF Start, InCall, Held
  <2>6. CASE StartFlushed
    BY <2>6, CommandTyped, Invokes DEF StartFlushed, InCall, Held
  <2>7. CASE StartReturns
    BY <2>7, MethodEnds DEF StartReturns
  <2>8. CASE Close
    BY <2>8, CommandTyped, Invokes DEF Close, InCall, Held
  <2>9. CASE Freed
    <3>1. \A t \in Callers : pc[t] \in InCall <=> pc'[t] \in InCall
      BY <2>9 DEF Freed, InCall, Held, TypeOK
    <3> QED
      BY <2>9, <3>1, SameCalls, Stutters DEF Freed, Running
  <2> QED
    BY <1>5, <2>1, <2>2, <2>3, <2>4, <2>5, <2>6, <2>7, <2>8, <2>9 DEF Method
<1>6. ASSUME NEW t \in Callers, Access(t) PROVE Calls!Next
  <2>1. PICK c \in {Command("get", 0), Command("stop", 0)} \cup {Command("put", v) : v \in Vals} :
          Issue(t, c, "nothing")
    BY <1>6 DEF Access
  <2> QED
    BY <1>6, <2>1, CommandTyped, Invokes DEF Access, InCall, Held, NoPump, pump, machine
<1>7. ASSUME NEW t \in Callers, Pump(t) PROVE Calls!Next \/ UNCHANGED Calls!callVars
  <2>1. CASE Leave(t)
    BY <2>1, Returns
  <2>2. CASE Enter(t)
    <3>1. Stutter
      <4>1. cur' = cur \/ eng # "running"
        BY <2>2, RunsForDriver DEF Enter
      <4> QED
        BY <2>2, <4>1, SameCalls DEF Enter, Running, machine, InCall, Held, TypeOK
    <3> QED
      BY <3>1, Stutters
  <2>3. CASE Post(t) \/ Answered(t)
    <3>1. Stutter
      BY <2>3, SameCalls DEF Post, Answered, Running, machine, InCall, Held, TypeOK
    <3> QED
      BY <3>1, Stutters
  <2> QED
    BY <1>7, <2>1, <2>2, <2>3 DEF Pump
<1>8. CASE UNCHANGED vars
  BY <1>8, SameCalls, Stutters DEF vars, pump, machine, Running
<1> QED
  BY <1>1, <1>2, <1>3, <1>4, <1>5, <1>6, <1>7, <1>8 DEF Next

(* Under any interleaving of callers, the engine thread and callbacks, the    *)
(* slot, the lock and the two events (ucs_run, engine_loop) implement calls   *)
(* that take effect one at a time, each with its own answer.                  *)
THEOREM Implements == Spec => ImplementsCalls
<1>1. Init => Calls!Init
  BY InitCalls
<1>2. IInv /\ [Next]_vars => [Calls!Next]_Calls!callVars
  BY NextCalls
<1> QED
  BY <1>1, <1>2, Inductive, PTL DEF Spec, ImplementsCalls, Calls!Spec

-----------------------------------------------------------------------------
(* No command is lost: the safety half of CallsReturn.                        *)

(* Nobody calls before the engine is there, nor once it is being freed; the   *)
(* engine thread has ended only for ucs_free, or because it could not open.   *)
Alone ==
  /\ eng = "opening" => pc[Driver] = "new"
  /\ eng = "ended" => pc[Driver] = "new" \/ then = "freed"
  /\ pc[Driver] = "new" \/ then = "freed" => \A t \in Callers \ {Driver} : pc[t] = "idle"
  /\ eng = "ended" /\ (pc[Driver] \in {"new", "enter", "locked"} \/ (pc[Driver] = "posted" /\ ~done))
       => MayFailOpen

(* The converse of Events: a command that is posted has been signalled, is    *)
(* being served or has been answered.                                         *)
Signalled == \A t \in Callers : pc[t] = "posted" => ready \/ done \/ eng \in Busy

Awake == Alone /\ Signalled

\* The command being served is that of a caller that waits for it
LEMMA Server ==
  ASSUME TypeOK, Shape, eng \in Busy
  PROVE  cur = lock /\ lock \in Callers /\ pc[lock] = "posted"
  BY DEF Shape, Slot, Events, Busy, TypeOK

LEMMA AwakePump ==
  ASSUME TypeOK, Shape, Awake, NEW t \in Callers, Pump(t)
  PROVE  Awake'
<1> USE EngineAssumption DEF TypeOK, Shape, Slot, Events, Held, Busy, Awake, Alone, Signalled
<1>1. CASE Enter(t)
  BY <1>1 DEF Enter
<1>2. CASE Post(t)
  BY <1>2 DEF Post
<1>3. CASE Answered(t)
  BY <1>3 DEF Answered
<1>4. CASE Leave(t)
  BY <1>4 DEF Leave
<1> QED
  BY <1>1, <1>2, <1>3, <1>4 DEF Pump

LEMMA AwakeEngine ==
  ASSUME TypeOK, Shape, Awake, EngineThread
  PROVE  Awake'
<1> USE EngineAssumption
<1>1. CASE engineOpens
  BY <1>1 DEF engineOpens, TypeOK, Awake, Alone, Signalled, Busy
<1>2. CASE Take
  BY <1>2 DEF Take, TypeOK, Awake, Alone, Signalled, Busy
<1>3. CASE Quit
  <2>1. cur = lock /\ lock \in Callers /\ pc[lock] = "posted"
    BY <1>3, Server DEF Quit, Busy
  <2>2. cur = Driver /\ then = "freed"
    BY <1>3, <2>1 DEF Quit, TypeOK, Shape, Roles, Thens
  <2>3. Alone'
    BY <1>3, <2>1, <2>2 DEF Quit, TypeOK, Awake, Alone
  <2>4. Signalled'
    BY <1>3 DEF Quit, Signalled
  <2> QED
    BY <2>3, <2>4 DEF Awake
<1>4. CASE Dispatch
  BY <1>4 DEF Dispatch, TypeOK, Awake, Alone, Signalled, Busy
<1>5. CASE DispatchStart
  BY <1>5 DEF DispatchStart, TypeOK, Awake, Alone, Signalled, Busy
<1> QED
  BY <1>1, <1>2, <1>3, <1>4, <1>5 DEF EngineThread

LEMMA AwakeGuest ==
  ASSUME TypeOK, Shape, Awake, RunBlock \/ StartEnds \/ Callback
  PROVE  Awake'
<1>1. CASE StartEnds
  BY <1>1 DEF StartEnds, InGuest, TypeOK, Awake, Alone, Signalled, Busy
<1>2. CASE RunBlock \/ Callback
  <2>1. UNCHANGED <<pc, then, ready, done, eng>>
    <3>1. CASE RunBlock
      BY <3>1 DEF RunBlock, Inside, pump
    <3>2. CASE CallbackHooks
      BY <3>2 DEF CallbackHooks, pump
    <3>3. CASE CallbackRemoves \/ CallbackPuts \/ CallbackStarts
      BY <3>3 DEF CallbackRemoves, CallbackPuts, CallbackStarts, Inside, pump
    <3>4. CASE CallbackStops \/ CallbackEnds
      <4>1. UNCHANGED Inside
        BY <3>4, Zenon DEF CallbackStops, CallbackEnds
      <4> QED
        BY <4>1 DEF Inside, pump
    <3> QED
      BY <1>2, <3>1, <3>2, <3>3, <3>4 DEF Callback
  <2> QED
    BY <2>1 DEF Awake, Alone, Signalled
<1> QED
  BY <1>1, <1>2

LEMMA AwakeMethod ==
  ASSUME TypeOK, Shape, Awake, Method \/ (\E t \in Callers : Access(t))
  PROVE  Awake'
<1> USE EngineAssumption
<1>1. UNCHANGED <<lock, ready, done, eng>>
  BY DEF Method, newUnicornBackend, HookAdd, HookAddReturns, Remove, Start, StartFlushed, StartReturns,
         Close, Freed, Access, NoPump, pump
<1>2. ASSUME NEW t \in Callers, NEW c, NEW next, Issue(t, c, next),
             pc[t] \in {"new", "idle", "between"},
             pc[t] = "new" => t = Driver /\ eng = "ended" /\ next = "freed",
             t # Driver => Open,
             t = Driver /\ pc[t] # "new" => then # "freed",
             t = Driver /\ next = "freed" => \A u \in Callers \ {Driver} : pc[u] = "idle"
      PROVE  Awake'
  <2>1. pc' = [pc EXCEPT ![t] = "enter"] /\ then' = IF t = Driver THEN next ELSE then
    BY <1>2 DEF Issue
  <2>2. Signalled'
    BY <1>1, <2>1 DEF TypeOK, Awake, Signalled, Busy
  <2>3. Alone'
    <3>1. CASE t = Driver
      BY <1>1, <1>2, <2>1, <3>1 DEF TypeOK, Awake, Alone
    <3>2. CASE t # Driver
      BY <1>1, <1>2, <2>1, <3>2 DEF TypeOK, Awake, Alone, Open
    <3> QED
      BY <3>1, <3>2
  <2> QED
    BY <2>2, <2>3 DEF Awake
<1>3. ASSUME Finished, then # "freed", pc[Driver] # "new"
      PROVE  Awake'
  BY <1>1, <1>3 DEF Finished, TypeOK, Awake, Alone, Signalled, Busy
<1>4. pc[Driver] = "idle" => then = "nothing"
  BY DEF Shape, Roles
<1>5. CASE newUnicornBackend
  <2>1. CASE eng = "ended"
    <3>1. Issue(Driver, Command("quit", 0), "freed") /\ pc[Driver] = "new"
      BY <1>5, <2>1 DEF newUnicornBackend
    <3>2. \A u \in Callers \ {Driver} : pc[u] = "idle"
      BY <3>1 DEF Awake, Alone
    <3> QED
      BY <1>2, <2>1, <3>1, <3>2
  <2>2. CASE eng # "ended"
    BY <1>1, <1>5, <2>2 DEF newUnicornBackend, TypeOK, Awake, Alone, Signalled, Busy
  <2> QED
    BY <2>1, <2>2
<1>6. CASE HookAdd
  BY <1>2, <1>4, <1>6 DEF HookAdd
<1>7. CASE HookAddReturns
  <2>1. pc[Driver] = "between" /\ then = "added"
    BY <1>7 DEF HookAddReturns
  <2>2. Finished \/ Issue(Driver, Command("flush", 0), "nothing")
    BY <1>7 DEF HookAddReturns
  <2> QED
    BY <1>2, <1>3, <2>1, <2>2
<1>8. CASE Remove
  BY <1>2, <1>4, <1>8 DEF Remove
<1>9. CASE Start
  <2>1. pc[Driver] = "idle"
    BY <1>9 DEF Start
  <2>2. Issue(Driver, Command("flush", 0), "begin") \/ Issue(Driver, Command("start", 0), "ended")
    BY <1>9 DEF Start
  <2> QED
    BY <1>2, <1>4, <2>1, <2>2
<1>10. CASE StartFlushed
  BY <1>2, <1>10 DEF StartFlushed
<1>11. CASE StartReturns
  BY <1>3, <1>11 DEF StartReturns
<1>12. CASE Close
  <2>1. pc[Driver] = "idle" /\ (\A u \in Callers : pc[u] = "idle") /\ Issue(Driver, Command("quit", 0), "freed")
    BY <1>12 DEF Close
  <2> QED
    BY <1>2, <1>4, <2>1
<1>13. CASE Freed
  BY <1>1, <1>13 DEF Freed, TypeOK, Awake, Alone, Signalled, Busy
<1>14. ASSUME NEW t \in Callers, Access(t)
       PROVE  Awake'
  <2>1. PICK c : Issue(t, c, "nothing")
    BY <1>14 DEF Access
  <2>2. pc[t] = "idle" /\ Open
    BY <1>14 DEF Access
  <2> QED
    BY <1>2, <1>4, <2>1, <2>2
<1> QED
  BY <1>5, <1>6, <1>7, <1>8, <1>9, <1>10, <1>11, <1>12, <1>13, <1>14 DEF Method

(* No caller of ucs_run waits for nothing: its command is up for the engine     *)
(* thread to take, being served, or answered.  The exception is the one ucs_new *)
(* makes when uc_open failed: ucs_free posts OP_QUIT to a thread that has       *)
(* ended.                                                                       *)
THEOREM NothingLost ==
  Spec => [](\A t \in Callers : pc[t] = "posted" =>
               \/ ready /\ eng = "waiting"
               \/ eng \in {"serving", "running"}
               \/ done
               \/ MayFailOpen /\ eng = "ended" /\ t = Driver /\ then = "freed")
<1> DEFINE Waits == \A t \in Callers : pc[t] = "posted" =>
               \/ ready /\ eng = "waiting"
               \/ eng \in {"serving", "running"}
               \/ done
               \/ MayFailOpen /\ eng = "ended" /\ t = Driver /\ then = "freed"
<1>1. Init => Awake
  BY EngineAssumption DEF Init, Awake, Alone, Signalled
<1>2. IInv /\ Awake /\ [Next]_vars => Awake'
  <2> SUFFICES ASSUME IInv, Awake, [Next]_vars
               PROVE  Awake'
    OBVIOUS
  <2>1. TypeOK /\ Shape
    BY DEF IInv
  <2>2. CASE EngineThread
    BY <2>1, <2>2, AwakeEngine
  <2>3. CASE RunBlock \/ StartEnds \/ Callback
    BY <2>1, <2>3, AwakeGuest
  <2>4. CASE Method \/ (\E t \in Callers : Access(t))
    BY <2>1, <2>4, AwakeMethod
  <2>5. ASSUME NEW t \in Callers, Pump(t)
        PROVE  Awake'
    BY <2>1, <2>5, AwakePump
  <2>6. CASE UNCHANGED vars
    BY <2>6 DEF vars, pump, Awake, Alone, Signalled, Busy
  <2> QED
    BY <2>2, <2>3, <2>4, <2>5, <2>6 DEF Next
<1>3. IInv /\ Awake => Waits
  BY EngineAssumption DEF IInv, TypeOK, Awake, Alone, Signalled, Busy
<1> QED
  BY <1>1, <1>2, <1>3, Inductive, PTL DEF Spec
=============================================================================
