------------------------------- MODULE Threads -------------------------------
(***************************************************************************)
(* What the cooperative scheduler promises, without engine contexts, rounds *)
(* or slices: every guest thread keeps an execution point of its own, at    *)
(* most one thread executes at a time, a thread that waits on a futex is    *)
(* made ready by a wake on that very address and by nothing else, and the   *)
(* top-level ("main") thread goes on from where it was.  Scheduler.tla is   *)
(* shown to implement this module.                                          *)
(***************************************************************************)
EXTENDS Naturals

CONSTANTS
  Ids,        \* identifiers of guest threads (positive numbers)
  Points,     \* execution points inside one thread
  Addrs,      \* futex addresses
  NoPoint     \* stands for "nothing to go on from"

Main == 0

VARIABLES
  status,     \* status[t]: where thread t is in its life
  point,      \* point[t]: where thread t goes on from, Main included
  waits,      \* waits[t]: the address a blocked thread waits on
  kept        \* the main execution point a snapshot holds, or NoPoint

tvars == <<status, point, waits, kept>>

CPUState == [who : {Main} \cup Ids, at : Points]

Statuses == {"absent", "fresh", "ready", "blocked", "running", "done", "lost"}

Running(t) == status[t] = "running"

NobodyRuns == \A t \in Ids : ~Running(t)

ThreadsInit ==
  /\ status = [t \in Ids |-> "absent"]
  /\ point \in [{Main} \cup Ids -> CPUState \cup {NoPoint}]
  /\ \A t \in Ids : point[t] = NoPoint
  /\ point[Main] # NoPoint
  /\ waits = [t \in Ids |-> NoPoint]
  /\ kept = NoPoint

-----------------------------------------------------------------------------

\* The thread that owns the CPU: a running guest thread, or main.
Executor(t) == IF t = Main THEN NobodyRuns ELSE Running(t)

Move(t) == \E a \in Points : point' = [point EXCEPT ![t].at = a]

Execute(t) ==
  /\ Executor(t) /\ Move(t)
  /\ UNCHANGED <<status, waits, kept>>

Spawn(t, u) ==
  /\ Executor(t) /\ Move(t)
  /\ status[u] = "absent"
  /\ status' = [status EXCEPT ![u] = "fresh"]
  /\ UNCHANGED <<waits, kept>>

\* A wake readies all the threads blocked on the address, and no other.
Wake(t, a) ==
  /\ Executor(t) /\ Move(t)
  /\ LET woken == {u \in Ids : status[u] = "blocked" /\ waits[u] = a}
     IN /\ status' = [u \in Ids |-> IF u \in woken THEN "ready" ELSE status[u]]
        /\ waits' = [u \in Ids |-> IF u \in woken THEN NoPoint ELSE waits[u]]
  /\ UNCHANGED kept

\* A first dispatch enters the thread's routine; a later one goes on from the
\* very point the thread was suspended at.
Dispatch(t) ==
  /\ NobodyRuns
  /\ \/ /\ status[t] = "fresh"
        /\ \E a \in Points : point' = [point EXCEPT ![t] = [who |-> t, at |-> a]]
     \/ status[t] = "ready" /\ UNCHANGED point
  /\ status' = [status EXCEPT ![t] = "running"]
  /\ UNCHANGED <<waits, kept>>

Suspend(t) ==
  /\ Running(t)
  /\ \/ status' = [status EXCEPT ![t] = "ready"] /\ UNCHANGED waits
     \/ \E a \in Addrs : /\ status' = [status EXCEPT ![t] = "blocked"]
                         /\ waits' = [waits EXCEPT ![t] = a]
  /\ UNCHANGED <<point, kept>>

Finish(t) ==
  /\ Running(t)
  /\ status' = [status EXCEPT ![t] = "done"]
  /\ point' = [point EXCEPT ![t] = NoPoint]
  /\ UNCHANGED <<waits, kept>>

\* A thread whose context is given up never executes again.
Lose(t) ==
  /\ status[t] \in {"running", "ready"}
  /\ status' = [status EXCEPT ![t] = "lost"]
  /\ point' = [point EXCEPT ![t] = NoPoint]
  /\ UNCHANGED <<waits, kept>>

Forget ==
  /\ status' = [t \in Ids |-> "absent"]
  /\ waits' = [t \in Ids |-> NoPoint]

Keep == NobodyRuns /\ kept' = point[Main] /\ UNCHANGED <<status, point, waits>>

Discard == kept' = NoPoint /\ UNCHANGED <<status, point, waits>>

\* Restoring a snapshot rewinds main and forgets every thread.
Rewind ==
  /\ NobodyRuns /\ kept # NoPoint
  /\ point' = [t \in {Main} \cup Ids |-> IF t = Main THEN kept ELSE NoPoint]
  /\ Forget /\ UNCHANGED kept

Shutdown ==
  /\ NobodyRuns
  /\ point' = [t \in {Main} \cup Ids |-> IF t = Main THEN point[Main] ELSE NoPoint]
  /\ Forget /\ UNCHANGED kept

ThreadsNext ==
  \/ \E t \in {Main} \cup Ids :
       \/ Execute(t)
       \/ \E u \in Ids : Spawn(t, u)
       \/ \E a \in Addrs : Wake(t, a)
  \/ \E t \in Ids : Dispatch(t) \/ Suspend(t) \/ Finish(t) \/ Lose(t)
  \/ Keep \/ Discard \/ Rewind \/ Shutdown

ThreadsSpec == ThreadsInit /\ [][ThreadsNext]_tvars
=============================================================================
