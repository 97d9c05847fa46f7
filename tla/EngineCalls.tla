---------------------------- MODULE EngineCalls ------------------------------
(***************************************************************************)
(* What the callers of a CPU engine count on (emu.Backend): a call takes    *)
(* effect once, between its invocation and its return, and answers for that *)
(* effect.  Calls take effect one at a time.  A Start has the engine to     *)
(* itself from its beginning to its end: meanwhile only the guest, and the  *)
(* hook callbacks it runs, act.                                             *)
(***************************************************************************)
CONSTANTS
  Callers,   \* threads that call the engine
  Nobody, None,
  Vals,      \* states of the machine (registers and memory)
  Commands,  \* what a caller may ask for: [op, arg]
  Answers    \* what it may be told

VARIABLES state, running, asked, answer
callVars == <<state, running, asked, answer>>

Init ==
  /\ state \in Vals /\ running = Nobody
  /\ asked = [t \in Callers |-> None] /\ answer = [t \in Callers |-> None]

Invoke(t) ==
  /\ asked[t] = None
  /\ \E c \in Commands : asked' = [asked EXCEPT ![t] = c]
  /\ UNCHANGED <<state, running, answer>>

(* "get" reads the machine, "put" writes it; of the other commands only the   *)
(* answer matters here.                                                       *)
Execute(t) ==
  /\ asked[t] # None /\ asked[t].op # "start" /\ answer[t] = None /\ running = Nobody
  /\ state' = IF asked[t].op = "put" THEN asked[t].arg ELSE state
  /\ \E a \in IF asked[t].op = "get" THEN {state} ELSE Answers :
       answer' = [answer EXCEPT ![t] = a]
  /\ UNCHANGED <<running, asked>>

Begin(t) ==
  /\ asked[t] # None /\ asked[t].op = "start" /\ answer[t] = None /\ running = Nobody
  /\ running' = t /\ UNCHANGED <<state, asked, answer>>

Inside ==
  /\ running # Nobody /\ state' \in Vals
  /\ UNCHANGED <<running, asked, answer>>

End(t) ==
  /\ running = t /\ running' = Nobody
  /\ \E a \in Answers : answer' = [answer EXCEPT ![t] = a]
  /\ UNCHANGED <<state, asked>>

Return(t) ==
  /\ answer[t] # None
  /\ asked' = [asked EXCEPT ![t] = None] /\ answer' = [answer EXCEPT ![t] = None]
  /\ UNCHANGED <<state, running>>

Next ==
  \/ Inside
  \/ \E t \in Callers : Invoke(t) \/ Execute(t) \/ Begin(t) \/ End(t) \/ Return(t)

Spec == Init /\ [][Next]_callVars
=============================================================================
