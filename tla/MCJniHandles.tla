---------------------------- MODULE MCJniHandles -----------------------------
(* One class of the application below one of the framework, and the two the    *)
(* runtime knows.                                                              *)
EXTENDS JniHandles

CONSTANT App

MCSuper == [c \in Classes |-> IF c = App THEN Object ELSE Nil]
MCAccepted == {App} \X Names

\* The answers matter to the step that gives them only, contents to an array in use.
Arrays == ArraysIn(Cloned(objs)) \cup (IF snap = Nil THEN {} ELSE ArraysIn(snap.objs))
Reached == [r \in Arrays |-> payload[r]]

\* Natives, exceptions, pins, arrays, static fields, fields and a second member do
\* not read each other; what they have in common is the table and the snapshot.
\* So one of the seven at a time, and a snapshot that leaves room for two handles.
Written(o) == \E n \in Names : o.fields[n] # Nil
InUse == {x \in 1 .. 7 :
            CASE x = 1 -> natives # {}
              [] x = 2 -> pendingExc
              [] x = 3 -> pins # <<>>
              [] x = 4 -> Arrays # {}
              [] x = 5 -> statics # <<>>
              [] x = 6 -> Written(host) \/ \E r \in DOMAIN objs : Written(Deref(r))
              [] x = 7 -> Cardinality(DOMAIN members) > 1}
Apart == Cardinality(InUse) <= 1 /\ (snap = Nil \/ snap.nextRef < MaxRef)

MCView == <<table, host, Reached, classRefs, statics, pins, pendingExc, natives, ids, snap, taken>>
=============================================================================
