----------------------------- MODULE JniHandles ------------------------------
(***************************************************************************)
(* The Java the guest sees: the handle table of dvm.VM, and the JNIEnv      *)
(* functions of emulator/jni_dispatch.go that make handles, look through    *)
(* them, or keep them somewhere else (the class cache, static fields,       *)
(* array pins), over Snapshot and Restore.                                  *)
(*                                                                         *)
(* A Go object is part of the table entry, except `host`, the one the       *)
(* embedder's Jni handler keeps and may give back any number of times.  An  *)
(* array's contents are apart, under the handle it was made with: clone     *)
(* copies the object and not the array.  Arrays have one element.           *)
(***************************************************************************)
EXTENDS Integers, FiniteSets

CONSTANTS
  Classes,      \* class names
  Named,        \* those the guest and the handlers name
  Super,        \* class -> the superclass recorded by LoadDex, or Nil
  Object, Class,  \* java/lang/Object, java/lang/Class
  ClassFilter,  \* what FindClass finds
  Names,        \* name and signature of the members asked for
  Accepted,     \* natives that AcceptMethod accepts: a subset of Classes \X Names
  Bytes,        \* contents of a byte array
  Buffers,      \* addresses WriteScratch may return
  Depth,        \* how far isAssignable walks (64 in the code)
  MaxRef,       \* bound on handles
  MaxId,        \* bound on member IDs
  Host,         \* stands in the table for the host's object
  Nil

ASSUME BoundsAssumption == MaxRef \in Nat /\ MaxId \in Nat
ASSUME ClassesAssumption ==
  /\ {Object, Class} \cup Named \cup ClassFilter \subseteq Classes
  /\ Super \in [Classes -> Classes \cup {Nil}] /\ Accepted \subseteq Classes \X Names
  /\ Bytes # {}

VARIABLES
  objs,         \* VM.objs: handle -> object, or the host's
  host,         \* the host's object
  payload,      \* handle an array was made under -> its contents
  nextRef,
  classRefs, statics, pins, pendingExc, natives,
  interned,     \* Class.methods and fields: <<class, name>> -> ID
  members,      \* Emulator.methods and fields: ID -> <<class, name>>
  nextID,
  snap,
  ret,          \* the last call and its answer
  taken         \* the snapshot as it was taken

table == <<objs, nextRef>>
ids == <<interned, members, nextID>>
vars == <<table, host, payload, classRefs, statics, pins, pendingExc, natives, ids, snap, ret, taken>>

FirstRef == 1
Refs == FirstRef .. FirstRef + MaxRef - 1
Handles == Refs \cup {0}
Kinds == {"plain", "string", "class", "bytes", "refs"}
Obj == [class : Classes, kind : Kinds, of : Classes \cup {Nil},
        array : Refs \cup {Nil}, fields : [Names -> Handles \cup {Nil}]]

ASSUME DistinctAssumption == Nil \notin Obj \cup {Host} /\ Host \notin Obj

Plain(c) == [class |-> c, kind |-> "plain", of |-> Nil, array |-> Nil, fields |-> [n \in Names |-> Nil]]
Mirror(c) == [Plain(Class) EXCEPT !.kind = "class", !.of = c]
Text == [Plain(Object) EXCEPT !.kind = "string"]
ArrayAt(kind, r) == [Plain(Object) EXCEPT !.kind = kind, !.array = r]

Init ==
  /\ objs = <<>> /\ nextRef = FirstRef /\ host = Plain(Object) /\ payload = [r \in Refs |-> Nil]
  /\ classRefs = <<>> /\ statics = <<>> /\ pins = <<>> /\ pendingExc = FALSE /\ natives = {}
  /\ interned = <<>> /\ members = <<>> /\ nextID = 1
  /\ snap = Nil /\ taken = Nil /\ ret = <<"none", 0>>

-----------------------------------------------------------------------------
(* dvm.go.                                                                   *)

Extended(f, x, v) == [y \in DOMAIN f \cup {x} |-> IF y = x THEN v ELSE f[y]]

Deref(r) == IF r \notin DOMAIN objs THEN Nil ELSE IF objs[r] = Host THEN host ELSE objs[r]
derefClass(r) == IF Deref(r) # Nil /\ Deref(r).kind = "class" THEN Deref(r).of ELSE Nil

\* NewObject and Box.
Box(o) == objs' = Extended(objs, nextRef, o) /\ nextRef' = nextRef + 1
Room(n) == nextRef + n - 1 \in Refs

\* MethodID and FieldID: one counter for both, one entry per name and signature.
IdOf(c, n) == IF <<c, n>> \in DOMAIN interned THEN interned[<<c, n>>] ELSE nextID

\* The chain of superclasses, as far as isAssignable walks it.
Ancestors(c) ==
  LET up[i \in 0 .. Depth - 1] == IF i = 0 THEN c ELSE IF up[i - 1] = Nil THEN Nil ELSE Super[up[i - 1]]
  IN {up[i] : i \in 0 .. Depth - 1} \ {Nil}

isAssignable(sub, target) ==
  \/ sub = Nil \/ target = Nil \/ target = Object
  \/ target \in Ancestors(sub)
  \/ Super[sub] = Nil

superOf(c) == IF Super[c] # Nil THEN Super[c] ELSE IF c # Object THEN Object ELSE Nil

Answer(call, x) == ret' = <<call, x>>

-----------------------------------------------------------------------------
(* Class handles, and the functions that return one.                         *)

\* classRef: the cached handle, or a new one.
classRef(c) ==
  IF c \in DOMAIN classRefs THEN UNCHANGED <<table, classRefs>> /\ Answer("class", classRefs[c])
  ELSE /\ Room(1) /\ Box(Mirror(c)) /\ Answer("class", nextRef)
       /\ classRefs' = Extended(classRefs, c, nextRef)

NoClass == Answer("class", 0) /\ UNCHANGED <<table, classRefs>>

FindClass ==
  \E c \in Classes :
    /\ IF c \in ClassFilter THEN classRef(c) /\ pendingExc' = pendingExc
       ELSE NoClass /\ pendingExc' = TRUE
    /\ UNCHANGED <<host, payload, statics, pins, natives, ids, snap, taken>>

GetObjectClass ==
  \E r \in Handles :
    /\ IF Deref(r) # Nil THEN classRef(Deref(r).class) ELSE NoClass
    /\ UNCHANGED <<host, payload, statics, pins, pendingExc, natives, ids, snap, taken>>

GetSuperclass ==
  \E r \in Handles :
    /\ IF derefClass(r) # Nil /\ superOf(derefClass(r)) # Nil THEN classRef(superOf(derefClass(r)))
       ELSE NoClass
    /\ UNCHANGED <<host, payload, statics, pins, pendingExc, natives, ids, snap, taken>>

-----------------------------------------------------------------------------
(* Functions that make an object, or box one the Jni handler returned.       *)

Fresh == {Plain(c) : c \in Named}

\* A handler that returns nil makes NewObject box an empty instance and a call return 0.
CallMethod ==
  /\ \/ Answer("call", 0) /\ UNCHANGED table
     \/ /\ DOMAIN members # {} /\ Room(1)
        /\ \E o \in Fresh \cup {Host} : Box(o)
        /\ Answer("call", nextRef)
  /\ UNCHANGED <<host, payload, classRefs, statics, pins, pendingExc, natives, ids, snap, taken>>

NewObject ==
  \E r \in Handles :
    /\ IF derefClass(r) = Nil THEN Answer("new", 0) /\ UNCHANGED table
       ELSE Room(1) /\ Answer("new", nextRef) /\ \E o \in {Plain(derefClass(r)), Host} : Box(o)
    /\ UNCHANGED <<host, payload, classRefs, statics, pins, pendingExc, natives, ids, snap, taken>>

AllocObject ==
  \E r \in Handles :
    /\ IF derefClass(r) = Nil THEN Answer("new", 0) /\ UNCHANGED table
       ELSE Room(1) /\ Answer("new", nextRef) /\ Box(Plain(derefClass(r)))
    /\ UNCHANGED <<host, payload, classRefs, statics, pins, pendingExc, natives, ids, snap, taken>>

NewStringUTF ==
  /\ Room(1) /\ Box(Text) /\ Answer("new", nextRef)
  /\ UNCHANGED <<host, payload, classRefs, statics, pins, pendingExc, natives, ids, snap, taken>>

MakeArray(kind, contents) ==
  /\ Room(1) /\ Box(ArrayAt(kind, nextRef)) /\ Answer("new", nextRef)
  /\ payload' = [payload EXCEPT ![nextRef] = contents]
  /\ UNCHANGED <<host, classRefs, statics, pins, pendingExc, natives, ids, snap, taken>>

NewByteArray == MakeArray("bytes", CHOOSE b \in Bytes : TRUE)

\* The guest fills the array with any handle it has been given.
NewObjectArray == \E init \in DOMAIN objs \cup {0} : MakeArray("refs", init)

-----------------------------------------------------------------------------
(* Arrays.                                                                   *)

ArrayOf(r, kind) == IF Deref(r) # Nil /\ Deref(r).kind = kind THEN Deref(r).array ELSE Nil

Stored(r, kind, v) ==
  payload' = IF ArrayOf(r, kind) = Nil THEN payload ELSE [payload EXCEPT ![ArrayOf(r, kind)] = v]

SetObjectArrayElement ==
  \E r \in DOMAIN objs, v \in DOMAIN objs \cup {0} :
    /\ Stored(r, "refs", v) /\ Answer("void", 0)
    /\ UNCHANGED <<table, host, classRefs, statics, pins, pendingExc, natives, ids, snap, taken>>

SetByteArrayRegion ==
  \E r \in DOMAIN objs, b \in Bytes :
    /\ Stored(r, "bytes", b) /\ Answer("void", 0)
    /\ UNCHANGED <<table, host, classRefs, statics, pins, pendingExc, natives, ids, snap, taken>>

\* GetByteArrayElements and GetPrimitiveArrayCritical: whatever the handle is.
GetElements ==
  \E r \in DOMAIN objs, p \in Buffers \ DOMAIN pins :
    /\ pins' = Extended(pins, p, r) /\ Answer("elements", p)
    /\ UNCHANGED <<table, host, payload, classRefs, statics, pendingExc, natives, ids, snap, taken>>

\* The guest wrote b to the buffer; with JNI_ABORT, or when the buffer is gone,
\* nothing is copied (b = Nil).  JNI_COMMIT copies, and forgets the pin, like mode 0.
ReleaseElements ==
  \E r \in DOMAIN objs, p \in Buffers, b \in Bytes \cup {Nil} :
    /\ IF b # Nil THEN Stored(r, "bytes", b) ELSE payload' = payload
    /\ pins' = [q \in DOMAIN pins \ {p} |-> pins[q]]
    /\ Answer("void", 0)
    /\ UNCHANGED <<table, host, classRefs, statics, pendingExc, natives, ids, snap, taken>>

-----------------------------------------------------------------------------
(* Members and fields.                                                       *)

GetMemberID ==
  \E r \in DOMAIN objs, n \in Names :
    LET c == derefClass(r) IN
    /\ IF c = Nil THEN UNCHANGED ids /\ Answer("id", 0)
       ELSE /\ IdOf(c, n) <= MaxId
            /\ interned' = Extended(interned, <<c, n>>, IdOf(c, n))
            /\ members' = Extended(members, IdOf(c, n), <<c, n>>)
            /\ nextID' = IF <<c, n>> \in DOMAIN interned THEN nextID ELSE nextID + 1
            /\ Answer("id", IdOf(c, n))
    /\ UNCHANGED <<table, host, payload, classRefs, statics, pins, pendingExc, natives, snap, taken>>

\* What the object at r becomes; a clone has a field map of its own.
SharedWithClone(r, n, v) ==
  /\ objs' = [objs EXCEPT ![r] = IF @ = Host THEN @ ELSE [@ EXCEPT !.fields[n] = v]]
  /\ host' = IF objs[r] = Host THEN [host EXCEPT !.fields[n] = v] ELSE host
  /\ snap' = IF snap = Nil \/ r \notin DOMAIN snap.objs THEN snap
             ELSE [snap EXCEPT !.objs[r].fields[n] = v]

WithField(r, n, v) ==
  /\ objs' = [objs EXCEPT ![r] = IF @ = Host THEN @ ELSE [@ EXCEPT !.fields[n] = v]]
  /\ host' = IF objs[r] = Host THEN [host EXCEPT !.fields[n] = v] ELSE host
  /\ snap' = snap

SetField ==
  \E r \in DOMAIN objs, id \in DOMAIN members, v \in DOMAIN objs \cup {0} :
    /\ WithField(r, members[id][2], v) /\ Answer("void", 0)
    /\ UNCHANGED <<nextRef, payload, classRefs, statics, pins, pendingExc, natives, ids, taken>>

\* What the guest wrote, or what the Jni handler says, boxed.
GetField ==
  \E r \in DOMAIN objs, id \in DOMAIN members :
    LET v == Deref(r).fields[members[id][2]] IN
    /\ \/ v # Nil /\ Answer("field", v) /\ UNCHANGED table
       \/ v = Nil /\ Answer("field", 0) /\ UNCHANGED table
       \/ /\ v = Nil /\ Room(1) /\ Answer("field", nextRef)
          /\ \E o \in Fresh \cup {Host} : Box(o)
    /\ UNCHANGED <<host, payload, classRefs, statics, pins, pendingExc, natives, ids, snap, taken>>

SetStaticField ==
  \E id \in DOMAIN members, v \in DOMAIN objs \cup {0} :
    /\ statics' = Extended(statics, members[id], v) /\ Answer("void", 0)
    /\ UNCHANGED <<table, host, payload, classRefs, pins, pendingExc, natives, ids, snap, taken>>

GetStaticField ==
  \E id \in DOMAIN members :
    /\ IF members[id] \in DOMAIN statics THEN Answer("field", statics[members[id]]) /\ UNCHANGED table
       ELSE \/ Answer("field", 0) /\ UNCHANGED table
            \/ Room(1) /\ Answer("field", nextRef) /\ \E o \in Fresh \cup {Host} : Box(o)
    /\ UNCHANGED <<host, payload, classRefs, statics, pins, pendingExc, natives, ids, snap, taken>>

-----------------------------------------------------------------------------
(* Functions that only answer.                                               *)

same(a, b) == a = b \/ (Deref(a) # Nil /\ Deref(b) # Nil /\
                        (objs[a] = Host /\ objs[b] = Host))

Contents(r, kind, none) == IF ArrayOf(r, kind) = Nil THEN none ELSE payload[ArrayOf(r, kind)]

Query ==
  /\ \/ \E r, t \in DOMAIN objs \cup {0} :
          \/ Answer("IsSameObject", same(r, t))
          \/ Answer("IsAssignableFrom", isAssignable(derefClass(r), derefClass(t)))
          \/ Answer("IsInstanceOf", Deref(r) = Nil \/ isAssignable(Deref(r).class, derefClass(t)))
     \/ \E r \in DOMAIN objs \cup {0} :
          \/ Answer("GetObjectArrayElement", Contents(r, "refs", 0))
          \/ Answer("GetByteArrayRegion", Contents(r, "bytes", Nil))
          \/ Answer("ref", r)       \* NewGlobalRef, NewLocalRef, PopLocalFrame
     \/ Answer("ExceptionCheck", pendingExc)
  /\ UNCHANGED <<table, host, payload, classRefs, statics, pins, pendingExc, natives, ids, snap, taken>>

Throw ==
  /\ pendingExc' = TRUE /\ Answer("void", 0)
  /\ UNCHANGED <<table, host, payload, classRefs, statics, pins, natives, ids, snap, taken>>

ExceptionClear ==
  /\ pendingExc' = FALSE /\ Answer("void", 0)
  /\ UNCHANGED <<table, host, payload, classRefs, statics, pins, natives, ids, snap, taken>>

-----------------------------------------------------------------------------
(* Natives, and the calls the host makes.                                    *)

\* An entry for a class that is none goes under a name no call uses.
RegisterNatives ==
  \E r \in DOMAIN objs, n \in Names :
    LET c == derefClass(r) IN
    /\ natives' = IF c # Nil /\ <<c, n>> \in Accepted THEN natives \cup {<<c, n>>} ELSE natives
    /\ Answer("void", 0)
    /\ UNCHANGED <<table, host, payload, classRefs, statics, pins, pendingExc, ids, snap, taken>>

\* The class handle is made first, and stays when the native turns out unknown.
CallNativeStatic ==
  \E c \in Named, n \in Names, o \in Fresh \cup {Host, Nil} :
    LET known == c \in DOMAIN classRefs
        at == IF known THEN nextRef ELSE nextRef + 1
        withClass == IF known THEN objs ELSE Extended(objs, nextRef, Mirror(c))
        boxed == <<c, n>> \in natives /\ o # Nil
    IN /\ Room(2)
       /\ classRefs' = IF known THEN classRefs ELSE Extended(classRefs, c, nextRef)
       /\ objs' = IF boxed THEN Extended(withClass, at, o) ELSE withClass
       /\ nextRef' = IF boxed THEN at + 1 ELSE at
       /\ Answer("native", <<c, n>> \in natives)
       /\ UNCHANGED <<host, payload, statics, pins, pendingExc, natives, ids, snap, taken>>

Cloned(t) == [r \in DOMAIN t |-> IF t[r] = Host THEN host ELSE t[r]]

ArraysIn(t) == {t[r].array : r \in DOMAIN t} \ {Nil}

State == [objs |-> Cloned(objs), nextRef |-> nextRef, classRefs |-> classRefs, statics |-> statics]

Snapshot ==
  /\ snap = Nil
  /\ snap' = State /\ Answer("Snapshot", 0)
  /\ taken' = [table |-> State, payload |-> [r \in ArraysIn(Cloned(objs)) |-> payload[r]]]
  /\ UNCHANGED <<table, host, payload, classRefs, statics, pins, pendingExc, natives, ids>>

RestoreZeroesCounter ==
  /\ snap # Nil
  /\ objs' = snap.objs /\ nextRef' = 0
  /\ classRefs' = snap.classRefs /\ statics' = snap.statics
  /\ pins' = <<>> /\ pendingExc' = FALSE /\ Answer("Restore", 0)
  /\ UNCHANGED <<host, payload, natives, ids, snap, taken>>

RestoreKeepsStatics ==
  /\ snap # Nil
  /\ objs' = snap.objs /\ nextRef' = snap.nextRef
  /\ classRefs' = snap.classRefs /\ statics' = statics
  /\ pins' = <<>> /\ pendingExc' = FALSE /\ Answer("Restore", 0)
  /\ UNCHANGED <<host, payload, natives, ids, snap, taken>>

RestoreResetsIds ==
  /\ snap # Nil
  /\ objs' = snap.objs /\ nextRef' = snap.nextRef
  /\ classRefs' = snap.classRefs /\ statics' = snap.statics
  /\ pins' = <<>> /\ pendingExc' = FALSE /\ nextID' = 1 /\ Answer("Restore", 0)
  /\ UNCHANGED <<host, payload, natives, interned, members, snap, taken>>

Restore ==
  /\ snap # Nil
  /\ objs' = snap.objs /\ nextRef' = snap.nextRef
  /\ classRefs' = snap.classRefs /\ statics' = snap.statics
  /\ pins' = <<>> /\ pendingExc' = FALSE /\ Answer("Restore", 0)
  /\ UNCHANGED <<host, payload, natives, ids, snap, taken>>

Next ==
  \/ FindClass \/ GetObjectClass \/ GetSuperclass
  \/ CallMethod \/ NewObject \/ AllocObject \/ NewStringUTF \/ NewByteArray \/ NewObjectArray
  \/ SetObjectArrayElement \/ SetByteArrayRegion \/ GetElements \/ ReleaseElements
  \/ GetMemberID \/ SetField \/ GetField \/ SetStaticField \/ GetStaticField
  \/ Query \/ Throw \/ ExceptionClear
  \/ RegisterNatives \/ CallNativeStatic \/ Snapshot \/ Restore

Spec == Init /\ [][Next]_vars

-----------------------------------------------------------------------------
(* Every variable has its type.                                             *)
TypeOK ==
  /\ DOMAIN objs \subseteq Refs /\ nextRef \in FirstRef .. FirstRef + MaxRef
  /\ \A r \in DOMAIN objs : objs[r] \in Obj \cup {Host}
  /\ host \in Obj /\ payload \in [Refs -> Bytes \cup Handles \cup {Nil}]
  /\ DOMAIN classRefs \subseteq Classes
  /\ DOMAIN statics \subseteq Classes \X Names /\ natives \subseteq Accepted
  /\ DOMAIN pins \subseteq Buffers /\ pendingExc \in BOOLEAN /\ nextID \in 1 .. MaxId + 1
  /\ snap = Nil \/ \A r \in DOMAIN snap.objs : snap.objs[r] \in Obj

(* A handle the emulator itself keeps for the guest, in the class cache, in a  *)
(* static field, in a field of an object of the table, or as a pin, is in the  *)
(* table, and a cached one is the mirror of its class: rewinding the counter   *)
(* leaves nothing behind that a later object would answer for                  *)
(* (Snapshot.classRefs and statics).  Object arrays and the host's own object   *)
(* are not the emulator's to rewind.                                          *)
HandlesResolve ==
  /\ \A c \in DOMAIN classRefs : derefClass(classRefs[c]) = c
  /\ \A k \in DOMAIN statics : statics[k] \in DOMAIN objs \cup {0}
  /\ \A p \in DOMAIN pins : pins[p] \in DOMAIN objs
  /\ \A r \in {q \in DOMAIN objs : objs[q] # Host} : \A n \in Names :
       objs[r].fields[n] \in DOMAIN objs \cup {0, Nil}

(* No handle and no member ID is given out twice: the table holds the handles  *)
(* below the next one and no other, so that the next object displaces none,    *)
(* and an ID the guest keeps over a rewind, which VM.Restore leaves alone,      *)
(* still names the one member it asked for.                                    *)
NoReuse ==
  /\ DOMAIN objs = FirstRef .. nextRef - 1
  /\ \A j, k \in DOMAIN interned : interned[j] = interned[k] => j = k
  /\ \A k \in DOMAIN interned : members[interned[k]] = k

(* After Restore every handle is the object it was when the snapshot was      *)
(* taken, fields included, however often the guest wrote to it since, and the *)
(* counter, the class cache and the static fields are as they were.           *)
RestoreRewinds ==
  [][ret'[1] = "Restore" =>
       [objs |-> objs, nextRef |-> nextRef, classRefs |-> classRefs, statics |-> statics]'
         = taken.table]_vars

(* Each reused call starts from the state a freshly booted process has: the   *)
(* arrays behind the handles hold what they held when the snapshot was taken. *)
PristineArrays ==
  [][ret'[1] = "Restore" => \A r \in DOMAIN taken.payload : payload'[r] = taken.payload[r]]_vars
=============================================================================
