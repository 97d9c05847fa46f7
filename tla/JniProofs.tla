------------------------------ MODULE JniProofs -------------------------------
(***************************************************************************)
(* The handle table, the class cache, the static fields and the member IDs, *)
(* over Snapshot and Restore, for any number of handles, classes, members,  *)
(* buffers and contents.                                                    *)
(*                                                                         *)
(* A table is whole when it holds the handles below its counter, and what   *)
(* it and the class cache and the static fields refer to.  Both the table   *)
(* in use (Live) and the one in the snapshot (Saved) are.  The snapshot     *)
(* holds a copy of the host's object, so it is whole only because the       *)
(* host's own fields refer to the table until the first snapshot (Hosted).  *)
(***************************************************************************)
EXTENDS JniHandles, TLAPS

(* A table with the class cache and the static fields that go with it.        *)
Refers(o, x) == x # Host => \A n \in Names : x.fields[n] \in DOMAIN o \cup {0, Nil}
Whole(o, next, cached, fields) ==
  /\ next \in FirstRef .. FirstRef + MaxRef /\ DOMAIN o = FirstRef .. next - 1
  /\ o \in [DOMAIN o -> Obj \cup {Host}]
  /\ \A r \in DOMAIN o : Refers(o, o[r])
  /\ DOMAIN cached \subseteq Classes
  /\ \A c \in DOMAIN cached : /\ cached[c] \in DOMAIN o /\ o[cached[c]] # Host
                              /\ o[cached[c]].kind = "class" /\ o[cached[c]].of = c
  /\ DOMAIN fields \subseteq Classes \X Names
  /\ \A k \in DOMAIN fields : fields[k] \in DOMAIN o \cup {0}

Live == Whole(objs, nextRef, classRefs, statics)

Hosted ==
  /\ host \in Obj /\ host.kind = "plain"
  /\ snap = Nil => Refers(objs, host)

Saved ==
  snap # Nil =>
    /\ snap = taken.table
    /\ snap = [objs |-> snap.objs, nextRef |-> snap.nextRef, classRefs |-> snap.classRefs, statics |-> snap.statics]
    /\ Whole(snap.objs, snap.nextRef, snap.classRefs, snap.statics)
    /\ \A r \in DOMAIN snap.objs : snap.objs[r] \in Obj

(* Members are numbered one after the other, and interned by what they are.   *)
Numbered ==
  /\ nextID \in 1 .. MaxId + 1
  /\ DOMAIN members = 1 .. nextID - 1
  /\ \A id \in DOMAIN members : members[id] \in Classes \X Names
  /\ \A k \in DOMAIN interned : interned[k] \in DOMAIN members /\ members[interned[k]] = k

Pinned == DOMAIN pins \subseteq Buffers /\ \A p \in DOMAIN pins : pins[p] \in DOMAIN objs
Rest ==
  /\ payload \in [Refs -> Bytes \cup Handles \cup {Nil}]
  /\ pendingExc \in BOOLEAN /\ natives \subseteq Accepted

IInv == Live /\ Hosted /\ Saved /\ Numbered /\ Pinned /\ Rest

-----------------------------------------------------------------------------
(* Objects and tables.                                                       *)

(* What is boxed: an object that refers to nothing yet, or the host's.        *)
New == {x \in Obj \cup {Host} : x # Host => \A n \in Names : x.fields[n] = Nil}

LEMMA ObjectsNew ==
  /\ \A c \in Classes : Plain(c) \in New \cap Obj
  /\ \A c \in Classes : Mirror(c) \in New \cap Obj /\ Mirror(c).kind = "class" /\ Mirror(c).of = c
  /\ Text \in New /\ Host \in New
  /\ \A r \in Refs : ArrayAt("bytes", r) \in New /\ ArrayAt("refs", r) \in New
<1>1. \A c \in Classes : Plain(c) \in Obj /\ \A n \in Names : Plain(c).fields[n] = Nil
  BY DEF Plain, Obj, Kinds
<1>2. Object \in Classes /\ Class \in Classes
  BY ClassesAssumption
<1>3. \A c \in Classes : /\ Mirror(c) \in Obj /\ Mirror(c).kind = "class" /\ Mirror(c).of = c
                        /\ \A n \in Names : Mirror(c).fields[n] = Nil
  BY <1>2 DEF Mirror, Plain, Obj, Kinds
<1>4. Text \in Obj /\ \A n \in Names : Text.fields[n] = Nil
  BY <1>2 DEF Text, Plain, Obj, Kinds
<1>5. \A r \in Refs : /\ ArrayAt("bytes", r) \in Obj /\ \A n \in Names : ArrayAt("bytes", r).fields[n] = Nil
                     /\ ArrayAt("refs", r) \in Obj /\ \A n \in Names : ArrayAt("refs", r).fields[n] = Nil
  BY <1>2 DEF ArrayAt, Plain, Obj, Kinds
<1> QED
  BY <1>1, <1>3, <1>4, <1>5 DEF New

LEMMA FreshNew == \A x \in Fresh \cup {Host} : x \in New
BY ObjectsNew, ClassesAssumption DEF Fresh

LEMMA Extends ==
  ASSUME NEW f, NEW x, NEW v
  PROVE  /\ DOMAIN Extended(f, x, v) = DOMAIN f \cup {x} /\ Extended(f, x, v)[x] = v
         /\ \A y \in DOMAIN f : y # x => Extended(f, x, v)[y] = f[y]
BY DEF Extended

(* The next object goes above the others and displaces none.                  *)
LEMMA Grows ==
  ASSUME NEW o, NEW next \in Refs, NEW cached, NEW fields, Whole(o, next, cached, fields), NEW x \in New
  PROVE  /\ Whole(Extended(o, next, x), next + 1, cached, fields)
         /\ DOMAIN o \subseteq DOMAIN Extended(o, next, x) /\ next \notin DOMAIN o
<1> DEFINE p == Extended(o, next, x)
<1>1. next \in Nat /\ next >= 1 /\ next + 1 \in FirstRef .. FirstRef + MaxRef /\ DOMAIN o = FirstRef .. next - 1
  BY BoundsAssumption DEF Refs, FirstRef, Whole
<1>2. DOMAIN p = FirstRef .. next + 1 - 1 /\ next \notin DOMAIN o /\ DOMAIN o \subseteq DOMAIN p
  <2>1. DOMAIN p = DOMAIN o \cup {next}
    BY DEF Extended
  <2>2. (1 .. next - 1) \cup {next} = 1 .. next /\ next + 1 - 1 = next /\ next \notin 1 .. next - 1
    BY <1>1
  <2> HIDE DEF p
  <2> QED
    BY <1>1, <2>1, <2>2 DEF FirstRef
<1>3. /\ p[next] = x /\ \A r \in DOMAIN o : p[r] = o[r]
      /\ p \in [DOMAIN p -> Obj \cup {Host}] /\ \A r \in DOMAIN p : r \in DOMAIN o \/ r = next
  BY <1>2, Extends DEF Whole, New, Extended
<1> HIDE DEF p
<1>4. \A r \in DOMAIN p : Refers(p, p[r])
  BY <1>2, <1>3 DEF Whole, Refers, New
<1> QED
  BY <1>1, <1>2, <1>3, <1>4 DEF Whole, p

LEMMA CachesClass ==
  ASSUME NEW o, NEW next \in Refs, NEW cached, NEW fields, Whole(o, next, cached, fields), NEW c \in Classes
  PROVE  Whole(Extended(o, next, Mirror(c)), next + 1, Extended(cached, c, next), fields)
<1> DEFINE p == Extended(o, next, Mirror(c))
<1>1. Whole(p, next + 1, cached, fields) /\ DOMAIN o \subseteq DOMAIN p /\ next \notin DOMAIN o
  BY Grows, ObjectsNew
<1>2. next \in DOMAIN p /\ p[next] = Mirror(c) /\ Mirror(c) # Host
  <2>1. next \in DOMAIN p /\ p[next] = Mirror(c)
    BY DEF Extended
  <2>2. Mirror(c) # Host
    BY ObjectsNew, DistinctAssumption
  <2> QED
    BY <2>1, <2>2
<1> HIDE DEF p
<1>3. /\ DOMAIN Extended(cached, c, next) \subseteq Classes
      /\ \A d \in DOMAIN Extended(cached, c, next) :
           Extended(cached, c, next)[d] = IF d = c THEN next ELSE cached[d]
      /\ \A d \in DOMAIN Extended(cached, c, next) : d # c => d \in DOMAIN cached
  BY <1>1 DEF Whole, Extended
<1>4. \A d \in DOMAIN Extended(cached, c, next) :
        /\ Extended(cached, c, next)[d] \in DOMAIN p /\ p[Extended(cached, c, next)[d]] # Host
        /\ p[Extended(cached, c, next)[d]].kind = "class" /\ p[Extended(cached, c, next)[d]].of = d
  BY <1>1, <1>2, <1>3, ObjectsNew DEF Whole
<1> QED
  BY <1>1, <1>3, <1>4 DEF Whole, p

LEMMA DerefTyped ==
  ASSUME Live, Hosted, NEW r
  PROVE  /\ Deref(r) \in Obj \cup {Nil}
         /\ derefClass(r) \in Classes \cup {Nil}
         /\ Deref(r) # Nil => Deref(r).class \in Classes
<1>1. Deref(r) \in Obj \cup {Nil}
  BY DEF Deref, Live, Whole, Hosted
<1> QED
  BY <1>1 DEF derefClass, Obj

LEMMA HandlesTyped == Live => DOMAIN objs \subseteq Refs
<1> SUFFICES ASSUME Live PROVE DOMAIN objs \subseteq Refs
  OBVIOUS
<1> QED
  BY BoundsAssumption DEF Live, Whole, Refs, FirstRef

-----------------------------------------------------------------------------
(* Steps that box an object, or leave the table as it is.                    *)

Others == <<host, statics, pins, ids, snap, taken>>

LEMMA InitInv == Init => IInv
<1> SUFFICES ASSUME Init PROVE IInv
  OBVIOUS
<1>1. Live
  BY BoundsAssumption DEF Init, Live, Whole, FirstRef
<1>2. Hosted
  BY ObjectsNew, ClassesAssumption DEF Init, Hosted, Refers, New, Plain
<1>3. Saved /\ Pinned
  BY DEF Init, Saved, Pinned
<1>4. Numbered
  BY BoundsAssumption DEF Init, Numbered
<1>5. Rest
  BY DEF Init, Rest
<1> QED
  BY <1>1, <1>2, <1>3, <1>4, <1>5 DEF IInv

LEMMA TableKept ==
  ASSUME IInv, UNCHANGED <<table, classRefs, Others>>, Rest'
  PROVE  IInv'
BY DEF IInv, Live, Hosted, Saved, Numbered, Pinned, Refers, table, ids, Others

LEMMA TableGrows ==
  ASSUME IInv, UNCHANGED Others, Rest', Live', DOMAIN objs \subseteq DOMAIN objs'
  PROVE  IInv'
<1>1. Hosted' /\ Saved'
  BY DEF IInv, Hosted, Saved, Refers, Others
<1>2. Numbered' /\ Pinned'
  BY DEF IInv, Numbered, Pinned, Others, ids
<1> QED
  BY <1>1, <1>2 DEF IInv

LEMMA Boxes ==
  ASSUME IInv, NEW x \in New, Room(1), Box(x), UNCHANGED <<classRefs, Others>>, Rest'
  PROVE  IInv'
<1>1. nextRef \in Refs
  BY DEF IInv, Live, Whole, Room, FirstRef
<1>2. Whole(objs, nextRef, classRefs, statics)
  BY DEF IInv, Live
<1>3. Whole(objs', nextRef', classRefs', statics') /\ DOMAIN objs \subseteq DOMAIN objs'
  BY <1>1, <1>2, Grows DEF Box, Others
<1> QED
  BY <1>3, TableGrows DEF Live

LEMMA ClassRefs ==
  ASSUME IInv, NEW c \in Classes, classRef(c) \/ NoClass, UNCHANGED Others, Rest'
  PROVE  IInv'
<1>1. CASE UNCHANGED <<table, classRefs>>
  BY <1>1, TableKept
<1>2. CASE Room(1) /\ Box(Mirror(c)) /\ classRefs' = Extended(classRefs, c, nextRef)
  <2>1. nextRef \in Refs
    BY <1>2 DEF IInv, Live, Whole, Room, FirstRef
  <2>2. Whole(objs, nextRef, classRefs, statics)
    BY DEF IInv, Live
  <2>3. Whole(objs', nextRef', classRefs', statics')
    BY <1>2, <2>1, <2>2, CachesClass DEF Box, Others
  <2>4. DOMAIN objs \subseteq DOMAIN objs'
    BY <1>2 DEF Box, Extended
  <2> QED
    BY <2>3, <2>4, TableGrows DEF Live
<1> QED
  BY <1>1, <1>2 DEF classRef, NoClass

-----------------------------------------------------------------------------
(* One lemma per function, or for the functions that change the same state.  *)

LEMMA ClassFunctions ==
  ASSUME IInv, FindClass \/ GetObjectClass \/ GetSuperclass
  PROVE  IInv'
<1> USE DEF Others
<1>1. CASE FindClass
  <2>1. PICK c \in Classes : /\ classRef(c) \/ NoClass
                            /\ pendingExc' \in {pendingExc, TRUE}
                            /\ UNCHANGED <<host, payload, statics, pins, natives, ids, snap, taken>>
    BY <1>1 DEF FindClass
  <2> QED
    BY <2>1, ClassRefs DEF IInv, Rest
<1>2. CASE GetObjectClass
  <2>1. PICK r \in Handles : /\ IF Deref(r) # Nil THEN classRef(Deref(r).class) ELSE NoClass
                            /\ UNCHANGED <<host, payload, statics, pins, pendingExc, natives, ids, snap, taken>>
    BY <1>2 DEF GetObjectClass
  <2>2. Rest'
    BY <2>1 DEF IInv, Rest
  <2>3. CASE Deref(r) # Nil
    <3>1. PICK c \in Classes : c = Deref(r).class
      BY <2>3, DerefTyped DEF IInv
    <3> QED
      BY <2>1, <2>2, <2>3, <3>1, ClassRefs
  <2>4. CASE Deref(r) = Nil
    BY <2>1, <2>2, <2>4, TableKept DEF NoClass
  <2> QED
    BY <2>3, <2>4
<1>3. CASE GetSuperclass
  <2>1. PICK r \in Handles :
          /\ IF derefClass(r) # Nil /\ superOf(derefClass(r)) # Nil THEN classRef(superOf(derefClass(r))) ELSE NoClass
          /\ UNCHANGED <<host, payload, statics, pins, pendingExc, natives, ids, snap, taken>>
    BY <1>3 DEF GetSuperclass
  <2>2. Rest'
    BY <2>1 DEF IInv, Rest
  <2>3. CASE derefClass(r) # Nil /\ superOf(derefClass(r)) # Nil
    <3>1. derefClass(r) \in Classes
      BY <2>3, DerefTyped DEF IInv
    <3>2. superOf(derefClass(r)) \in Classes
      BY <2>3, <3>1, ClassesAssumption DEF superOf
    <3>3. PICK c \in Classes : c = superOf(derefClass(r))
      BY <3>2
    <3> QED
      BY <2>1, <2>2, <2>3, <3>3, ClassRefs
  <2>4. CASE ~(derefClass(r) # Nil /\ superOf(derefClass(r)) # Nil)
    BY <2>1, <2>2, <2>4, TableKept DEF NoClass
  <2> QED
    BY <2>3, <2>4
<1> QED
  BY <1>1, <1>2, <1>3

LEMMA Constructors ==
  ASSUME IInv, CallMethod \/ NewObject \/ AllocObject \/ NewStringUTF \/ NewByteArray \/ NewObjectArray
  PROVE  IInv'
<1> USE DEF Others
<1>1. CASE CallMethod
  <2>1. Rest' /\ UNCHANGED <<classRefs, Others>>
    BY <1>1 DEF CallMethod, IInv, Rest
  <2>2. UNCHANGED table \/ (Room(1) /\ \E x \in Fresh \cup {Host} : Box(x))
    BY <1>1 DEF CallMethod
  <2> QED
    BY <2>1, <2>2, TableKept, Boxes, FreshNew
<1>2. CASE NewObject \/ AllocObject
  <2>1. Rest' /\ UNCHANGED <<classRefs, Others>>
    BY <1>2 DEF NewObject, AllocObject, IInv, Rest
  <2>2. PICK r \in Handles :
          UNCHANGED table \/ (derefClass(r) # Nil /\ Room(1) /\ \E x \in {Plain(derefClass(r)), Host} : Box(x))
    BY <1>2 DEF NewObject, AllocObject
  <2>3. derefClass(r) # Nil => Plain(derefClass(r)) \in New /\ Host \in New
    BY DerefTyped, ObjectsNew DEF IInv
  <2> QED
    BY <2>1, <2>2, <2>3, TableKept, Boxes
<1>3. CASE NewStringUTF
  BY <1>3, ObjectsNew, Boxes DEF NewStringUTF, IInv, Rest
<1>4. ASSUME NEW kind \in {"bytes", "refs"}, NEW v \in Bytes \cup Handles, MakeArray(kind, v) PROVE IInv'
  <2>1. nextRef \in Refs
    BY <1>4 DEF MakeArray, Room, IInv, Live, Whole, FirstRef
  <2>2. Rest'
    BY <1>4 DEF MakeArray, IInv, Rest
  <2>3. PICK x \in New : x = ArrayAt(kind, nextRef)
    BY <2>1, ObjectsNew
  <2> QED
    BY <1>4, <2>2, <2>3, Boxes DEF MakeArray
<1>5. CASE NewByteArray
  <2>1. (CHOOSE b \in Bytes : TRUE) \in Bytes
    BY ClassesAssumption
  <2> QED
    BY <1>4, <1>5, <2>1 DEF NewByteArray
<1>6. CASE NewObjectArray
  BY <1>4, <1>6, HandlesTyped DEF NewObjectArray, IInv, Handles
<1> QED
  BY <1>1, <1>2, <1>3, <1>5, <1>6

LEMMA ArrayFunctions ==
  ASSUME IInv, SetObjectArrayElement \/ SetByteArrayRegion \/ GetElements \/ ReleaseElements
  PROVE  IInv'
<1>1. ASSUME NEW r, NEW kind, NEW v \in Bytes \cup Handles, Stored(r, kind, v)
      PROVE  payload' \in [Refs -> Bytes \cup Handles \cup {Nil}]
  BY <1>1 DEF Stored, IInv, Rest
<1>2. CASE SetObjectArrayElement
  <2>1. payload' \in [Refs -> Bytes \cup Handles \cup {Nil}]
    BY <1>1, <1>2, HandlesTyped DEF SetObjectArrayElement, IInv, Handles
  <2> QED
    BY <1>2, <2>1, TableKept DEF SetObjectArrayElement, IInv, Rest, Others
<1>3. CASE SetByteArrayRegion
  <2>1. payload' \in [Refs -> Bytes \cup Handles \cup {Nil}]
    BY <1>1, <1>3 DEF SetByteArrayRegion
  <2> QED
    BY <1>3, <2>1, TableKept DEF SetByteArrayRegion, IInv, Rest, Others
<1>4. ASSUME UNCHANGED <<table, host, classRefs, statics, ids, snap, taken>>, Rest', Pinned' PROVE IInv'
  BY <1>4 DEF IInv, Live, Hosted, Saved, Numbered, Refers, table, ids
<1>5. CASE GetElements
  <2>1. PICK r \in DOMAIN objs, p \in Buffers : pins' = Extended(pins, p, r) /\ objs' = objs
    BY <1>5 DEF GetElements, table
  <2>2. Pinned'
    BY <2>1 DEF Extended, IInv, Pinned
  <2> QED
    BY <1>4, <1>5, <2>2 DEF GetElements, IInv, Rest
<1>6. CASE ReleaseElements
  <2>1. PICK r \in DOMAIN objs, p \in Buffers, b \in Bytes \cup {Nil} :
          /\ IF b # Nil THEN Stored(r, "bytes", b) ELSE payload' = payload
          /\ pins' = [q \in DOMAIN pins \ {p} |-> pins[q]] /\ objs' = objs
    BY <1>6 DEF ReleaseElements, table
  <2>2. Pinned'
    BY <2>1 DEF IInv, Pinned
  <2>3. payload' \in [Refs -> Bytes \cup Handles \cup {Nil}]
    BY <1>1, <2>1 DEF IInv, Rest
  <2> QED
    BY <1>4, <1>6, <2>2, <2>3 DEF ReleaseElements, IInv, Rest
<1> QED
  BY <1>2, <1>3, <1>5, <1>6

LEMMA MembersKept ==
  ASSUME IInv, GetMemberID
  PROVE  IInv'
<1>1. PICK r \in DOMAIN objs, n \in Names :
        /\ IF derefClass(r) = Nil THEN UNCHANGED ids
           ELSE /\ IdOf(derefClass(r), n) <= MaxId
                /\ interned' = Extended(interned, <<derefClass(r), n>>, IdOf(derefClass(r), n))
                /\ members' = Extended(members, IdOf(derefClass(r), n), <<derefClass(r), n>>)
                /\ nextID' = IF <<derefClass(r), n>> \in DOMAIN interned THEN nextID ELSE nextID + 1
  BY DEF GetMemberID
<1>2. Numbered'
  <2>1. CASE derefClass(r) = Nil
    BY <1>1, <2>1 DEF ids, IInv, Numbered
  <2>2. CASE derefClass(r) # Nil
    <3>1. PICK k \in Classes \X Names : k = <<derefClass(r), n>>
      BY <2>2, DerefTyped DEF IInv
    <3> DEFINE id == IF k \in DOMAIN interned THEN interned[k] ELSE nextID
    <3>2. /\ id <= MaxId /\ interned' = Extended(interned, k, id) /\ members' = Extended(members, id, k)
          /\ nextID' = IF k \in DOMAIN interned THEN nextID ELSE nextID + 1
      BY <1>1, <2>2, <3>1 DEF IdOf
    <3>3. CASE k \in DOMAIN interned
      <4>1. id \in DOMAIN members /\ members[id] = k /\ interned[k] = id
        BY <3>3 DEF IInv, Numbered
      <4>2. /\ DOMAIN interned' = DOMAIN interned /\ \A j \in DOMAIN interned : interned'[j] = interned[j]
            /\ DOMAIN members' = DOMAIN members /\ \A i \in DOMAIN members : members'[i] = members[i]
            /\ nextID' = nextID
        BY <3>2, <3>3, <4>1 DEF Extended
      <4> QED
        BY <4>2 DEF IInv, Numbered
    <3>4. CASE k \notin DOMAIN interned
      <4>1. id = nextID /\ nextID' = nextID + 1 /\ nextID \in 1 .. MaxId /\ nextID \notin DOMAIN members
        BY <3>2, <3>4, BoundsAssumption DEF IInv, Numbered
      <4>2. /\ DOMAIN interned' = DOMAIN interned \cup {k} /\ interned'[k] = nextID
            /\ \A j \in DOMAIN interned : interned'[j] = interned[j]
            /\ DOMAIN members' = DOMAIN members \cup {nextID} /\ members'[nextID] = k
            /\ \A i \in DOMAIN members : members'[i] = members[i]
        BY <3>2, <3>4, <4>1 DEF Extended
      <4> HIDE DEF id
      <4>3. DOMAIN members' = 1 .. nextID' - 1 /\ nextID' \in 1 .. MaxId + 1
        BY <4>1, <4>2, BoundsAssumption DEF IInv, Numbered
      <4> QED
        BY <4>1, <4>2, <4>3 DEF IInv, Numbered
    <3> QED
      BY <3>3, <3>4
  <2> QED
    BY <2>1, <2>2
<1>3. UNCHANGED <<table, host, payload, classRefs, statics, pins, pendingExc, natives, snap, taken>>
  BY DEF GetMemberID
<1> QED
  BY <1>2, <1>3 DEF IInv, Live, Hosted, Saved, Pinned, Rest, Refers, table

LEMMA FieldSet ==
  ASSUME NEW x \in Obj, NEW n \in Names, NEW v \in Handles
  PROVE  LET y == [x EXCEPT !.fields[n] = v]
         IN /\ y \in Obj /\ y.kind = x.kind /\ y.of = x.of
            /\ \A m \in Names : y.fields[m] = IF m = n THEN v ELSE x.fields[m]
BY DEF Obj

LEMMA FieldsKept ==
  ASSUME IInv, SetField
  PROVE  IInv'
<1>1. PICK r \in DOMAIN objs, id \in DOMAIN members, v \in DOMAIN objs \cup {0} : WithField(r, members[id][2], v)
  BY DEF SetField
<1>2. UNCHANGED <<nextRef, payload, classRefs, statics, pins, pendingExc, natives, ids, taken>>
  BY DEF SetField
<1>3. PICK n \in Names : n = members[id][2]
  BY DEF IInv, Numbered
<1>4. v \in Handles
  BY HandlesTyped DEF IInv, Handles
<1>5. CASE objs[r] = Host
  <2>1. host' = [host EXCEPT !.fields[n] = v] /\ snap' = snap
        /\ objs' = [objs EXCEPT ![r] = objs[r]]
    BY <1>1, <1>3, <1>5 DEF WithField
  <2>2. objs' = objs
    BY <2>1 DEF IInv, Live, Whole
  <2>3. host' \in Obj /\ host'.kind = host.kind
        /\ \A m \in Names : host'.fields[m] = IF m = n THEN v ELSE host.fields[m]
    BY <1>4, <2>1, FieldSet DEF IInv, Hosted
  <2>4. Hosted'
    BY <2>1, <2>2, <2>3, DistinctAssumption DEF IInv, Hosted, Refers
  <2> QED
    BY <1>2, <2>1, <2>2, <2>4 DEF IInv, Live, Saved, Numbered, Pinned, Rest, ids
<1>6. CASE objs[r] # Host
  <2> DEFINE y == [objs[r] EXCEPT !.fields[n] = v]
  <2>1. host' = host /\ snap' = snap /\ objs' = [objs EXCEPT ![r] = y]
    BY <1>1, <1>3, <1>6 DEF WithField
  <2>2. objs[r] \in Obj
    BY <1>6 DEF IInv, Live, Whole
  <2>3. /\ y \in Obj /\ y # Host /\ y.kind = objs[r].kind /\ y.of = objs[r].of
        /\ \A m \in Names : y.fields[m] = IF m = n THEN v ELSE objs[r].fields[m]
    BY <1>4, <2>2, FieldSet, DistinctAssumption
  <2> HIDE DEF y
  <2>4. /\ DOMAIN objs' = DOMAIN objs /\ objs'[r] = y /\ \A q \in DOMAIN objs : q # r => objs'[q] = objs[q]
        /\ objs' \in [DOMAIN objs -> Obj \cup {Host}]
    BY <2>1, <2>3 DEF IInv, Live, Whole
  <2>5. \A q \in DOMAIN objs : Refers(objs', objs'[q])
    BY <1>6, <2>3, <2>4 DEF IInv, Live, Whole, Refers
  <2>6. Live'
    BY <1>2, <1>6, <2>3, <2>4, <2>5 DEF IInv, Live, Whole
  <2>7. Hosted' /\ Pinned'
    BY <1>2, <2>1, <2>4 DEF IInv, Hosted, Refers, Pinned
  <2>8. Saved' /\ Numbered' /\ Rest'
    BY <1>2, <2>1 DEF IInv, Saved, Numbered, Rest, ids
  <2> QED
    BY <2>6, <2>7, <2>8 DEF IInv
<1> QED
  BY <1>5, <1>6

LEMMA FieldFunctions ==
  ASSUME IInv, GetField \/ SetStaticField \/ GetStaticField
  PROVE  IInv'
<1> USE DEF Others
<1>1. CASE GetField \/ GetStaticField
  <2>1. Rest' /\ UNCHANGED <<classRefs, Others>>
    BY <1>1 DEF GetField, GetStaticField, IInv, Rest
  <2>2. UNCHANGED table \/ (Room(1) /\ \E x \in Fresh \cup {Host} : Box(x))
    BY <1>1 DEF GetField, GetStaticField
  <2> QED
    BY <2>1, <2>2, TableKept, Boxes, FreshNew
<1>2. CASE SetStaticField
  <2>1. PICK id \in DOMAIN members, v \in DOMAIN objs \cup {0} : statics' = Extended(statics, members[id], v)
    BY <1>2 DEF SetStaticField
  <2>2. UNCHANGED <<table, host, payload, classRefs, pins, pendingExc, natives, ids, snap, taken>>
    BY <1>2 DEF SetStaticField
  <2>3. PICK k \in Classes \X Names : k = members[id]
    BY DEF IInv, Numbered
  <2>4. /\ DOMAIN statics' = DOMAIN statics \cup {k} /\ statics'[k] = v
        /\ \A j \in DOMAIN statics : j # k => statics'[j] = statics[j]
    BY <2>1, <2>3 DEF Extended
  <2>5. Live'
    BY <2>2, <2>4 DEF IInv, Live, Whole, table
  <2> QED
    BY <2>2, <2>5 DEF IInv, Hosted, Saved, Numbered, Pinned, Rest, table, ids, Refers
<1> QED
  BY <1>1, <1>2

LEMMA NativeCalls ==
  ASSUME IInv, CallNativeStatic
  PROVE  IInv'
<1>1. PICK c \in Named, n \in Names, o \in Fresh \cup {Host, Nil} :
        LET known == c \in DOMAIN classRefs
            at == IF known THEN nextRef ELSE nextRef + 1
            withClass == IF known THEN objs ELSE Extended(objs, nextRef, Mirror(c))
            boxed == <<c, n>> \in natives /\ o # Nil
        IN /\ Room(2)
           /\ classRefs' = IF known THEN classRefs ELSE Extended(classRefs, c, nextRef)
           /\ objs' = IF boxed THEN Extended(withClass, at, o) ELSE withClass
           /\ nextRef' = IF boxed THEN at + 1 ELSE at
  BY DEF CallNativeStatic
<1>2. UNCHANGED <<host, payload, statics, pins, pendingExc, natives, ids, snap, taken>>
  BY DEF CallNativeStatic
<1>3. nextRef \in Refs /\ nextRef + 1 \in Refs /\ nextRef \in Nat
  BY <1>1, BoundsAssumption DEF Room, IInv, Live, Whole, FirstRef, Refs
<1>4. c \in Classes
  BY ClassesAssumption
<1> DEFINE known == c \in DOMAIN classRefs
           at == IF known THEN nextRef ELSE nextRef + 1
           withClass == IF known THEN objs ELSE Extended(objs, nextRef, Mirror(c))
           boxed == <<c, n>> \in natives /\ o # Nil
<1>5. Whole(withClass, at, classRefs', statics) /\ DOMAIN objs \subseteq DOMAIN withClass
  <2>1. CASE known
    BY <1>1, <2>1 DEF IInv, Live
  <2>2. CASE ~known
    <3>1. Whole(Extended(objs, nextRef, Mirror(c)), nextRef + 1, Extended(classRefs, c, nextRef), statics)
      BY <1>3, <1>4, CachesClass DEF IInv, Live
    <3>2. DOMAIN objs \subseteq DOMAIN Extended(objs, nextRef, Mirror(c))
      BY DEF Extended
    <3> QED
      BY <1>1, <2>2, <3>1, <3>2
  <2> QED
    BY <2>1, <2>2
<1>6. at \in Refs
  BY <1>3
<1>7. boxed => o \in New
  BY FreshNew
<1>8. /\ objs' = (IF boxed THEN Extended(withClass, at, o) ELSE withClass)
      /\ nextRef' = IF boxed THEN at + 1 ELSE at
  BY <1>1
<1> HIDE DEF withClass, at
<1>9. Whole(objs', nextRef', classRefs', statics) /\ DOMAIN objs \subseteq DOMAIN objs'
  <2>1. CASE boxed
    <3>1. /\ Whole(Extended(withClass, at, o), at + 1, classRefs', statics)
          /\ DOMAIN withClass \subseteq DOMAIN Extended(withClass, at, o)
      BY <1>5, <1>6, <1>7, <2>1, Grows
    <3> QED
      BY <1>5, <1>8, <2>1, <3>1
  <2>2. CASE ~boxed
    BY <1>5, <1>8, <2>2
  <2> QED
    BY <2>1, <2>2
<1>10. Rest'
  BY <1>2 DEF IInv, Rest
<1> QED
  BY <1>2, <1>9, <1>10, TableGrows DEF Live, Others

LEMMA FlagFunctions ==
  ASSUME IInv, Query \/ Throw \/ ExceptionClear \/ RegisterNatives
  PROVE  IInv'
<1>1. UNCHANGED <<table, classRefs, Others>>
  BY DEF Query, Throw, ExceptionClear, RegisterNatives, Others
<1>2. Rest'
  BY DEF Query, Throw, ExceptionClear, RegisterNatives, IInv, Rest
<1> QED
  BY <1>1, <1>2, TableKept

LEMMA SnapshotKeeps ==
  ASSUME IInv, Snapshot
  PROVE  IInv'
<1>1. UNCHANGED <<table, host, payload, classRefs, statics, pins, pendingExc, natives, ids>>
  BY DEF Snapshot
<1>2. snap = Nil /\ snap' = State /\ taken'.table = State
  BY DEF Snapshot
<1> DEFINE o == Cloned(objs)
<1>3. /\ DOMAIN o = DOMAIN objs
      /\ \A r \in DOMAIN o : o[r] = IF objs[r] = Host THEN host ELSE objs[r]
  BY DEF Cloned
<1>4. o \in [DOMAIN o -> Obj \cup {Host}] /\ \A r \in DOMAIN o : o[r] \in Obj
  BY <1>3 DEF Cloned, IInv, Live, Whole, Hosted
<1>5. State = [objs |-> o, nextRef |-> nextRef, classRefs |-> classRefs, statics |-> statics]
  BY DEF State
<1> HIDE DEF o
<1>6. \A r \in DOMAIN o : Refers(o, o[r])
  BY <1>2, <1>3, DistinctAssumption DEF IInv, Live, Whole, Hosted, Refers
<1>7. Whole(o, nextRef, classRefs, statics)
  BY <1>3, <1>4, <1>6 DEF IInv, Live, Whole
<1>8. Saved'
  <2>1. snap'.objs = o /\ snap'.nextRef = nextRef /\ snap'.classRefs = classRefs /\ snap'.statics = statics
    BY <1>2, <1>5
  <2> QED
    BY <1>2, <1>4, <1>5, <1>7, <2>1 DEF Saved
<1>9. Hosted'
  BY <1>1, <1>2 DEF IInv, Hosted, Refers, table
<1> QED
  BY <1>1, <1>8, <1>9 DEF IInv, Live, Numbered, Pinned, Rest, table, ids

LEMMA RestoreKeeps ==
  ASSUME IInv, Restore
  PROVE  IInv'
<1>1. Live'
  BY DEF Restore, IInv, Saved, Live
<1>2. Hosted'
  BY DEF Restore, IInv, Hosted
<1>3. Saved' /\ Numbered'
  BY DEF Restore, IInv, Saved, Numbered, ids
<1>4. Pinned'
  BY DEF Restore, Pinned
<1>5. Rest'
  BY DEF Restore, IInv, Rest
<1> QED
  BY <1>1, <1>2, <1>3, <1>4, <1>5 DEF IInv

(* Every step preserves the invariant.                                        *)
LEMMA NextInv ==
  ASSUME IInv, [Next]_vars
  PROVE  IInv'
<1>1. CASE UNCHANGED vars
  BY <1>1, TableKept DEF vars, Others, IInv, Rest
<1> QED
  BY <1>1, ClassFunctions, Constructors, ArrayFunctions, MembersKept, FieldsKept, FieldFunctions, NativeCalls,
     FlagFunctions, SnapshotKeeps, RestoreKeeps DEF Next

(* Every function answers under a tag of its own, or under one of no Restore. *)
LEMMA OnlyRestoreAnswersSo ==
  ASSUME Next, ret'[1] = "Restore"
  PROVE  Restore
<1> USE DEF Answer
<1>1. FindClass => ret'[1] # "Restore"
  BY DEF FindClass, classRef, NoClass
<1>2. GetObjectClass => ret'[1] # "Restore"
  BY DEF GetObjectClass, classRef, NoClass
<1>3. GetSuperclass => ret'[1] # "Restore"
  BY DEF GetSuperclass, classRef, NoClass
<1>4. CallMethod => ret'[1] # "Restore"
  BY DEF CallMethod
<1>5. NewObject => ret'[1] # "Restore"
  BY DEF NewObject
<1>6. AllocObject => ret'[1] # "Restore"
  BY DEF AllocObject
<1>7. NewStringUTF => ret'[1] # "Restore"
  BY DEF NewStringUTF
<1>8. NewByteArray => ret'[1] # "Restore"
  BY DEF NewByteArray, MakeArray
<1>9. NewObjectArray => ret'[1] # "Restore"
  BY DEF NewObjectArray, MakeArray
<1>10. SetObjectArrayElement => ret'[1] # "Restore"
  BY DEF SetObjectArrayElement
<1>11. SetByteArrayRegion => ret'[1] # "Restore"
  BY DEF SetByteArrayRegion
<1>12. GetElements => ret'[1] # "Restore"
  BY DEF GetElements
<1>13. ReleaseElements => ret'[1] # "Restore"
  BY DEF ReleaseElements
<1>14. GetMemberID => ret'[1] # "Restore"
  BY DEF GetMemberID
<1>15. SetField => ret'[1] # "Restore"
  BY DEF SetField
<1>16. GetField => ret'[1] # "Restore"
  BY DEF GetField
<1>17. SetStaticField => ret'[1] # "Restore"
  BY DEF SetStaticField
<1>18. GetStaticField => ret'[1] # "Restore"
  BY DEF GetStaticField
<1>19. Query => ret'[1] # "Restore"
  BY DEF Query
<1>20. Throw => ret'[1] # "Restore"
  BY DEF Throw
<1>21. ExceptionClear => ret'[1] # "Restore"
  BY DEF ExceptionClear
<1>22. RegisterNatives => ret'[1] # "Restore"
  BY DEF RegisterNatives
<1>23. CallNativeStatic => ret'[1] # "Restore"
  BY DEF CallNativeStatic
<1>24. Snapshot => ret'[1] # "Restore"
  BY DEF Snapshot
<1> QED
  BY <1>1, <1>2, <1>3, <1>4, <1>5, <1>6, <1>7, <1>8, <1>9, <1>10, <1>11, <1>12, <1>13, <1>14, <1>15, <1>16, <1>17, <1>18, <1>19, <1>20, <1>21, <1>22, <1>23, <1>24 DEF Next

-----------------------------------------------------------------------------
(* The theorems.                                                             *)

(* The invariant the theorems below are read off from.                        *)
THEOREM Inductive == Spec => []IInv
BY InitInv, NextInv, PTL DEF Spec

(* The table, the caches beside it and the snapshot keep their types          *)
(* (dvm.go, VM; jni_dispatch.go).                                             *)
THEOREM Typed == Spec => []TypeOK
<1>1. ASSUME IInv PROVE TypeOK
  <2>1. DOMAIN objs \subseteq Refs
    BY <1>1, HandlesTyped DEF IInv
  <2> QED
    BY <1>1, <2>1 DEF IInv, Live, Whole, Hosted, Saved, Numbered, Pinned, Rest, TypeOK
<1> QED
  BY <1>1, Inductive, PTL

(* What the emulator keeps for the guest, cached classes, static fields,      *)
(* fields of objects and pins, resolves, also after a Restore has rewound the *)
(* handle counter (snapshot.go, Restore; dvm.go, VM.Restore).                 *)
THEOREM HandlesResolveAlways == Spec => []HandlesResolve
<1>1. ASSUME IInv PROVE HandlesResolve
  <2>1. \A c \in DOMAIN classRefs : derefClass(classRefs[c]) = c
    BY <1>1, DistinctAssumption DEF IInv, Live, Whole, derefClass, Deref
  <2> QED
    BY <1>1, <2>1 DEF IInv, Live, Whole, Refers, Pinned, HandlesResolve
<1> QED
  BY <1>1, Inductive, PTL

(* No handle and no member ID is given out twice, also over a Restore, which  *)
(* rewinds the handles and not the IDs (VM.NewObject, VM.MethodID).           *)
THEOREM NoReuseAlways == Spec => []NoReuse
<1>1. ASSUME IInv PROVE NoReuse
  BY <1>1 DEF IInv, Live, Whole, Numbered, NoReuse
<1> QED
  BY <1>1, Inductive, PTL

(* Restore gives back the table, the counter, the class cache and the static  *)
(* fields as they were when the snapshot was taken, whatever the guest and    *)
(* the host wrote since (VM.Snapshot clones every object; VM.Restore).        *)
THEOREM Rewinds == Spec => RestoreRewinds
<1>1. ASSUME Next, ret'[1] = "Restore" PROVE Restore
  BY <1>1, OnlyRestoreAnswersSo
<1>2. ASSUME IInv, Restore
      PROVE  [objs |-> objs, nextRef |-> nextRef, classRefs |-> classRefs, statics |-> statics]' = taken.table
  BY <1>2 DEF Restore, IInv, Saved
<1>3. IInv /\ [Next]_vars =>
        [ret'[1] = "Restore" =>
           [objs |-> objs, nextRef |-> nextRef, classRefs |-> classRefs, statics |-> statics]' = taken.table]_vars
  BY <1>1, <1>2
<1> QED
  BY <1>3, Inductive, PTL DEF Spec, RestoreRewinds
=============================================================================
