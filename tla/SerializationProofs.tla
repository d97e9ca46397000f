------------------------- MODULE SerializationProofs -------------------------
(***************************************************************************)
(* Theorems of Serialization.tla, for any number of objects, of calls and  *)
(* of classes of components: components travel with their owner,           *)
(* deserialize throws exactly when it should, links stay in one call, and  *)
(* what was written is what is read.                                       *)
(***************************************************************************)
EXTENDS Serialization, SequenceTheorems, FiniteSetTheorems, TLAPS

Record == [id : Ids, class : Classes, ref : Refs(Ids)]
Object == [class : Classes, ref : Refs(Ids \cup NewIds), linked : SUBSET Slots,
           call : 1..MaxCalls, stray : 0..MaxCalls]

-----------------------------------------------------------------------------
(* The inductive invariant.                                                  *)

(* The source: the caller's handles and the GameObjects keep what they hold  *)
(* alive and unmarked.                                                       *)
SourceIsSound ==
  /\ count \in 0..MaxObjects
  /\ class \in [Ids -> Classes]
  /\ alive \subseteq 1..count
  /\ held \subseteq alive
  /\ isDeleted \subseteq 1..count
  /\ ref \in [Ids -> Refs(Ids)]
  /\ held \cap isDeleted = {}
  /\ \A i \in Ids, s \in Slots : ref[i][s] \in 1..count \cup {NoId}
  /\ \A i \in Ids, s \in Slots : i > count => ref[i][s] = NoId
  /\ \A g \in Ids, s \in Slots :
       class[g] = GameObject /\ ref[g][s] # NoId => class[ref[g][s]] = s
  /\ \A g \in alive \ isDeleted, s \in Slots :
       class[g] = GameObject /\ ref[g][s] # NoId => ref[g][s] \in alive \ isDeleted

(* The stream: every object is in it once. *)
StreamIsSound ==
  /\ saved \in Seq(Record)
  /\ Len(saved) <= MaxObjects
  /\ \A i, j \in DOMAIN saved : i # j => saved[i].id # saved[j].id
  /\ ComponentTravelsWithOwner

(* How far deserialize has read, and where its objects and their new ids are. *)
Position == Len(given) - Len(unread)

ReadingIsSound ==
  /\ given \in Seq(Record) /\ cut \in BOOLEAN
  /\ Len(given) <= Len(saved)
  /\ \A k \in 1..Len(given) : given[k] = saved[k]
  /\ unread \in Seq(Record)
  /\ Len(unread) <= Len(given)
  /\ \A i \in 1..Len(unread) : unread[i] = given[Position + i]
  /\ objects \in Seq(Object) /\ before \in Seq(Object)
  /\ Len(objects) = Len(before) + Position
  /\ Len(before) + Len(given) <= MaxNew
  /\ calls = 0 => before = <<>> /\ given = <<>> /\ ~cut
  /\ DOMAIN remap = {given[k].id : k \in 1..Position}
  /\ \A k \in 1..Position : remap[given[k].id] = Len(before) + k

(* What object n was before it was linked. *)
Original(n) == IF n <= Len(before) THEN before[n] ELSE ReadObject(given[n - Len(before)])

(* What linking may make of the reference by s of an object x, which becomes *)
(* y: it is left, it is linked, or the pointer it was passed for an id.      *)
Kept(x, y, s)     == y.ref[s] = x.ref[s] /\ (s \in y.linked <=> s \in x.linked)
Straight(x, y, s) == /\ Refers(x, s) /\ s \notin x.linked /\ s \in y.linked
                     /\ x.ref[s] \in DOMAIN remap /\ y.ref[s] = remap[x.ref[s]]
Stray(x, y, s)    == /\ x.class = s /\ s \in x.linked /\ s \in y.linked
                     /\ y.stray = calls
                     /\ \E id \in DOMAIN remap : y.ref[s] = remap[id]

LinkOf(x, y) ==
  /\ y.class = x.class /\ y.call = x.call
  /\ y.stray = x.stray \/ \E s \in Slots : Stray(x, y, s)
  /\ \A s \in Slots : Kept(x, y, s) \/ Straight(x, y, s) \/ Stray(x, y, s)

AllLinked(x, y) == \A s \in Slots : Refers(x, s) => Straight(x, y, s) \/ Stray(x, y, s)

LinkSound(n)    == LinkOf(Original(n), objects[n])
WhollyLinked(n) == AllLinked(Original(n), objects[n])

(* How far deserialize has linked. *)
LinkingIsSound ==
  /\ \A n \in DOMAIN objects :
       /\ LinkSound(n)
       /\ phase = "reading" \/ n \in toLink => objects[n] = Original(n)
       /\ phase = "linking" /\ n \notin toLink => WhollyLinked(n)
       /\ phase = "done" /\ calls > 0 => WhollyLinked(n)
  /\ toLink \subseteq DOMAIN objects
  /\ phase # "linking" => toLink = {}
  /\ phase \in {"linking", "done"} => unread = <<>> /\ ~cut

\* Only what refers to something is linked, and only mGameObj goes astray.
Sane(x) == /\ \A s \in x.linked : Refers(x, s)
           /\ x.stray # 0 => x.class \in x.linked

(* What deserialize finds wrong with the stream or with the target. *)
Cause ==
  \/ cut
  \/ \E k \in DOMAIN given, s \in Slots : Refers(given[k], s) /\ given[k].ref[s] \notin GivenIds
  \/ \E n \in DOMAIN before, s \in Slots :
       /\ Refers(before[n], s)
       /\ IF s \in before[n].linked THEN objects[n].stray # calls
                                    ELSE before[n].ref[s] \notin GivenIds

(* The calls so far: only one that failed leaves a reference unlinked. *)
CallsAreSound ==
  /\ phase \in {"building", "reading", "linking", "done", "threw"}
  /\ calls \in 0..MaxCalls
  /\ phase \in {"reading", "linking", "threw"} => calls > 0
  /\ phase = "building" => calls = 0 /\ saved = <<>>
  /\ failed \subseteq 1..calls
  /\ phase = "threw" => unread = <<>> /\ calls \in failed /\ Cause
  /\ \A n \in DOMAIN before :
       /\ Sane(before[n])
       /\ before[n].call < calls /\ before[n].stray < calls
       /\ \A s \in Slots : Refers(before[n], s) /\ s \notin before[n].linked => before[n].call \in failed

IInv == /\ SourceIsSound /\ StreamIsSound
        /\ ReadingIsSound /\ LinkingIsSound /\ CallsAreSound
        /\ LinksStayInOneCall

-----------------------------------------------------------------------------
(* What the invariant says about numbers and types. *)

LEMMA Bounds ==
  /\ MaxObjects \in Nat \ {0} /\ MaxCalls \in Nat \ {0} /\ MaxNew \in Nat \ {0}
  /\ Slots \subseteq Nat \ {0} /\ GameObject \notin Slots
  /\ \A x \in Ids \cup NewIds : x \in Nat /\ x # NoId
  /\ NoRefs \in Refs(Ids) /\ \A s \in Slots : NoRefs[s] = NoId
BY SerializationAssumption DEF Ids, NewIds, NoId, GameObject, NoRefs, Refs

LEMMA Sizes ==
  ASSUME ReadingIsSound
  PROVE  /\ Len(given) \in Nat /\ Len(unread) \in Nat /\ Len(before) \in Nat /\ Len(objects) \in Nat
         /\ DOMAIN given = 1..Len(given) /\ DOMAIN objects = 1..Len(objects)
         /\ DOMAIN before = 1..Len(before)
         /\ Position \in 0..Len(given) /\ Len(objects) = Len(before) + Position
         /\ \A k \in 1..Len(given) : given[k] \in Record
         /\ \A n \in 1..Len(objects) : objects[n] \in Object
         /\ \A n \in 1..Len(before) : before[n] \in Object
         /\ Len(objects) <= MaxNew
<1>1. given \in Seq(Record) /\ unread \in Seq(Record) /\ objects \in Seq(Object) /\ before \in Seq(Object)
  BY DEF ReadingIsSound
<1>2. /\ Len(given) \in Nat /\ Len(unread) \in Nat /\ Len(before) \in Nat /\ Len(objects) \in Nat
      /\ DOMAIN given = 1..Len(given) /\ DOMAIN objects = 1..Len(objects)
      /\ DOMAIN before = 1..Len(before)
  BY <1>1, LenProperties
<1>3. Position \in 0..Len(given)
  BY <1>2 DEF ReadingIsSound, Position
<1>5. Len(objects) = Len(before) + Position
  BY DEF ReadingIsSound
<1>6. Len(objects) <= MaxNew
  <2>1. Len(before) + Len(given) <= MaxNew /\ MaxNew \in Nat
    BY Bounds DEF ReadingIsSound
  <2> QED BY <1>2, <1>3, <1>5, <2>1
<1>4. /\ \A k \in 1..Len(given) : given[k] \in Record
      /\ \A n \in 1..Len(objects) : objects[n] \in Object
      /\ \A n \in 1..Len(before) : before[n] \in Object
  BY <1>1, ElementOfSeq
<1> QED BY <1>2, <1>3, <1>4, <1>5, <1>6

(* What is read is an object that nothing is linked in. *)
LEMMA ReadObjectType ==
  ASSUME CallsAreSound, calls > 0, NEW record \in Record
  PROVE  /\ ReadObject(record) \in Object
         /\ ReadObject(record).class = record.class /\ ReadObject(record).ref = record.ref
         /\ ReadObject(record).linked = {} /\ ReadObject(record).call = calls
         /\ ReadObject(record).stray = 0
<1>1. calls \in 1..MaxCalls /\ 0 \in 0..MaxCalls
  BY Bounds DEF CallsAreSound
<1>2. record.ref \in Refs(Ids \cup NewIds) /\ record.class \in Classes
  <2>1. record.ref \in Refs(Ids) /\ record.class \in Classes
    BY DEF Record
  <2>2. Refs(Ids) \subseteq Refs(Ids \cup NewIds)
    BY DEF Refs
  <2> QED BY <2>1, <2>2
<1> QED BY <1>1, <1>2 DEF ReadObject, Object

(* The objects that this call has read follow those that were there. *)
LEMMA Originals ==
  ASSUME ReadingIsSound, CallsAreSound, calls > 0, NEW n \in 1..Len(objects)
  PROVE  /\ Original(n) \in Object
         /\ Sane(Original(n)) /\ Original(n).stray < calls
         /\ n <= Len(before) => n \in 1..Len(before) /\ Original(n) = before[n]
         /\ n > Len(before) => /\ n - Len(before) \in 1..Position
                               /\ n - Len(before) \in 1..Len(given)
                               /\ Original(n) = ReadObject(given[n - Len(before)])
                               /\ Original(n).call = calls /\ Original(n).linked = {}
                               /\ Original(n).stray = 0
                               /\ Original(n).class = given[n - Len(before)].class
                               /\ Original(n).ref = given[n - Len(before)].ref
<1>1. CASE n <= Len(before)
  <2>1. n \in 1..Len(before) /\ Original(n) = before[n] /\ before[n] \in Object /\ ~(n > Len(before))
    BY <1>1, Sizes DEF Original
  <2>2. Sane(before[n]) /\ before[n].stray < calls
    BY <2>1, Sizes DEF CallsAreSound
  <2> QED BY <2>1, <2>2
<1>2. CASE n > Len(before)
  <2>1. n - Len(before) \in 1..Position /\ n - Len(before) \in 1..Len(given) /\ ~(n <= Len(before))
    <3>1. /\ Len(before) \in Nat /\ Len(given) \in Nat /\ Position \in 0..Len(given)
          /\ Len(objects) = Len(before) + Position
      BY Sizes
    <3> QED BY <1>2, <3>1
  <2>2. PICK k \in 1..Len(given) : k = n - Len(before)
    BY <2>1
  <2>3. Original(n) = ReadObject(given[k])
    BY <2>1, <2>2 DEF Original
  <2>4. given[k] \in Record
    BY Sizes
  <2>5. PICK x \in Object : /\ x = Original(n) /\ x.class = given[k].class /\ x.ref = given[k].ref
                            /\ x.linked = {} /\ x.call = calls /\ x.stray = 0
    BY <2>3, <2>4, ReadObjectType
  <2>6. Sane(x)
    BY <2>5 DEF Sane
  <2> QED BY <1>2, <2>1, <2>2, <2>3, <2>5, <2>6
<1> QED BY <1>1, <1>2, Sizes

(* Linking changes neither the class of an object nor the call that made it. *)
LEMMA KeptByLinking ==
  ASSUME ReadingIsSound, LinkingIsSound, NEW n \in 1..Len(objects)
  PROVE  objects[n].call = Original(n).call /\ objects[n].class = Original(n).class
<1>1. LinkSound(n)
  BY Sizes DEF LinkingIsSound
<1> QED BY <1>1 DEF LinkSound, LinkOf

(* The table of old ids has the ids that were read, and no other. *)
LEMMA RemapTable ==
  ASSUME ReadingIsSound, unread = <<>>
  PROVE  Position = Len(given) /\ DOMAIN remap = GivenIds
<1>1. Len(unread) = 0
  OBVIOUS
<1>2. Position = Len(given)
  BY <1>1, Sizes DEF Position
<1> QED BY <1>2, Sizes DEF ReadingIsSound, GivenIds

(* An old id leads to an object that this call has read. *)
LEMMA RemapRange ==
  ASSUME ReadingIsSound
  PROVE  /\ DOMAIN remap \subseteq Ids
         /\ \A x \in DOMAIN remap : /\ remap[x] \in 1..Len(objects)
                                    /\ remap[x] > Len(before)
                                    /\ remap[x] \in NewIds
<1>1. /\ Len(before) \in Nat /\ Len(given) \in Nat /\ Position \in 0..Len(given)
      /\ Len(objects) = Len(before) + Position /\ \A k \in 1..Len(given) : given[k] \in Record
      /\ Len(objects) <= MaxNew /\ MaxNew \in Nat
  BY Sizes, Bounds
<1>2. /\ DOMAIN remap = {given[k].id : k \in 1..Position}
      /\ \A k \in 1..Position : remap[given[k].id] = Len(before) + k
  BY DEF ReadingIsSound
<1>3. ASSUME NEW x \in DOMAIN remap
      PROVE  x \in Ids /\ remap[x] \in 1..Len(objects) /\ remap[x] > Len(before) /\ remap[x] \in NewIds
  <2>1. PICK k \in 1..Position : x = given[k].id
    BY <1>2
  <2>2. remap[x] = Len(before) + k
    BY <1>2, <2>1
  <2>3. given[k] \in Record
    BY <1>1
  <2>4. remap[x] \in 1..Len(objects) /\ remap[x] > Len(before)
    BY <1>1, <2>1, <2>2
  <2>5. remap[x] \in NewIds
    BY <1>1, <2>4 DEF NewIds
  <2> QED BY <2>1, <2>3, <2>4, <2>5 DEF Record
<1> QED BY <1>3

(* Whatever linking has done, an object links only what refers to something. *)
LEMMA StillSane ==
  ASSUME ReadingIsSound, LinkingIsSound, CallsAreSound, calls > 0, NEW n \in 1..Len(objects)
  PROVE  Sane(objects[n])
<1>1. PICK x \in Object : x = Original(n) /\ Sane(x) /\ x.stray < calls
  BY Originals
<1>2. PICK y \in Object : y = objects[n]
  BY Sizes
<1>3. LinkOf(x, y)
  BY <1>1, <1>2, Sizes DEF LinkingIsSound, LinkSound
<1>4. ASSUME NEW s \in y.linked PROVE Refers(y, s)
  <2>1. s \in Slots /\ y.class = x.class
    BY <1>3 DEF Object, LinkOf
  <2>2. CASE Kept(x, y, s)
    <3>1. Refers(x, s)
      BY <1>1, <1>4, <2>2 DEF Kept, Sane
    <3> QED BY <2>1, <2>2, <3>1 DEF Kept, Refers
  <2>3. CASE Straight(x, y, s)
    <3>1. y.ref[s] # NoId
      BY <2>3, RemapRange, Bounds DEF Straight
    <3> QED BY <2>1, <2>3, <3>1 DEF Straight, Refers
  <2>4. CASE Stray(x, y, s)
    BY <2>1, <2>4 DEF Stray, Refers
  <2> QED BY <1>3, <2>1, <2>2, <2>3, <2>4 DEF LinkOf
<1>5. y.stray # 0 => y.class \in y.linked
  <2>1. CASE y.stray = x.stray /\ y.stray # 0
    <3>1. x.class \in x.linked /\ y.class = x.class /\ x.class \in Slots
      BY <1>1, <1>3, <2>1 DEF Sane, LinkOf, Object
    <3>2. Kept(x, y, x.class) \/ Straight(x, y, x.class) \/ Stray(x, y, x.class)
      BY <1>3, <3>1 DEF LinkOf
    <3> QED BY <3>1, <3>2 DEF Kept, Straight, Stray
  <2>2. CASE \E s \in Slots : Stray(x, y, s)
    BY <1>3, <2>2 DEF LinkOf, Stray
  <2> QED BY <1>3, <2>1, <2>2 DEF LinkOf
<1> QED BY <1>2, <1>4, <1>5 DEF Sane

(* Only a call that threw leaves a reference without the link it needs. *)
LEMMA UnlinkedFailed ==
  ASSUME IInv, calls > 0, phase \in {"done", "threw"}, NEW n \in 1..Len(objects),
         NEW s \in Slots, Refers(objects[n], s), s \notin objects[n].linked
  PROVE  objects[n].call \in failed
<1> USE DEF IInv
<1>1. PICK x : x = Original(n)
  OBVIOUS
<1>2. PICK y : y = objects[n]
  OBVIOUS
<1>3. LinkOf(x, y) /\ y.call = x.call /\ y.class = x.class
  BY <1>1, <1>2, Sizes DEF LinkingIsSound, LinkSound, LinkOf
<1>4. Kept(x, y, s)
  BY <1>2, <1>3 DEF LinkOf, Straight, Stray
<1>5. Refers(x, s) /\ s \notin x.linked
  BY <1>2, <1>3, <1>4 DEF Kept, Refers
<1>6. phase = "threw"
  <2>1. ASSUME phase = "done" PROVE FALSE
    <3>1. AllLinked(x, y)
      BY <1>1, <1>2, <2>1, Sizes DEF LinkingIsSound, WhollyLinked
    <3> QED BY <1>2, <1>5, <3>1 DEF AllLinked, Straight, Stray
  <2> QED BY <2>1
<1>7. calls \in failed
  BY <1>6 DEF CallsAreSound
<1>8. CASE n <= Len(before)
  <2>1. n \in DOMAIN before /\ x = before[n]
    BY <1>1, <1>8, Originals, Sizes
  <2> QED BY <1>2, <1>3, <1>5, <2>1 DEF CallsAreSound
<1>9. CASE n > Len(before)
  <2>1. x.call = calls
    BY <1>1, <1>9, Originals
  <2> QED BY <1>2, <1>3, <1>7, <2>1
<1>10. Len(before) \in Nat
  BY Sizes
<1> QED BY <1>8, <1>9, <1>10

(* An object was made, and led astray, by this call or by an earlier one. *)
LEMMA CallOfObject ==
  ASSUME IInv, calls > 0, NEW n \in 1..Len(objects)
  PROVE  objects[n].call <= calls /\ objects[n].stray <= calls
<1> USE DEF IInv
<1>1. PICK x \in Object : x = Original(n) /\ x.stray < calls
  BY Originals
<1>2. PICK y \in Object : y = objects[n]
  BY Sizes
<1>3. LinkOf(x, y) /\ y.call = x.call
  BY <1>1, <1>2, Sizes DEF LinkingIsSound, LinkSound, LinkOf
<1>4. calls \in Nat /\ x.call \in Nat /\ x.stray \in Nat
  BY Bounds DEF Object, CallsAreSound
<1>5. y.stray <= calls
  BY <1>1, <1>3, <1>4 DEF LinkOf, Stray
<1>6. CASE n <= Len(before)
  <2>1. n \in DOMAIN before /\ x = before[n]
    BY <1>1, <1>6, Originals, Sizes
  <2>2. x.call < calls
    BY <2>1 DEF CallsAreSound
  <2> QED BY <1>2, <1>3, <1>4, <1>5, <2>2
<1>7. CASE n > Len(before)
  <2>1. x.call = calls
    BY <1>1, <1>7, Originals
  <2> QED BY <1>2, <1>3, <1>4, <1>5, <2>1
<1>8. Len(before) \in Nat
  BY Sizes
<1> QED BY <1>6, <1>7, <1>8

LEMMA SourceKept ==
  ASSUME SourceIsSound, UNCHANGED source
  PROVE  SourceIsSound'
BY DEF source, SourceIsSound

LEMMA StreamKept ==
  ASSUME StreamIsSound, saved' = saved
  PROVE  StreamIsSound'
BY DEF StreamIsSound, ComponentTravelsWithOwner, SavedIds

(* What linking has done stays so as long as what it reads does. *)
LEMMA LinksKept ==
  ASSUME UNCHANGED <<objects, before, given, remap, calls>>
  PROVE  \A n : /\ Original(n)' = Original(n)
                /\ LinkSound(n)' = LinkSound(n)
                /\ WhollyLinked(n)' = WhollyLinked(n)
<1>1. \A n : Original(n)' = Original(n)
  BY DEF Original, ReadObject
<1> SUFFICES ASSUME NEW n
             PROVE  LinkSound(n)' = LinkSound(n) /\ WhollyLinked(n)' = WhollyLinked(n)
  BY <1>1
<1>2. Original(n)' = Original(n) /\ objects' = objects /\ remap' = remap /\ calls' = calls
  BY <1>1
<1> QED BY <1>2 DEF LinkSound, WhollyLinked, LinkOf, AllLinked, Kept, Straight, Stray, Refers

(* Where the reference by s of object n leads: LinksStayInOneCall for one link. *)
LinkGood(n, s) ==
  /\ objects[n].ref[s] \in DOMAIN objects
  /\ LET made == objects[objects[n].ref[s]].call
     IN  IF objects[n].stray # 0 THEN made = objects[n].stray
         ELSE made = objects[n].call \/ (objects[n].call \in failed /\ made > objects[n].call)

-----------------------------------------------------------------------------
(* The source: Init, and what callers do with objects and handles.           *)

LEMMA InitIInv == Init => IInv
<1> SUFFICES ASSUME Init PROVE IInv
  OBVIOUS
<1>1. <<>> \in Seq(Record) /\ <<>> \in Seq(Object) /\ Len(<<>>) = 0 /\ DOMAIN <<>> = {}
  OBVIOUS
<1>2. SourceIsSound
  <2>1. /\ count = 0 /\ class = [i \in Ids |-> GameObject] /\ alive = {} /\ held = {} /\ isDeleted = {}
        /\ \A i \in Ids : ref[i] = NoRefs
        /\ ref \in [Ids -> Refs(Ids)]
    BY Bounds DEF Init
  <2>2. \A i \in Ids, s \in Slots : ref[i][s] = NoId
    BY <2>1, Bounds
  <2>3. 0 \in 0..MaxObjects /\ class \in [Ids -> Classes]
    BY <2>1, Bounds DEF Classes
  <2> QED BY <2>1, <2>2, <2>3 DEF SourceIsSound
<1>3. StreamIsSound
  BY <1>1, Bounds DEF Init, StreamIsSound, ComponentTravelsWithOwner
<1>4. ReadingIsSound
  <2>1. Position = 0 /\ 1..Position = {}
    BY <1>1 DEF Init, Position
  <2>2. DOMAIN remap = {given[k].id : k \in 1..Position}
    BY <1>1, <2>1 DEF Init
  <2>3. /\ given = <<>> /\ saved = <<>> /\ unread = <<>> /\ objects = <<>> /\ before = <<>>
        /\ calls = 0 /\ cut = FALSE
    BY DEF Init
  <2>4. \A k \in 1..Len(given) : FALSE
    BY <1>1, <2>3
  <2>5. \A k \in 1..Len(unread) : FALSE
    BY <1>1, <2>3
  <2>6. /\ Len(given) <= Len(saved) /\ Len(unread) <= Len(given) /\ Len(objects) = Len(before) + Position
        /\ Len(before) + Len(given) <= MaxNew
    BY <1>1, <2>1, <2>3, Bounds
  <2> QED BY <1>1, <2>1, <2>2, <2>3, <2>4, <2>5, <2>6 DEF ReadingIsSound
<1>5. LinkingIsSound /\ LinksStayInOneCall
  BY <1>1 DEF Init, LinkingIsSound, LinksStayInOneCall
<1>6. CallsAreSound
  BY <1>1, Bounds DEF Init, CallsAreSound
<1> QED BY <1>2, <1>3, <1>4, <1>5, <1>6 DEF IInv

LEMMA TargetKept ==
  ASSUME IInv, UNCHANGED <<saved, phase, target>>
  PROVE  StreamIsSound' /\ ReadingIsSound' /\ LinkingIsSound' /\ CallsAreSound' /\ LinksStayInOneCall'
<1>1. /\ saved' = saved /\ phase' = phase /\ objects' = objects /\ given' = given /\ cut' = cut
      /\ unread' = unread /\ remap' = remap /\ toLink' = toLink /\ calls' = calls
      /\ failed' = failed /\ before' = before
  BY DEF target
<1>2. StreamIsSound'
  BY <1>1, StreamKept DEF IInv
<1>3. ReadingIsSound'
  <2>1. Position' = Position
    BY <1>1 DEF Position
  <2> QED BY <1>1, <2>1 DEF IInv, ReadingIsSound
<1>4. LinkingIsSound'
  BY <1>1, LinksKept DEF IInv, LinkingIsSound
<1>5. CallsAreSound'
  BY <1>1 DEF IInv, CallsAreSound, Cause, GivenIds, Refers, Sane
<1>6. LinksStayInOneCall'
  BY <1>1 DEF IInv, LinksStayInOneCall
<1> QED BY <1>2, <1>3, <1>4, <1>5, <1>6

LEMMA createDefaultObjIInv ==
  ASSUME IInv, NEW cls \in Classes, createDefaultObj(cls)
  PROVE  IInv'
<1>1. /\ count < MaxObjects /\ count' = count + 1 /\ class' = [class EXCEPT ![count + 1] = cls]
      /\ alive' = alive \cup {count + 1} /\ held' = held \cup {count + 1}
      /\ isDeleted' = isDeleted /\ ref' = ref
  BY DEF createDefaultObj
<1>2. /\ count \in 0..MaxObjects /\ class \in [Ids -> Classes] /\ alive \subseteq 1..count
      /\ held \subseteq alive /\ isDeleted \subseteq 1..count /\ ref \in [Ids -> Refs(Ids)]
      /\ held \cap isDeleted = {}
      /\ \A i \in Ids, s \in Slots : ref[i][s] \in 1..count \cup {NoId}
      /\ \A i \in Ids, s \in Slots : i > count => ref[i][s] = NoId
  BY DEF IInv, SourceIsSound
<1>3. PICK n \in Nat : n = count /\ n + 1 \in Ids /\ n + 1 \notin 1..n /\ 1..n \subseteq 1..(n + 1)
                       /\ 1..n \subseteq Ids
  BY <1>1, <1>2, Bounds DEF Ids
<1>4. /\ count' \in 0..MaxObjects /\ class' \in [Ids -> Classes] /\ alive' \subseteq 1..count'
      /\ held' \subseteq alive' /\ isDeleted' \subseteq 1..count' /\ ref' \in [Ids -> Refs(Ids)]
      /\ held' \cap isDeleted' = {}
  BY <1>1, <1>2, <1>3, Bounds
<1>5. /\ \A i \in Ids, s \in Slots : ref'[i][s] \in 1..count' \cup {NoId}
      /\ \A i \in Ids, s \in Slots : i > count' => ref'[i][s] = NoId
  BY <1>1, <1>2, <1>3 DEF Ids
<1>6. \A g \in Ids, s \in Slots :
        class'[g] = GameObject /\ ref'[g][s] # NoId => class'[ref'[g][s]] = s
  <2> SUFFICES ASSUME NEW g \in Ids, NEW s \in Slots, class'[g] = GameObject, ref[g][s] # NoId
               PROVE  class'[ref[g][s]] = s
    BY <1>1
  <2>1. PICK c \in 1..n : c = ref[g][s]
    BY <1>2, <1>3
  <2>2. g # n + 1
    BY <1>2, <1>3
  <2>3. class[g] = GameObject
    BY <1>1, <1>2, <1>3, <2>2
  <2>4. class[c] = s
    BY <2>1, <2>3 DEF IInv, SourceIsSound
  <2> QED BY <1>1, <1>2, <1>3, <2>1, <2>4
<1>7. \A g \in alive' \ isDeleted', s \in Slots :
        class'[g] = GameObject /\ ref'[g][s] # NoId => ref'[g][s] \in alive' \ isDeleted'
  <2> SUFFICES ASSUME NEW g \in alive' \ isDeleted', NEW s \in Slots,
                      class'[g] = GameObject, ref[g][s] # NoId
               PROVE  ref[g][s] \in alive' \ isDeleted'
    BY <1>1
  <2>1. g # n + 1 /\ g \in alive \ isDeleted /\ g \in Ids
    BY <1>1, <1>2, <1>3
  <2>2. class[g] = GameObject
    BY <1>1, <1>2, <1>3, <2>1
  <2>3. ref[g][s] \in alive \ isDeleted
    BY <2>1, <2>2 DEF IInv, SourceIsSound
  <2> QED BY <1>1, <2>3
<1>8. SourceIsSound'
  BY <1>4, <1>5, <1>6, <1>7 DEF SourceIsSound
<1> QED BY <1>8, TargetKept DEF IInv, createDefaultObj

LEMMA addComponentIInv ==
  ASSUME IInv, NEW g \in Ids, NEW c \in Ids, addComponent(g, c)
  PROVE  IInv'
<1> USE DEF IInv
<1>1. /\ g \in held /\ g \in alive /\ class[g] = GameObject
      /\ c \in held /\ c \in alive /\ class[c] # GameObject /\ c # g
      /\ ref' = [ref EXCEPT ![g][class[c]] = c, ![c][class[c]] = g]
      /\ isDeleted' = isDeleted \cup {o \in Ids : o = ref[g][class[c]] /\ o \notin held /\ Owners(o) = {g}}
      /\ count' = count /\ class' = class /\ alive' = alive /\ held' = held
  BY DEF SourceIsSound, addComponent, GameObjects
<1>2. /\ ref \in [Ids -> Refs(Ids)] /\ alive \subseteq 1..count /\ held \subseteq alive /\ 1..count \subseteq Ids
      /\ \A h \in alive \ isDeleted, s \in Slots :
           class[h] = GameObject /\ ref[h][s] # NoId => ref[h][s] \in alive \ isDeleted
      /\ count \in 0..MaxObjects /\ held \cap isDeleted = {} /\ isDeleted \subseteq 1..count
      /\ class \in [Ids -> Classes]
      /\ \A i \in Ids, s \in Slots : ref[i][s] \in 1..count \cup {NoId}
      /\ \A i \in Ids, s \in Slots : i > count => ref[i][s] = NoId
      /\ \A h \in Ids, s \in Slots : class[h] = GameObject /\ ref[h][s] # NoId => class[ref[h][s]] = s
  BY Bounds DEF SourceIsSound, Ids
<1>3. PICK t \in Slots : t = class[c]
  BY <1>1, <1>2 DEF Classes
<1>4. /\ \A s \in Slots : ref'[g][s] = IF s = t THEN c ELSE ref[g][s]
      /\ \A s \in Slots : ref'[c][s] = IF s = t THEN g ELSE ref[c][s]
      /\ \A i \in Ids : i \notin {g, c} => ref'[i] = ref[i]
      /\ ref' \in [Ids -> Refs(Ids)]
  <2>1. \A f \in Refs(Ids), x \in Ids :
          /\ [f EXCEPT ![t] = x] \in Refs(Ids)
          /\ \A s \in Slots : [f EXCEPT ![t] = x][s] = IF s = t THEN x ELSE f[s]
    BY <1>3 DEF Refs
  <2>2. /\ ref'[g] = [ref[g] EXCEPT ![t] = c] /\ ref'[c] = [ref[c] EXCEPT ![t] = g]
        /\ \A i \in Ids : i \notin {g, c} => ref'[i] = ref[i]
        /\ DOMAIN ref' = Ids /\ ref' = [i \in Ids |-> ref'[i]]
    BY <1>1, <1>2, <1>3
  <2>3. \A i \in Ids : ref'[i] \in Refs(Ids)
    BY <1>2, <2>1, <2>2
  <2>4. ref[g] \in Refs(Ids) /\ ref[c] \in Refs(Ids)
    BY <1>2
  <2>5. ref' \in [Ids -> Refs(Ids)]
    BY <2>2, <2>3, Zenon
  <2> QED BY <2>1, <2>2, <2>4, <2>5
<1>5. /\ \A i \in Ids, s \in Slots : ref'[i][s] \in 1..count \cup {NoId}
      /\ \A i \in Ids, s \in Slots : i > count => ref'[i][s] = NoId
  <2> SUFFICES ASSUME NEW i \in Ids, NEW s \in Slots
               PROVE  ref'[i][s] \in 1..count \cup {NoId} /\ (i > count => ref'[i][s] = NoId)
    OBVIOUS
  <2>1. g \in 1..count /\ c \in 1..count /\ ~(g > count) /\ ~(c > count)
    BY <1>1, <1>2
  <2>2. ref[i][s] \in 1..count \cup {NoId} /\ (i > count => ref[i][s] = NoId)
    BY <1>2
  <2>3. ref'[i][s] \in {ref[i][s], c, g} /\ (i > count => ref'[i][s] = ref[i][s])
    BY <1>4, <2>1
  <2> QED BY <2>1, <2>2, <2>3
<1>6. \A h \in Ids, s \in Slots : class'[h] = GameObject /\ ref'[h][s] # NoId => class'[ref'[h][s]] = s
  <2> SUFFICES ASSUME NEW h \in Ids, NEW s \in Slots, class[h] = GameObject, ref'[h][s] # NoId
               PROVE  class[ref'[h][s]] = s
    BY <1>1
  <2>1. h # c
    BY <1>1
  <2>2. (ref'[h][s] = c /\ s = t) \/ ref'[h][s] = ref[h][s]
    BY <1>4, <2>1
  <2> QED BY <1>2, <1>3, <2>2
<1>7. ASSUME NEW o \in Ids, o = ref[g][t] PROVE o \in 1..count /\ class[o] = t
  BY <1>1, <1>2, <1>7, Bounds
<1>8. isDeleted' \subseteq 1..count /\ held \cap isDeleted' = {}
  BY <1>1, <1>2, <1>3, <1>7
<1>9. ASSUME NEW h \in alive \ isDeleted', NEW s \in Slots, class[h] = GameObject, ref'[h][s] # NoId
      PROVE  ref'[h][s] \in alive \ isDeleted'
  <2>1. CASE h = g /\ s = t
    <3>1. ref'[h][s] = c
      BY <1>4, <2>1
    <3> QED BY <1>1, <1>8, <3>1
  <2>2. CASE ~(h = g /\ s = t)
    <3>1. h \in alive \ isDeleted /\ h \in GameObjects /\ h \in Ids /\ h # c
      BY <1>1, <1>2, <1>9 DEF GameObjects
    <3>2. ref'[h][s] = ref[h][s]
      BY <1>4, <2>2, <3>1
    <3>3. ref[h][s] \in alive \ isDeleted /\ class[ref[h][s]] = s
      BY <1>2, <1>9, <3>1, <3>2
    <3>4. h \in Owners(ref[h][s])
      BY <3>1 DEF Owners
    <3>5. ASSUME ref[h][s] = ref[g][t] PROVE Owners(ref[h][s]) # {g}
      <4>1. s = t
        BY <1>2, <1>7, <3>3, <3>5
      <4> QED BY <2>2, <3>4, <4>1
    <3>6. ref[h][s] \notin isDeleted'
      BY <1>1, <1>3, <3>3, <3>5
    <3> QED BY <3>2, <3>3, <3>6
  <2> QED BY <2>1, <2>2
<1>10. SourceIsSound'
  <2>1. \A h \in alive' \ isDeleted', s \in Slots :
          class'[h] = GameObject /\ ref'[h][s] # NoId => ref'[h][s] \in alive' \ isDeleted'
    BY <1>1, <1>9
  <2>2. /\ count' \in 0..MaxObjects /\ class' \in [Ids -> Classes] /\ alive' \subseteq 1..count'
        /\ held' \subseteq alive' /\ isDeleted' \subseteq 1..count' /\ held' \cap isDeleted' = {}
        /\ ref' \in [Ids -> Refs(Ids)]
    BY <1>1, <1>2, <1>4, <1>8
  <2>3. /\ \A i \in Ids, s \in Slots : ref'[i][s] \in 1..count' \cup {NoId}
        /\ \A i \in Ids, s \in Slots : i > count' => ref'[i][s] = NoId
    BY <1>1, <1>5
  <2> QED BY <1>6, <2>1, <2>2, <2>3 DEF SourceIsSound
<1> QED BY <1>10, TargetKept DEF addComponent

LEMMA DropIInv ==
  ASSUME IInv, NEW i \in Ids, Drop(i)
  PROVE  IInv'
<1> USE DEF IInv
<1>1. isDeleted' \subseteq isDeleted \cup {i} /\ (i \in isDeleted' => Owners(i) = {} \/ i \in isDeleted)
  BY DEF Drop
<1>2. \A g \in alive \ isDeleted', s \in Slots :
        class[g] = GameObject /\ ref[g][s] # NoId => ref[g][s] \in alive \ isDeleted'
  <2> SUFFICES ASSUME NEW g \in alive \ isDeleted', NEW s \in Slots, class[g] = GameObject, ref[g][s] # NoId
               PROVE  ref[g][s] \in alive \ isDeleted'
    OBVIOUS
  <2>1. g \in alive \ isDeleted /\ g \in Owners(ref[g][s])
    BY DEF Drop, Owners, GameObjects
  <2>2. ref[g][s] \in alive \ isDeleted
    BY <2>1 DEF SourceIsSound
  <2> QED BY <1>1, <2>1, <2>2
<1>3. SourceIsSound'
  <2>1. /\ held' = held \ {i} /\ i \in held
        /\ count' = count /\ class' = class /\ alive' = alive /\ ref' = ref
    BY DEF Drop
  <2>2. isDeleted' \subseteq 1..count /\ held' \cap isDeleted' = {} /\ held' \subseteq alive
    BY <1>1, <2>1 DEF SourceIsSound
  <2> QED BY <1>2, <2>1, <2>2 DEF SourceIsSound
<1> QED BY <1>3, TargetKept DEF Drop

LEMMA releaseUnusedObjectsIInv ==
  ASSUME IInv, releaseUnusedObjects
  PROVE  IInv'
<1> USE DEF IInv
<1> DEFINE garbage == alive \cap isDeleted
           orphans == {c \in alive \ held : Owners(c) # {} /\ Owners(c) \subseteq garbage}
<1>1. PICK reached \in SUBSET orphans :
        /\ alive' = alive \ (garbage \cup reached) /\ isDeleted' = isDeleted \cup orphans
        /\ count' = count /\ class' = class /\ held' = held /\ ref' = ref
  BY DEF releaseUnusedObjects
<1>2. \A g \in alive' \ isDeleted', s \in Slots :
        class[g] = GameObject /\ ref[g][s] # NoId => ref[g][s] \in alive' \ isDeleted'
  <2> SUFFICES ASSUME NEW g \in alive' \ isDeleted', NEW s \in Slots, class[g] = GameObject, ref[g][s] # NoId
               PROVE  ref[g][s] \in alive' \ isDeleted'
    OBVIOUS
  <2>1. g \in alive \ isDeleted /\ g \in Owners(ref[g][s])
    BY <1>1 DEF Owners, GameObjects
  <2>2. ref[g][s] \in alive \ isDeleted
    BY <2>1 DEF SourceIsSound
  <2>3. ref[g][s] \notin orphans
    BY <2>1
  <2> QED BY <1>1, <2>2, <2>3
<1>3. SourceIsSound'
  <2>1. /\ alive' \subseteq 1..count /\ held \subseteq alive' /\ isDeleted' \subseteq 1..count
        /\ held \cap isDeleted' = {}
    BY <1>1 DEF SourceIsSound
  <2> QED BY <1>1, <1>2, <2>1 DEF SourceIsSound
<1> QED BY <1>3, TargetKept DEF releaseUnusedObjects

-----------------------------------------------------------------------------
(* write. *)

(* The hash map gives each of its entries, and each of them once. *)
LEMMA OrderIsOnto ==
  ASSUME NEW S \in SUBSET Ids, NEW order \in Orders(S)
  PROVE  /\ Cardinality(S) \in 0..MaxObjects
         /\ order \in [1..Cardinality(S) -> S]
         /\ \A i, j \in 1..Cardinality(S) : i # j => order[i] # order[j]
         /\ \A x \in S : \E k \in 1..Cardinality(S) : order[k] = x
<1> DEFINE n == Cardinality(S)
<1>1. IsFiniteSet(Ids) /\ Cardinality(Ids) = MaxObjects
  BY Bounds, FS_Interval DEF Ids
<1>2. IsFiniteSet(S) /\ n <= MaxObjects
  BY <1>1, FS_Subset
<1>3. n \in Nat
  BY <1>2, FS_CardinalityType
<1>4. order \in [1..n -> S] /\ \A i, j \in 1..n : i # j => order[i] # order[j]
  BY DEF Orders
<1>5. IsFiniteSet(1..n) /\ Cardinality(1..n) = n
  BY <1>3, FS_Interval
<1>6. order \in Injection(1..n, S)
  BY <1>4 DEF Injection, IsInjective
<1>7. order \in Surjection(1..n, S)
  BY <1>2, <1>5, <1>6, FS_Injection
<1>8. \A x \in S : \E k \in 1..n : order[k] = x
  BY <1>7 DEF Surjection
<1> QED BY <1>2, <1>3, <1>4, <1>8, Bounds

(* Before the first call of deserialize the target is empty. *)
LEMMA EmptyTarget ==
  ASSUME IInv, calls = 0
  PROVE  /\ ~cut /\ Len(given) = 0 /\ Len(before) = 0 /\ Len(objects) = 0
         /\ DOMAIN objects = {} /\ DOMAIN before = {} /\ unread = <<>>
<1>1. ~cut /\ given = <<>> /\ before = <<>> /\ unread \in Seq(Record) /\ Len(unread) <= Len(given)
  BY DEF IInv, ReadingIsSound
<1>2. Len(given) = 0 /\ Len(before) = 0
  BY <1>1
<1>3. /\ Position \in 0..Len(given) /\ Len(objects) = Len(before) + Position /\ Len(unread) \in Nat
      /\ DOMAIN objects = 1..Len(objects) /\ DOMAIN before = 1..Len(before)
  BY Sizes DEF IInv
<1>4. Len(unread) = 0 /\ Len(objects) = 0
  BY <1>1, <1>2, <1>3
<1>5. unread = <<>>
  BY <1>1, <1>4, EmptySeq
<1> QED BY <1>1, <1>2, <1>3, <1>4, <1>5

LEMMA serializeIInv ==
  ASSUME IInv, serialize
  PROVE  IInv'
<1> DEFINE n == Cardinality(Written)
<1>1. Written \in SUBSET Ids
  BY Bounds DEF IInv, SourceIsSound, Written, Ids
<1>2. PICK order \in Orders(Written), freed \in [{i \in Written : Dangling(i)} -> Ids \cup {NoId}] :
        saved' = [k \in DOMAIN order |-> [id |-> order[k], class |-> class[order[k]],
                                         ref |-> WrittenRefs(order[k], freed)]]
  BY DEF serialize
<1>3. /\ n \in 0..MaxObjects /\ order \in [1..n -> Written]
      /\ \A i, j \in 1..n : i # j => order[i] # order[j]
      /\ \A x \in Written : \E k \in 1..n : order[k] = x
  BY <1>1, OrderIsOnto
<1>4. ASSUME NEW x \in Written
      PROVE  /\ class[x] \in Classes /\ WrittenRefs(x, freed) \in Refs(Ids)
             /\ class[x] = GameObject => WrittenRefs(x, freed) = ref[x]
  <2>1. class[x] \in Classes /\ ref[x] \in Refs(Ids)
    BY <1>1 DEF IInv, SourceIsSound
  <2>2. CASE Dangling(x)
    <3>1. freed[x] \in Ids \cup {NoId} /\ class[x] # GameObject
      BY <1>2, <2>2 DEF Dangling
    <3>2. \A f \in Refs(Ids), y \in Ids \cup {NoId} : \A s : [f EXCEPT ![s] = y] \in Refs(Ids)
      BY DEF Refs
    <3>3. [ref[x] EXCEPT ![class[x]] = freed[x]] \in Refs(Ids)
      BY <2>1, <3>1, <3>2
    <3> QED BY <2>1, <2>2, <3>1, <3>3 DEF WrittenRefs
  <2>3. CASE ~Dangling(x)
    BY <2>1, <2>3 DEF WrittenRefs
  <2> QED BY <2>2, <2>3
<1>5. ASSUME NEW k \in 1..n
      PROVE  /\ order[k] \in Written /\ order[k] \in Ids
             /\ saved'[k].id = order[k] /\ saved'[k].class = class[order[k]]
             /\ saved'[k].ref = WrittenRefs(order[k], freed)
             /\ saved'[k] \in Record
  <2>1. order[k] \in Written /\ order[k] \in Ids
    BY <1>1, <1>3
  <2>2. PICK x \in Written : x = order[k] /\ x \in Ids
    BY <2>1
  <2>3. PICK r \in Refs(Ids) : r = WrittenRefs(x, freed)
    BY <1>4
  <2>4. saved'[k] = [id |-> x, class |-> class[x], ref |-> r]
    BY <1>2, <1>3, <2>2, <2>3
  <2>5. saved'[k] \in Record
    BY <1>4, <2>2, <2>4 DEF Record
  <2> QED BY <2>1, <2>2, <2>3, <2>4, <2>5
<1>6. saved' \in Seq(Record) /\ Len(saved') = n /\ DOMAIN saved' = 1..n
  <2>1. saved' \in [1..n -> Record]
    <3>1. DOMAIN order = 1..n
      BY <1>3
    <3>2. saved' = [k \in 1..n |-> saved'[k]]
      BY <1>2, <3>1
    <3> QED BY <1>5, <3>2
  <2>2. n \in Nat
    BY <1>3
  <2>3. saved' \in Seq(Record)
    BY <2>1, <2>2
  <2> QED BY <2>1, <2>2, <2>3
<1>7. ComponentTravelsWithOwner'
  <2> SUFFICES ASSUME NEW k \in 1..n, NEW s \in Slots, saved'[k].class = GameObject, saved'[k].ref[s] # NoId
               PROVE  \E j \in 1..n : saved'[j].id = saved'[k].ref[s]
    BY <1>6 DEF ComponentTravelsWithOwner, SavedIds
  <2>1. PICK x \in Written : x = order[k] /\ class[x] = GameObject
    BY <1>5
  <2>2. saved'[k].ref = ref[x]
    BY <1>4, <1>5, <2>1
  <2>3. ref[x][s] \in Written
    BY <2>1, <2>2 DEF IInv, SourceIsSound, Written
  <2>4. PICK j \in 1..n : order[j] = ref[x][s]
    BY <1>3, <2>3
  <2> QED BY <1>5, <2>2, <2>4
<1>8. StreamIsSound'
  <2>1. \A i, j \in 1..n : i # j => saved'[i].id # saved'[j].id
    BY <1>3, <1>5
  <2> QED BY <1>3, <1>6, <1>7, <2>1 DEF StreamIsSound
<1>9. /\ objects' = objects /\ given' = given /\ cut' = cut /\ unread' = unread /\ remap' = remap
      /\ toLink' = toLink /\ calls' = calls /\ failed' = failed /\ before' = before
      /\ phase = "building" /\ phase' = "done" /\ UNCHANGED source
  BY DEF serialize, target
<1>10. calls = 0 /\ calls \in 0..MaxCalls /\ failed \subseteq 1..calls /\ toLink = {}
  BY <1>9 DEF IInv, CallsAreSound, LinkingIsSound
<1>11. /\ ~cut /\ Len(given) = 0 /\ Len(before) = 0 /\ Len(objects) = 0
       /\ DOMAIN objects = {} /\ DOMAIN before = {} /\ unread = <<>>
  BY <1>10, EmptyTarget
<1>12. SourceIsSound'
  BY <1>9, SourceKept DEF IInv
<1>13. ReadingIsSound'
  <2>1. Position' = Position
    BY <1>9 DEF Position
  <2>2. Len(given') <= Len(saved') /\ \A k \in 1..Len(given') : given'[k] = saved'[k]
    BY <1>3, <1>6, <1>9, <1>11
  <2>3. /\ given' \in Seq(Record) /\ cut' \in BOOLEAN /\ unread' \in Seq(Record)
        /\ Len(unread') <= Len(given') /\ objects' \in Seq(Object) /\ before' \in Seq(Object)
        /\ Len(before') + Len(given') <= MaxNew
        /\ (calls' = 0 => before' = <<>> /\ given' = <<>> /\ ~cut')
    BY <1>9 DEF IInv, ReadingIsSound
  <2>4. /\ \A i \in 1..Len(unread') : unread'[i] = given'[Position' + i]
        /\ Len(objects') = Len(before') + Position'
        /\ DOMAIN remap' = {given'[k].id : k \in 1..Position'}
        /\ \A k \in 1..Position' : remap'[given'[k].id] = Len(before') + k
    BY <1>9, <2>1 DEF IInv, ReadingIsSound
  <2> QED BY <2>2, <2>3, <2>4 DEF ReadingIsSound
<1>14. LinkingIsSound' /\ LinksStayInOneCall'
  BY <1>9, <1>10, <1>11 DEF LinkingIsSound, LinksStayInOneCall
<1>15. CallsAreSound'
  BY <1>9, <1>10, <1>11 DEF CallsAreSound
<1> QED BY <1>8, <1>12, <1>13, <1>14, <1>15 DEF IInv

-----------------------------------------------------------------------------
(* read. *)

LEMMA BeginDeserializeIInv ==
  ASSUME IInv, NEW records \in 0..MaxObjects, NEW piece \in BOOLEAN, BeginDeserialize(records, piece)
  PROVE  IInv'
<1> USE DEF IInv
<1>1. /\ phase \in {"done", "threw"} /\ phase' = "reading" /\ calls < MaxCalls /\ calls' = calls + 1
      /\ records <= Len(saved) /\ Len(objects) + records <= MaxNew
      /\ given' = SubSeq(saved, 1, records) /\ cut' = piece
      /\ unread' = given' /\ remap' = <<>> /\ before' = objects
      /\ UNCHANGED source /\ saved' = saved /\ objects' = objects /\ toLink' = toLink /\ failed' = failed
  BY DEF BeginDeserialize
<1>2. /\ saved \in Seq(Record) /\ Len(saved) \in Nat /\ records \in Nat /\ calls \in 0..MaxCalls /\ MaxCalls \in Nat
      /\ toLink = {} /\ failed \subseteq 1..calls
  BY <1>1, Bounds, LenProperties DEF StreamIsSound, CallsAreSound, LinkingIsSound
<1>3. given' \in Seq(Record) /\ Len(given') = records /\ \A k \in 1..records : given'[k] = saved[k]
  <2>1. \A k \in 1..records : saved[k] \in Record
    BY <1>1, <1>2, ElementOfSeq
  <2>2. /\ SubSeq(saved, 1, records) \in Seq(Record)
        /\ Len(SubSeq(saved, 1, records)) = IF 1 <= records THEN records - 1 + 1 ELSE 0
        /\ \A i \in 1 .. records - 1 + 1 : SubSeq(saved, 1, records)[i] = saved[1 + i - 1]
    BY <1>2, <2>1, SubSeqProperties
  <2> QED BY <1>1, <1>2, <2>2
<1>4. objects \in Seq(Object) /\ Len(objects) \in Nat /\ DOMAIN objects = 1..Len(objects)
  BY <1>2, Sizes DEF ReadingIsSound
<1>5. ReadingIsSound'
  <2>1. Position' = 0 /\ 1..Position' = {}
    BY <1>1, <1>2, <1>3 DEF Position
  <2>2. DOMAIN remap' = {given'[k].id : k \in 1..Position'}
    BY <1>1, <2>1
  <2>3. \A i \in 1..Len(unread') : unread'[i] = given'[Position' + i]
    BY <1>1, <1>2, <1>3, <2>1
  <2>4. Len(objects') = Len(before') + Position'
    BY <1>1, <1>4, <2>1
  <2>5. calls' # 0 /\ Len(before') + Len(given') <= MaxNew
    BY <1>1, <1>2, <1>3
  <2>6. Len(unread') <= Len(given') /\ Len(given') <= Len(saved')
    BY <1>1, <1>2, <1>3
  <2>7. given' \in Seq(Record) /\ cut' \in BOOLEAN /\ unread' \in Seq(Record) /\ objects' \in Seq(Object) /\ before' \in Seq(Object)
    BY <1>1, <1>3, <1>4
  <2>8. \A k \in 1..Len(given') : given'[k] = saved'[k]
    BY <1>1, <1>3
  <2> QED BY <2>1, <2>2, <2>3, <2>4, <2>5, <2>6, <2>7, <2>8 DEF ReadingIsSound
<1>6. LinkingIsSound'
  <2>1. \A n \in DOMAIN objects' : Original(n)' = objects'[n]
    BY <1>1, <1>4 DEF Original
  <2>2. \A n \in DOMAIN objects' : LinkSound(n)'
    <3> SUFFICES ASSUME NEW n \in DOMAIN objects'
                 PROVE  LinkSound(n)'
      OBVIOUS
    <3>1. PICK x : x = objects'[n]
      OBVIOUS
    <3>2. LinkOf(x, x)'
      BY DEF LinkOf, Kept
    <3> QED BY <2>1, <3>1, <3>2 DEF LinkSound
  <2> QED BY <1>1, <1>2, <2>1, <2>2 DEF LinkingIsSound
<1>7. ASSUME NEW n \in DOMAIN objects
      PROVE  /\ Sane(objects[n])
             /\ objects[n].call < calls + 1 /\ objects[n].stray < calls + 1
             /\ \A s \in Slots : Refers(objects[n], s) /\ s \notin objects[n].linked => objects[n].call \in failed
  <2>1. n \in 1..Len(objects) /\ calls > 0
    BY <1>2, <1>4, EmptyTarget
  <2>2. objects[n].call <= calls /\ objects[n].stray <= calls /\ Sane(objects[n])
    BY <2>1, CallOfObject, StillSane
  <2>3. objects[n].call \in Nat /\ objects[n].stray \in Nat
    <3>1. PICK y \in Object : y = objects[n]
      BY <1>4, <2>1, ElementOfSeq
    <3> QED BY <1>2, <3>1 DEF Object
  <2>4. \A s \in Slots : Refers(objects[n], s) /\ s \notin objects[n].linked => objects[n].call \in failed
    BY <1>1, <2>1, UnlinkedFailed
  <2> QED BY <1>2, <2>2, <2>3, <2>4
<1>8. CallsAreSound'
  <2>1. calls + 1 \in 0..MaxCalls /\ calls + 1 > 0 /\ failed \subseteq 1..(calls + 1)
    BY <1>1, <1>2
  <2>2. \A n \in DOMAIN before' :
          /\ Sane(before'[n])
          /\ before'[n].call < calls' /\ before'[n].stray < calls'
          /\ \A s \in Slots : Refers(before'[n], s) /\ s \notin before'[n].linked => before'[n].call \in failed'
    BY <1>1, <1>7
  <2>3. /\ phase' \in {"building", "reading", "linking", "done", "threw"} /\ calls' \in 0..MaxCalls
        /\ (phase' \in {"reading", "linking", "threw"} => calls' > 0)
        /\ (phase' = "building" => calls' = 0 /\ saved' = <<>>)
        /\ failed' \subseteq 1..calls'
        /\ phase' # "threw"
    BY <1>1, <2>1
  <2> QED BY <2>2, <2>3 DEF CallsAreSound, Sane, Refers
<1>9. LinksStayInOneCall'
  BY <1>1 DEF LinksStayInOneCall
<1> QED BY <1>1, <1>5, <1>6, <1>8, <1>9, SourceKept, StreamKept

LEMMA ReadNextIInv ==
  ASSUME IInv, ReadNext
  PROVE  IInv'
<1> USE DEF IInv
<1>1. /\ phase = "reading" /\ unread # <<>>
      /\ objects' = Append(objects, ReadObject(Head(unread)))
      /\ remap' = Extend(remap, Head(unread).id, Len(objects) + 1)
      /\ unread' = Tail(unread)
      /\ UNCHANGED source /\ saved' = saved /\ given' = given /\ cut' = cut /\ toLink' = toLink
      /\ phase' = phase /\ calls' = calls /\ failed' = failed /\ before' = before
  BY DEF ReadNext, stream
<1>2. /\ Len(given) \in Nat /\ Len(unread) \in Nat /\ Len(before) \in Nat /\ Len(objects) \in Nat
      /\ DOMAIN objects = 1..Len(objects)
      /\ Position \in 0..Len(given) /\ Len(objects) = Len(before) + Position
      /\ \A k \in 1..Len(given) : given[k] \in Record
  BY Sizes
<1>3. calls \in 1..MaxCalls /\ toLink = {}
  BY <1>1 DEF CallsAreSound, LinkingIsSound
<1>4. /\ unread \in Seq(Record) /\ Len(unread) > 0 /\ Tail(unread) \in Seq(Record)
      /\ Len(Tail(unread)) = Len(unread) - 1 /\ \A i \in 1..Len(Tail(unread)) : Tail(unread)[i] = unread[i + 1]
      /\ Head(unread) = unread[1]
  <2>1. unread \in Seq(Record)
    BY DEF ReadingIsSound
  <2> QED BY <1>1, <2>1, HeadTailProperties
<1>5. Position + 1 \in 1..Len(given) /\ Position' = Position + 1
  BY <1>1, <1>2, <1>4 DEF Position
<1>6. PICK p \in 1..Len(given) : p = Position + 1
  BY <1>5
<1>7. Head(unread) = given[p]
  BY <1>2, <1>4, <1>6 DEF ReadingIsSound
<1>8. PICK x : x = ReadObject(given[p])
  OBVIOUS
<1>9. x \in Object /\ x.linked = {} /\ x.call = calls
  <2>1. given[p] \in Record
    BY <1>2
  <2> QED BY <1>3, <1>8, <2>1, ReadObjectType
<1>10. /\ objects' \in Seq(Object) /\ Len(objects') = Len(objects) + 1
       /\ \A n \in 1..Len(objects) : objects'[n] = objects[n]
       /\ objects'[Len(objects) + 1] = x
  <2>1. objects \in Seq(Object) /\ objects' = Append(objects, x)
    BY <1>1, <1>7, <1>8 DEF ReadingIsSound
  <2> QED BY <1>9, <2>1, AppendProperties
<1>11. DOMAIN objects' = 1..(Len(objects) + 1)
  BY <1>10, LenProperties
<1>12. /\ DOMAIN remap' = {given[k].id : k \in 1..p}
       /\ \A k \in 1..p : remap'[given[k].id] = Len(before) + k
  <2>1. /\ DOMAIN remap = {given[k].id : k \in 1..Position}
        /\ \A k \in 1..Position : remap[given[k].id] = Len(before) + k
    BY DEF ReadingIsSound
  <2>2. /\ DOMAIN remap' = DOMAIN remap \cup {given[p].id}
        /\ \A i \in DOMAIN remap' : remap'[i] = IF i = given[p].id THEN Len(objects) + 1 ELSE remap[i]
    BY <1>1, <1>7 DEF Extend
  <2>3. \A k \in 1..p : k \in 1..Position \/ k = p
    BY <1>2, <1>6
  <2>4. p \in 1..p /\ 1..Position \subseteq 1..p
    BY <1>2, <1>6
  <2>5. DOMAIN remap' = {given[k].id : k \in 1..p}
    BY <2>1, <2>2, <2>3, <2>4
  <2>6. \A k \in 1..Position : given[k].id # given[p].id
    <3> SUFFICES ASSUME NEW k \in 1..Position PROVE given[k].id # given[p].id
      OBVIOUS
    <3>1. k \in 1..Len(given) /\ k # p
      BY <1>2, <1>6
    <3>2. given[k] = saved[k] /\ given[p] = saved[p] /\ Len(given) <= Len(saved)
      BY <3>1 DEF ReadingIsSound
    <3>3. k \in DOMAIN saved /\ p \in DOMAIN saved
      BY <1>2, <3>1, <3>2, LenProperties DEF StreamIsSound
    <3> QED BY <3>1, <3>2, <3>3 DEF StreamIsSound
  <2>7. \A k \in 1..Position : remap'[given[k].id] = Len(before) + k
    BY <2>1, <2>2, <2>6
  <2>8. remap'[given[p].id] = Len(before) + p
    BY <1>2, <1>6, <2>2
  <2> QED BY <2>3, <2>5, <2>7, <2>8
<1>13. ReadingIsSound'
  <2>1. Len(unread') <= Len(given') /\ Len(objects') = Len(before') + Position'
    BY <1>1, <1>2, <1>4, <1>5, <1>10 DEF Position
  <2>2. \A i \in 1..Len(unread') : unread'[i] = given'[Position' + i]
    <3> SUFFICES ASSUME NEW i \in 1..Len(Tail(unread)) PROVE Tail(unread)[i] = given[(Position + 1) + i]
      BY <1>1, <1>5
    <3>1. i + 1 \in 1..Len(unread) /\ Position + (i + 1) = (Position + 1) + i
      BY <1>2, <1>4
    <3>2. unread[i + 1] = given[Position + (i + 1)]
      BY <3>1 DEF ReadingIsSound
    <3> QED BY <1>4, <3>1, <3>2
  <2>3. Position' = p
    BY <1>5, <1>6
  <2>4. /\ given' \in Seq(Record) /\ cut' \in BOOLEAN /\ unread' \in Seq(Record) /\ before' \in Seq(Object)
        /\ Len(given') <= Len(saved') /\ \A k \in 1..Len(given') : given'[k] = saved'[k]
        /\ calls' # 0 /\ Len(before') + Len(given') <= MaxNew
    BY <1>1, <1>3, <1>4 DEF ReadingIsSound
  <2> QED BY <1>1, <1>10, <1>12, <2>1, <2>2, <2>3, <2>4 DEF ReadingIsSound
<1>14. LinkingIsSound'
  <2>1. \A n : Original(n)' = Original(n)
    BY <1>1 DEF Original, ReadObject
  <2>2. \A n \in 1..Len(objects) : objects'[n] = Original(n)'
    BY <1>1, <1>2, <1>10, <2>1 DEF LinkingIsSound
  <2>3. Original(Len(objects) + 1) = x
    <3>1. ~(Len(objects) + 1 <= Len(before)) /\ Len(objects) + 1 - Len(before) = p
      BY <1>2, <1>6
    <3> QED BY <1>8, <3>1 DEF Original
  <2>4. \A n \in DOMAIN objects' : n \in 1..Len(objects) \/ n = Len(objects) + 1
    BY <1>2, <1>11
  <2>5. \A n \in DOMAIN objects' : objects'[n] = Original(n)'
    BY <1>10, <2>1, <2>2, <2>3, <2>4
  <2>6. \A n \in DOMAIN objects' : LinkSound(n)'
    <3> SUFFICES ASSUME NEW n \in DOMAIN objects'
                 PROVE  LinkSound(n)'
      OBVIOUS
    <3>1. PICK y : y = objects'[n]
      OBVIOUS
    <3>2. LinkOf(y, y)'
      BY DEF LinkOf, Kept
    <3> QED BY <2>5, <3>1, <3>2 DEF LinkSound
  <2> QED BY <1>1, <1>3, <2>5, <2>6 DEF LinkingIsSound
<1>15. CallsAreSound'
  BY <1>1 DEF CallsAreSound, Refers, Sane
<1>16. LinksStayInOneCall'
  <2> SUFFICES ASSUME NEW n \in DOMAIN objects', NEW s \in objects'[n].linked
               PROVE  LinkGood(n, s)'
    BY DEF LinksStayInOneCall, LinkGood
  <2>1. n \in 1..Len(objects) /\ n \in DOMAIN objects
    <3>1. n \in 1..Len(objects) \/ n = Len(objects) + 1
      BY <1>2, <1>11
    <3> QED BY <1>2, <1>9, <1>10, <3>1
  <2>2. PICK y : y = objects[n] /\ y = objects'[n]
    BY <1>10, <2>1
  <2>3. LinkGood(n, s)
    BY <2>1, <2>2 DEF LinksStayInOneCall, LinkGood
  <2>4. PICK m \in 1..Len(objects) : m = y.ref[s]
    BY <1>2, <2>2, <2>3 DEF LinkGood
  <2>5. objects'[m] = objects[m] /\ m \in DOMAIN objects'
    BY <1>2, <1>10, <1>11
  <2> QED BY <1>1, <2>2, <2>3, <2>4, <2>5 DEF LinkGood
<1> QED BY <1>1, <1>13, <1>14, <1>15, <1>16, SourceKept, StreamKept

LEMMA ReadThrowsIInv ==
  ASSUME IInv, ReadThrows
  PROVE  IInv'
<1> USE DEF IInv
<1>1. /\ phase = "reading" /\ phase' = "threw" /\ unread = <<>> /\ cut /\ failed' = failed \cup {calls}
      /\ UNCHANGED source /\ saved' = saved /\ given' = given /\ cut' = cut /\ objects' = objects
      /\ unread' = unread /\ remap' = remap /\ toLink' = toLink /\ calls' = calls /\ before' = before
  BY DEF ReadThrows, stream
<1>2. calls \in 1..MaxCalls /\ MaxCalls \in Nat
  BY <1>1, Bounds DEF CallsAreSound
<1>3. ReadingIsSound'
  <2>1. Position' = Position
    BY <1>1 DEF Position
  <2> QED BY <1>1, <2>1 DEF ReadingIsSound
<1>4. LinkingIsSound'
  BY <1>1, LinksKept DEF LinkingIsSound
<1>5. CallsAreSound'
  <2>1. Cause'
    BY <1>1 DEF Cause
  <2>2. failed' \subseteq 1..calls'
    BY <1>1, <1>2 DEF CallsAreSound
  <2> QED BY <1>1, <1>2, <2>1, <2>2 DEF CallsAreSound, Refers, Sane
<1>6. LinksStayInOneCall'
  BY <1>1 DEF LinksStayInOneCall
<1> QED BY <1>1, <1>3, <1>4, <1>5, <1>6, SourceKept, StreamKept

-----------------------------------------------------------------------------
(* link. *)

LEMMA BeginLinkIInv ==
  ASSUME IInv, BeginLink
  PROVE  IInv'
<1> USE DEF IInv
<1>1. /\ phase = "reading" /\ phase' = "linking" /\ unread = <<>> /\ ~cut /\ toLink' = DOMAIN objects
      /\ UNCHANGED source /\ saved' = saved /\ given' = given /\ cut' = cut /\ objects' = objects
      /\ unread' = unread /\ remap' = remap /\ calls' = calls /\ failed' = failed /\ before' = before
  BY DEF BeginLink, stream
<1>2. ReadingIsSound'
  <2>1. Position' = Position
    BY <1>1 DEF Position
  <2> QED BY <1>1, <2>1 DEF ReadingIsSound
<1>3. LinkingIsSound'
  BY <1>1, LinksKept DEF LinkingIsSound
<1>4. CallsAreSound'
  BY <1>1 DEF CallsAreSound, Refers, Sane
<1>5. LinksStayInOneCall'
  BY <1>1 DEF LinksStayInOneCall
<1> QED BY <1>1, <1>2, <1>3, <1>4, <1>5, SourceKept, StreamKept

(* What linking makes of an object whose references can be linked. *)
LEMMA LinkedObject ==
  ASSUME ReadingIsSound, NEW x \in Object, NEW S \in SUBSET Slots,
         \A s \in S : Refers(x, s) => s \notin x.linked /\ x.ref[s] \in DOMAIN remap
  PROVE  /\ Linked(x, S) \in Object /\ LinkOf(x, Linked(x, S))
         /\ Linked(x, S).stray = x.stray
         /\ \A s \in S : Refers(x, s) => Straight(x, Linked(x, S), s)
<1> DEFINE r == [s \in Slots |-> IF s \in S /\ Refers(x, s) THEN remap[x.ref[s]] ELSE x.ref[s]]
           l == x.linked \cup {s \in S : Refers(x, s)}
<1>1. \A s \in S : Refers(x, s) => remap[x.ref[s]] \in NewIds
  BY RemapRange
<1>2. r \in Refs(Ids \cup NewIds) /\ l \in SUBSET Slots
  <2>1. x.ref \in [Slots -> Ids \cup NewIds \cup {NoId}] /\ x.linked \in SUBSET Slots
    BY DEF Object, Refs
  <2> QED BY <1>1, <2>1 DEF Refs
<1>3. PICK y \in Object : /\ y = Linked(x, S) /\ y.class = x.class /\ y.call = x.call /\ y.stray = x.stray
                          /\ y.ref = r /\ y.linked = l
  <2> HIDE DEF r, l
  <2>1. \A z \in Object : /\ [z EXCEPT !.ref = r, !.linked = l] \in Object
                          /\ [z EXCEPT !.ref = r, !.linked = l].class = z.class
                          /\ [z EXCEPT !.ref = r, !.linked = l].call = z.call
                          /\ [z EXCEPT !.ref = r, !.linked = l].stray = z.stray
                          /\ [z EXCEPT !.ref = r, !.linked = l].ref = r
                          /\ [z EXCEPT !.ref = r, !.linked = l].linked = l
    BY <1>2 DEF Object
  <2>2. Linked(x, S) = [x EXCEPT !.ref = r, !.linked = l]
    BY DEF Linked, r, l
  <2> QED BY <2>1, <2>2
<1>4. ASSUME NEW s \in Slots, s \in S, Refers(x, s) PROVE Straight(x, y, s)
  BY <1>3, <1>4 DEF Straight
<1>5. ASSUME NEW s \in Slots, ~(s \in S /\ Refers(x, s)) PROVE Kept(x, y, s)
  BY <1>3, <1>5 DEF Kept
<1> QED BY <1>3, <1>4, <1>5 DEF LinkOf

(* The table leads to objects of this call. *)
LEMMA RemapToThisCall ==
  ASSUME IInv, calls > 0, NEW id \in DOMAIN remap
  PROVE  \E m \in 1..Len(objects) : m = remap[id] /\ objects[m].call = calls
<1>1. PICK m \in 1..Len(objects) : m = remap[id] /\ m > Len(before)
  BY RemapRange DEF IInv
<1>2. objects[m].call = Original(m).call /\ Original(m).call = calls
  BY <1>1, KeptByLinking, Originals DEF IInv
<1> QED BY <1>1, <1>2

(* Where a reference leads that is linked when n is. *)
LEMMA LinkLeads ==
  ASSUME IInv, phase = "linking", NEW n \in 1..Len(objects), NEW x \in Object, x = objects[n], x = Original(n),
         NEW y \in Object, LinkOf(x, y), NEW s \in y.linked
  PROVE  \E m \in 1..Len(objects) :
           /\ m = y.ref[s]
           /\ IF y.stray # 0 THEN objects[m].call = y.stray
              ELSE objects[m].call = y.call \/ (y.call \in failed /\ objects[m].call > y.call)
<1> USE DEF IInv
<1>1. calls > 0 /\ calls \in Nat /\ Len(before) \in Nat /\ DOMAIN objects = 1..Len(objects)
  BY Bounds, Sizes DEF CallsAreSound
<1>2. s \in Slots /\ x.linked \subseteq Slots /\ y.class = x.class /\ y.call = x.call
  BY DEF Object, LinkOf
<1>3. Sane(x)
  BY <1>1, Originals
<1>4. ASSUME Stray(x, y, s) PROVE \E m \in 1..Len(objects) : m = y.ref[s] /\ y.stray # 0 /\ objects[m].call = y.stray
  BY <1>1, <1>4, RemapToThisCall DEF Stray
<1>5. ASSUME ~Stray(x, y, s), s \in x.linked \/ Refers(x, s) PROVE y.stray = x.stray
  <2>1. ASSUME NEW t \in Slots, Stray(x, y, t) PROVE FALSE
    <3>1. x.class = t /\ t # s
      BY <1>5, <2>1 DEF Stray
    <3>2. Refers(x, s) /\ x.class # GameObject
      BY <1>3, <1>5, <3>1, Bounds DEF Sane
    <3> QED BY <3>1, <3>2 DEF Refers
  <2> QED BY <2>1 DEF LinkOf
<1>6. CASE ~Stray(x, y, s) /\ Kept(x, y, s)
  <2>1. s \in x.linked /\ y.ref[s] = x.ref[s] /\ y.stray = x.stray
    BY <1>5, <1>6 DEF Kept
  <2>2. LinkGood(n, s)
    BY <1>1, <2>1 DEF LinksStayInOneCall, LinkGood
  <2> QED BY <1>1, <1>2, <2>1, <2>2 DEF LinkGood
<1>7. CASE ~Stray(x, y, s) /\ Straight(x, y, s)
  <2>1. Refers(x, s) /\ s \notin x.linked /\ x.ref[s] \in DOMAIN remap /\ y.ref[s] = remap[x.ref[s]]
    BY <1>7 DEF Straight
  <2>2. PICK m \in 1..Len(objects) : m = y.ref[s] /\ objects[m].call = calls
    BY <1>1, <2>1, RemapToThisCall
  <2>3. y.stray = 0
    <3>1. ASSUME x.stray # 0 PROVE FALSE
      <4>1. x.class \in x.linked /\ x.class # GameObject
        BY <1>2, <1>3, <3>1, Bounds DEF Sane
      <4> QED BY <2>1, <4>1 DEF Refers
    <3> QED BY <1>5, <1>7, <2>1, <3>1
  <2>4. CASE n > Len(before)
    <3>1. x.call = calls
      BY <1>1, <2>4, Originals
    <3> QED BY <1>2, <2>2, <2>3, <3>1
  <2>5. CASE n <= Len(before)
    <3>1. n \in DOMAIN before /\ x = before[n]
      BY <1>1, <2>5, Originals, Sizes
    <3>2. x.call < calls /\ x.call \in failed
      BY <2>1, <3>1, <1>2 DEF CallsAreSound
    <3>3. x.call \in Nat
      BY Bounds DEF Object
    <3> QED BY <1>1, <1>2, <2>2, <2>3, <3>2, <3>3
  <2> QED BY <1>1, <2>4, <2>5
<1> QED BY <1>2, <1>4, <1>6, <1>7 DEF LinkOf

(* One object is linked, wholly, in part or astray; the others stay. *)
OthersStay(n, y) ==
  /\ DOMAIN objects' = DOMAIN objects
  /\ objects'[n] = y
  /\ \A m \in DOMAIN objects : m # n => objects'[m] = objects[m]
  /\ \A m : Original(m)' = Original(m)
  /\ \A m \in DOMAIN objects : LinkSound(m)'
  /\ \A m \in DOMAIN objects : m # n => WhollyLinked(m)' = WhollyLinked(m)

LEMMA OneIsLinked ==
  ASSUME IInv, phase = "linking", NEW n \in toLink, NEW y \in Object, LinkOf(Original(n), y),
         objects' = [objects EXCEPT ![n] = y],
         UNCHANGED <<saved, given, cut, unread, remap, calls, before>>, failed \subseteq failed'
  PROVE  ReadingIsSound' /\ LinksStayInOneCall' /\ OthersStay(n, y)
<1> USE DEF IInv
<1>1. /\ n \in 1..Len(objects) /\ DOMAIN objects = 1..Len(objects) /\ objects \in Seq(Object)
      /\ objects[n] = Original(n)
  BY Sizes DEF LinkingIsSound, ReadingIsSound
<1>2. PICK x \in Object : x = objects[n] /\ x = Original(n)
  BY <1>1, Sizes
<1>3. /\ objects' \in Seq(Object) /\ Len(objects') = Len(objects) /\ objects'[n] = y
      /\ \A m \in 1..Len(objects) : m # n => objects'[m] = objects[m]
  <2>1. /\ [objects EXCEPT ![n] = y] \in Seq(Object) /\ Len([objects EXCEPT ![n] = y]) = Len(objects)
        /\ \A m \in 1..Len(objects) : [objects EXCEPT ![n] = y][m] = IF m = n THEN y ELSE objects[m]
    BY <1>1, ExceptSeq
  <2> QED BY <1>1, <2>1
<1>4. DOMAIN objects' = 1..Len(objects)
  BY <1>3, LenProperties
<1>5. \A m : Original(m)' = Original(m)
  BY DEF Original, ReadObject
<1>7. \A m \in 1..Len(objects) : LinkSound(m)'
  <2> SUFFICES ASSUME NEW m \in 1..Len(objects) PROVE LinkSound(m)'
    OBVIOUS
  <2>1. PICK a : a = Original(m)
    OBVIOUS
  <2>2. PICK b : b = objects'[m]
    OBVIOUS
  <2>3. LinkOf(a, b)
    <3>1. CASE m = n
      BY <1>3, <2>1, <2>2, <3>1
    <3>2. CASE m # n
      BY <1>1, <1>3, <2>1, <2>2, <3>2 DEF LinkingIsSound, LinkSound
    <3> QED BY <3>1, <3>2
  <2>4. Original(m)' = a
    BY <1>5, <2>1
  <2> QED BY <2>2, <2>3, <2>4 DEF LinkSound, LinkOf, Kept, Straight, Stray, Refers
<1>8. \A m \in 1..Len(objects) : m # n => WhollyLinked(m)' = WhollyLinked(m)
  <2> SUFFICES ASSUME NEW m \in 1..Len(objects), m # n PROVE WhollyLinked(m)' = WhollyLinked(m)
    OBVIOUS
  <2>1. Original(m)' = Original(m) /\ objects'[m] = objects[m]
    BY <1>3, <1>5
  <2> QED BY <2>1 DEF WhollyLinked, AllLinked, Straight, Stray, Refers
<1>9. OthersStay(n, y)
  BY <1>1, <1>3, <1>4, <1>5, <1>7, <1>8 DEF OthersStay
<1>10. ReadingIsSound'
  <2>1. Position' = Position
    BY DEF Position
  <2> QED BY <1>3, <2>1 DEF ReadingIsSound
<1>11. \A m \in 1..Len(objects) : objects'[m].call = objects[m].call
  BY <1>2, <1>3 DEF LinkOf
<1>12. LinksStayInOneCall'
  <2> SUFFICES ASSUME NEW m \in DOMAIN objects', NEW s \in objects'[m].linked
               PROVE  LinkGood(m, s)'
    BY DEF LinksStayInOneCall, LinkGood
  <2>1. m \in 1..Len(objects)
    BY <1>4
  <2>2. PICK b : b = objects'[m]
    OBVIOUS
  <2>3. PICK t \in 1..Len(objects) :
          /\ t = b.ref[s]
          /\ IF b.stray # 0 THEN objects[t].call = b.stray
             ELSE objects[t].call = b.call \/ (b.call \in failed /\ objects[t].call > b.call)
    <3>1. CASE m = n
      <4>1. b = y
        BY <1>3, <2>2, <3>1
      <4>2. LinkOf(x, y)
        BY <1>2
      <4> QED BY <1>1, <1>2, <2>2, <4>1, <4>2, LinkLeads
    <3>2. CASE m # n
      <4>1. b = objects[m] /\ s \in objects[m].linked
        BY <1>3, <2>1, <2>2, <3>2
      <4>2. LinkGood(m, s)
        BY <1>1, <2>1, <4>1 DEF LinksStayInOneCall, LinkGood
      <4> QED BY <1>1, <4>1, <4>2 DEF LinkGood
    <3> QED BY <3>1, <3>2
  <2> QED BY <1>4, <1>11, <2>2, <2>3 DEF LinkGood
<1> QED BY <1>9, <1>10, <1>12

LEMMA LinkIInv ==
  ASSUME IInv, NEW n \in NewIds, Link(n)
  PROVE  IInv'
<1> USE DEF IInv
<1>1. /\ phase = "linking" /\ phase' = phase /\ n \in toLink /\ \A s \in Slots : ~Missing(n, s)
      /\ objects' = [objects EXCEPT ![n] = Linked(@, Slots)] /\ toLink' = toLink \ {n}
      /\ UNCHANGED source /\ saved' = saved /\ given' = given /\ cut' = cut
      /\ unread' = unread /\ remap' = remap /\ calls' = calls /\ failed' = failed /\ before' = before
  BY DEF Link, stream
<1>2. n \in 1..Len(objects) /\ DOMAIN objects = 1..Len(objects)
  BY <1>1, Sizes DEF LinkingIsSound
<1>3. PICK x \in Object : x = objects[n] /\ x = Original(n)
  BY <1>1, <1>2, Sizes DEF LinkingIsSound
<1>4. \A s \in Slots : Refers(x, s) => s \notin x.linked /\ x.ref[s] \in DOMAIN remap
  BY <1>1, <1>3 DEF Missing
<1>5. PICK y \in Object : /\ y = Linked(x, Slots) /\ LinkOf(x, y)
                          /\ \A s \in Slots : Refers(x, s) => Straight(x, y, s)
  BY <1>4, LinkedObject
<1>6. objects' = [objects EXCEPT ![n] = y]
  BY <1>1, <1>2, <1>3, <1>5
<1>7. LinkOf(Original(n), y) /\ failed \subseteq failed'
  BY <1>1, <1>3, <1>5
<1>8. ReadingIsSound' /\ LinksStayInOneCall' /\ OthersStay(n, y)
  BY <1>1, <1>6, <1>7, OneIsLinked
<1>9. WhollyLinked(n)'
  <2>1. Original(n)' = x /\ objects'[n] = y
    BY <1>3, <1>8 DEF OthersStay
  <2> QED BY <1>1, <1>5, <2>1 DEF WhollyLinked, AllLinked, Straight, Stray, Refers
<1>10. LinkingIsSound'
  BY <1>1, <1>8, <1>9 DEF LinkingIsSound, OthersStay
<1>11. CallsAreSound'
  BY <1>1 DEF CallsAreSound, Refers, Sane
<1> QED BY <1>1, <1>8, <1>10, <1>11, SourceKept, StreamKept

LEMMA LinkAstrayIInv ==
  ASSUME IInv, NEW n \in NewIds, LinkAstray(n)
  PROVE  IInv'
<1> USE DEF IInv
<1>1. PICK id \in DOMAIN remap :
      /\ phase = "linking" /\ phase' = phase /\ n \in toLink /\ objects[n].class \in objects[n].linked
      /\ objects' = [objects EXCEPT ![n].ref[objects[n].class] = remap[id], ![n].stray = calls]
      /\ toLink' = toLink \ {n}
      /\ UNCHANGED source /\ saved' = saved /\ given' = given /\ cut' = cut
      /\ unread' = unread /\ remap' = remap /\ calls' = calls /\ failed' = failed /\ before' = before
  BY DEF LinkAstray, stream
<1>2. n \in 1..Len(objects) /\ DOMAIN objects = 1..Len(objects) /\ calls \in 1..MaxCalls /\ MaxCalls \in Nat
  BY <1>1, Bounds, Sizes DEF LinkingIsSound, CallsAreSound
<1>3. PICK x \in Object : x = objects[n] /\ x = Original(n)
  BY <1>1, <1>2, Sizes DEF LinkingIsSound
<1>4. x.class \in x.linked /\ x.class \in Slots /\ x.class # GameObject
  BY <1>1, <1>3, Bounds DEF Object
<1>5. remap[id] \in NewIds
  BY RemapRange
<1>6. PICK r \in Refs(Ids \cup NewIds) :
        /\ r = [x.ref EXCEPT ![x.class] = remap[id]] /\ r[x.class] = remap[id]
        /\ \A s \in Slots : s # x.class => r[s] = x.ref[s]
  <2>1. x.ref \in Refs(Ids \cup NewIds)
    BY DEF Object
  <2>2. \A f \in Refs(Ids \cup NewIds), s \in Slots, v \in NewIds :
          /\ [f EXCEPT ![s] = v] \in Refs(Ids \cup NewIds)
          /\ [f EXCEPT ![s] = v][s] = v
          /\ \A t \in Slots : t # s => [f EXCEPT ![s] = v][t] = f[t]
    BY DEF Refs
  <2> DEFINE f == [x.ref EXCEPT ![x.class] = remap[id]]
  <2>3. /\ f \in Refs(Ids \cup NewIds) /\ f[x.class] = remap[id]
        /\ \A s \in Slots : s # x.class => f[s] = x.ref[s]
    BY <1>4, <1>5, <2>1, <2>2
  <2>4. f = [x.ref EXCEPT ![x.class] = remap[id]]
    OBVIOUS
  <2> HIDE DEF f
  <2> QED BY <2>3, <2>4
<1>7. PICK y \in Object : /\ y = [x EXCEPT !.ref = r, !.stray = calls]
                          /\ y.class = x.class /\ y.call = x.call /\ y.linked = x.linked
                          /\ y.ref = r /\ y.stray = calls
  <2>1. PICK c \in 0..MaxCalls : c = calls
    BY <1>2
  <2>2. \A z \in Object : /\ [z EXCEPT !.ref = r, !.stray = c] \in Object
                          /\ [z EXCEPT !.ref = r, !.stray = c].class = z.class
                          /\ [z EXCEPT !.ref = r, !.stray = c].call = z.call
                          /\ [z EXCEPT !.ref = r, !.stray = c].linked = z.linked
                          /\ [z EXCEPT !.ref = r, !.stray = c].ref = r
                          /\ [z EXCEPT !.ref = r, !.stray = c].stray = c
    BY DEF Object
  <2>3. PICK y : y = [x EXCEPT !.ref = r, !.stray = c]
    OBVIOUS
  <2>4. /\ y \in Object /\ y.class = x.class /\ y.call = x.call /\ y.linked = x.linked
        /\ y.ref = r /\ y.stray = c
    BY <2>2, <2>3
  <2> QED BY <2>1, <2>3, <2>4
<1>8. objects' = [objects EXCEPT ![n] = y]
  BY <1>1, <1>2, <1>3, <1>6, <1>7
<1>9. Stray(x, y, x.class)
  BY <1>4, <1>6, <1>7 DEF Stray
<1>10. \A s \in Slots : s # x.class => Kept(x, y, s)
  BY <1>6, <1>7 DEF Kept
<1>11. LinkOf(Original(n), y) /\ failed \subseteq failed'
  BY <1>1, <1>3, <1>4, <1>7, <1>9, <1>10 DEF LinkOf
<1>12. ReadingIsSound' /\ LinksStayInOneCall' /\ OthersStay(n, y)
  BY <1>1, <1>8, <1>11, OneIsLinked
<1>13. WhollyLinked(n)'
  <2>1. Original(n)' = x /\ objects'[n] = y
    BY <1>3, <1>12 DEF OthersStay
  <2>2. \A s \in Slots : Refers(x, s) => s = x.class
    BY <1>4 DEF Refers
  <2> QED BY <1>1, <1>9, <2>1, <2>2 DEF WhollyLinked, AllLinked, Straight, Stray, Refers
<1>14. LinkingIsSound'
  BY <1>1, <1>12, <1>13 DEF LinkingIsSound, OthersStay
<1>15. CallsAreSound'
  BY <1>1 DEF CallsAreSound, Refers, Sane
<1> QED BY <1>1, <1>12, <1>14, <1>15, SourceKept, StreamKept

LEMMA LinkThrowsIInv ==
  ASSUME IInv, NEW n \in NewIds, LinkThrows(n)
  PROVE  IInv'
<1> USE DEF IInv
<1>1. PICK first \in Slots, S \in SUBSET {s \in Slots : ~Missing(n, s)} :
      /\ phase = "linking" /\ phase' = "threw" /\ n \in toLink
      /\ Missing(n, first)
      /\ objects' = [objects EXCEPT ![n] = Linked(@, S)]
      /\ toLink' = {} /\ failed' = failed \cup {calls}
      /\ UNCHANGED source /\ saved' = saved /\ given' = given /\ cut' = cut
      /\ unread' = unread /\ remap' = remap /\ calls' = calls /\ before' = before
  BY DEF LinkThrows, stream
<1>2. /\ calls \in 1..MaxCalls /\ MaxCalls \in Nat /\ unread = <<>> /\ calls > 0
      /\ n \in 1..Len(objects) /\ Len(before) \in Nat /\ Len(objects) \in Nat
      /\ DOMAIN before = 1..Len(before) /\ DOMAIN given = 1..Len(given) /\ DOMAIN objects = 1..Len(objects)
  BY <1>1, Bounds, Sizes DEF CallsAreSound, LinkingIsSound
<1>3. PICK x \in Object : x = objects[n] /\ x = Original(n)
  BY <1>1, <1>2, Sizes DEF LinkingIsSound
<1>4. \A s \in S : Refers(x, s) => s \notin x.linked /\ x.ref[s] \in DOMAIN remap
  BY <1>1, <1>3 DEF Missing
<1>5. PICK y \in Object : y = Linked(x, S) /\ LinkOf(x, y) /\ y.stray = x.stray
  <2>1. S \in SUBSET Slots
    OBVIOUS
  <2> QED BY <1>4, <2>1, LinkedObject
<1>6. objects' = [objects EXCEPT ![n] = y]
  BY <1>1, <1>2, <1>3, <1>5
<1>7. LinkOf(Original(n), y) /\ failed \subseteq failed'
  BY <1>1, <1>3, <1>5
<1>8. ReadingIsSound' /\ LinksStayInOneCall' /\ OthersStay(n, y)
  BY <1>1, <1>6, <1>7, OneIsLinked
<1>9. Refers(x, first) /\ (first \in x.linked \/ x.ref[first] \notin GivenIds)
  BY <1>1, <1>2, <1>3, RemapTable DEF Missing
<1>10. Cause'
  <2>1. CASE n <= Len(before)
    <3>1. n \in DOMAIN before /\ x = before[n]
      BY <1>2, <1>3, <2>1, Originals
    <3>2. objects'[n].stray # calls
      <4>1. objects'[n] = y
        BY <1>8 DEF OthersStay
      <4>2. x.stray < calls /\ x.stray \in Nat /\ calls \in Nat
        BY <1>2, <3>1 DEF CallsAreSound, Object
      <4> QED BY <1>5, <4>1, <4>2
    <3>3. /\ Refers(before'[n], first)
          /\ IF first \in before'[n].linked THEN objects'[n].stray # calls'
                                            ELSE before'[n].ref[first] \notin GivenIds'
      BY <1>1, <1>9, <3>1, <3>2 DEF GivenIds
    <3> QED BY <1>1, <3>1, <3>3 DEF Cause, Refers
  <2>2. CASE n > Len(before)
    <3>1. PICK k \in 1..Len(given) : k = n - Len(before)
      BY <1>2, <2>2, Originals
    <3>2. x.linked = {} /\ x.class = given[k].class /\ x.ref = given[k].ref
      BY <1>2, <1>3, <2>2, <3>1, Originals
    <3>3. Refers(given[k], first) /\ given[k].ref[first] \notin GivenIds
      BY <1>9, <3>2 DEF Refers
    <3> QED BY <1>1, <1>2, <3>3 DEF Cause, GivenIds, Refers
  <2> QED BY <1>2, <2>1, <2>2
<1>11. LinkingIsSound'
  BY <1>1, <1>8 DEF LinkingIsSound, OthersStay
<1>12. CallsAreSound'
  <2>1. failed' \subseteq 1..calls'
    BY <1>1, <1>2 DEF CallsAreSound
  <2> QED BY <1>1, <1>2, <1>10, <2>1 DEF CallsAreSound, Refers, Sane
<1> QED BY <1>1, <1>8, <1>11, <1>12, SourceKept, StreamKept

LEMMA EndDeserializeIInv ==
  ASSUME IInv, EndDeserialize
  PROVE  IInv'
<1> USE DEF IInv
<1>1. /\ phase = "linking" /\ phase' = "done" /\ toLink = {} /\ toLink' = toLink
      /\ UNCHANGED source /\ saved' = saved /\ given' = given /\ cut' = cut /\ objects' = objects
      /\ unread' = unread /\ remap' = remap /\ calls' = calls /\ failed' = failed /\ before' = before
  BY DEF EndDeserialize, stream
<1>2. ReadingIsSound'
  <2>1. Position' = Position
    BY <1>1 DEF Position
  <2> QED BY <1>1, <2>1 DEF ReadingIsSound
<1>3. LinkingIsSound'
  BY <1>1, LinksKept DEF LinkingIsSound
<1>4. CallsAreSound'
  BY <1>1 DEF CallsAreSound, Refers, Sane
<1>5. LinksStayInOneCall'
  BY <1>1 DEF LinksStayInOneCall
<1> QED BY <1>1, <1>2, <1>3, <1>4, <1>5, SourceKept, StreamKept

LEMMA StutterIInv ==
  ASSUME IInv, UNCHANGED vars
  PROVE  IInv'
<1>1. UNCHANGED source /\ UNCHANGED <<saved, phase, target>>
  BY DEF vars, source, target
<1>2. SourceIsSound'
  BY <1>1, SourceKept DEF IInv
<1> QED BY <1>1, <1>2, TargetKept DEF IInv

-----------------------------------------------------------------------------
(* The theorems. *)

(* Every step keeps the invariant. *)
THEOREM InductiveInvariant == Spec => []IInv
<1>1. ASSUME IInv, Next PROVE IInv'
  <2>1. CASE \E cls \in Classes : createDefaultObj(cls)
    BY <1>1, <2>1, createDefaultObjIInv
  <2>2. CASE \E g, c \in Ids : addComponent(g, c)
    BY <1>1, <2>2, addComponentIInv
  <2>3. CASE \E i \in Ids : Drop(i)
    BY <1>1, <2>3, DropIInv
  <2>4. CASE releaseUnusedObjects
    BY <1>1, <2>4, releaseUnusedObjectsIInv
  <2>5. CASE serialize
    BY <1>1, <2>5, serializeIInv
  <2>6. CASE \E records \in 0..MaxObjects, piece \in BOOLEAN : BeginDeserialize(records, piece)
    BY <1>1, <2>6, BeginDeserializeIInv
  <2>7. CASE ReadNext
    BY <1>1, <2>7, ReadNextIInv
  <2>8. CASE ReadThrows
    BY <1>1, <2>8, ReadThrowsIInv
  <2>9. CASE BeginLink
    BY <1>1, <2>9, BeginLinkIInv
  <2>10. CASE EndDeserialize
    BY <1>1, <2>10, EndDeserializeIInv
  <2>11. CASE Rest
    BY <1>1, <2>11, StutterIInv DEF Rest
  <2>12. CASE \E n \in NewIds : Link(n) \/ LinkAstray(n) \/ LinkThrows(n)
    BY <1>1, <2>12, LinkIInv, LinkAstrayIInv, LinkThrowsIInv
  <2> QED BY <1>1, <2>1, <2>2, <2>3, <2>4, <2>5, <2>6, <2>7, <2>8, <2>9, <2>10, <2>11, <2>12 DEF Next
<1>2. IInv /\ [Next]_vars => IInv'
  BY <1>1, StutterIInv
<1> QED BY InitIInv, <1>2, PTL DEF Spec

(* The state stays well formed: what was read is a first part of what was    *)
(* written, and the new ids of a call are those of objects of the target.    *)
LEMMA IInvTypeOK == IInv => TypeOK
<1> SUFFICES ASSUME IInv PROVE TypeOK
  OBVIOUS
<1> USE DEF IInv
<1>1. given = SubSeq(saved, 1, Len(given))
  <2>1. given \in Seq(Record) /\ Len(given) \in Nat /\ saved \in Seq(Record) /\ Len(given) <= Len(saved)
    BY Sizes DEF ReadingIsSound, StreamIsSound
  <2>2. \A k \in 1..Len(given) : given[k] = saved[k] /\ saved[k] \in Record
    <3>1. \A k \in 1..Len(given) : given[k] = saved[k] /\ given[k] \in Record
      BY Sizes DEF ReadingIsSound
    <3> QED BY <3>1
  <2> DEFINE n == Len(given)
  <2>3. /\ SubSeq(saved, 1, n) \in Seq(Record)
        /\ Len(SubSeq(saved, 1, n)) = IF 1 <= n THEN n - 1 + 1 ELSE 0
        /\ \A i \in 1 .. n - 1 + 1 : SubSeq(saved, 1, n)[i] = saved[1 + i - 1]
    BY <2>1, <2>2, SubSeqProperties
  <2>4. Len(SubSeq(saved, 1, n)) = n /\ \A i \in 1..n : SubSeq(saved, 1, n)[i] = given[i]
    BY <2>1, <2>2, <2>3
  <2> QED BY <2>1, <2>3, <2>4, SeqEqual
<1>2. saved \in Seq([id : Ids, class : Classes, ref : Refs(Ids)])
  BY DEF StreamIsSound, Record
<1>3. objects \in Seq([class : Classes, ref : Refs(Ids \cup NewIds), linked : SUBSET Slots,
                          call : 1..MaxCalls, stray : 0..MaxCalls])
  BY DEF ReadingIsSound, Object
<1>4. Len(objects) <= MaxNew /\ DOMAIN remap \subseteq Ids
  BY Sizes, RemapRange
<1>5. Len(before) <= Len(objects)
  BY Sizes
<1>6. toLink \subseteq DOMAIN objects /\ failed \subseteq 1..calls /\ cut \in BOOLEAN
  BY DEF LinkingIsSound, CallsAreSound, ReadingIsSound
<1> QED BY <1>1, <1>2, <1>3, <1>4, <1>5, <1>6 DEF TypeOK, SourceIsSound, CallsAreSound

THEOREM TypeCorrect == Spec => []TypeOK
BY InductiveInvariant, IInvTypeOK, PTL

(* Whatever callers drop and in whatever order objects are released, a       *)
(* GameObject is never written without the components it holds.              *)
THEOREM ComponentTravels == Spec => []ComponentTravelsWithOwner
<1>1. IInv => ComponentTravelsWithOwner
  BY DEF IInv, StreamIsSound
<1> QED BY <1>1, InductiveInvariant, PTL

(* However calls of deserialize fail, a link stays among the objects of one  *)
(* call, or leads from one that a failed call left to those of a later call. *)
THEOREM LinksCorrect == Spec => []LinksStayInOneCall
<1>1. IInv => LinksStayInOneCall
  BY DEF IInv
<1> QED BY <1>1, InductiveInvariant, PTL

LEMMA IInvThrows == IInv => ThrowsExactlyWhen
<1> SUFFICES ASSUME IInv, phase \in {"done", "threw"}, calls > 0
             PROVE  phase = "threw" <=> Cause
  BY DEF ThrowsExactlyWhen, Cause
<1> USE DEF IInv
<1>1. phase = "threw" => Cause
  BY DEF CallsAreSound
<1>2. ASSUME phase = "done" PROVE ~Cause
  <2>1. /\ ~cut /\ DOMAIN remap = GivenIds /\ Position = Len(given)
        /\ DOMAIN given = 1..Len(given) /\ DOMAIN before = 1..Len(before)
        /\ Len(given) \in Nat /\ Len(before) \in Nat /\ Len(objects) = Len(before) + Len(given)
        /\ DOMAIN objects = 1..Len(objects)
    BY <1>2, RemapTable, Sizes DEF LinkingIsSound
  <2>2. \A n \in 1..Len(objects) : AllLinked(Original(n), objects[n])
    BY <1>2, <2>1 DEF LinkingIsSound, WhollyLinked
  <2>3. ASSUME NEW k \in DOMAIN given, NEW s \in Slots
        PROVE  ~(Refers(given[k], s) /\ given[k].ref[s] \notin GivenIds)
    <3>1. PICK n \in 1..Len(objects) : n = Len(before) + k
      BY <2>1
    <3>2. n > Len(before) /\ n - Len(before) = k
      BY <2>1, <3>1
    <3>3. PICK x : /\ x = Original(n) /\ x.linked = {}
                   /\ x.class = given[k].class /\ x.ref = given[k].ref
      BY <3>2, Originals
    <3>4. Refers(given[k], s) => Straight(x, objects[n], s) \/ Stray(x, objects[n], s)
      BY <2>2, <3>3 DEF AllLinked, Refers
    <3> QED BY <2>1, <3>3, <3>4 DEF Straight, Stray
  <2>4. ASSUME NEW n \in DOMAIN before, NEW s \in Slots
        PROVE  ~(/\ Refers(before[n], s)
                 /\ IF s \in before[n].linked THEN objects[n].stray # calls
                                              ELSE before[n].ref[s] \notin GivenIds)
    <3>1. n \in 1..Len(objects) /\ n <= Len(before)
      BY <2>1
    <3>2. PICK x : x = Original(n) /\ x = before[n]
      BY <3>1, Originals
    <3>3. Refers(x, s) => Straight(x, objects[n], s) \/ Stray(x, objects[n], s)
      BY <2>2, <3>1, <3>2 DEF AllLinked
    <3> QED BY <2>1, <3>2, <3>3 DEF Straight, Stray
  <2>5. ~\E k \in DOMAIN given, s \in Slots : Refers(given[k], s) /\ given[k].ref[s] \notin GivenIds
    BY <2>3
  <2>6. ~\E n \in DOMAIN before, s \in Slots :
           /\ Refers(before[n], s)
           /\ IF s \in before[n].linked THEN objects[n].stray # calls
                                        ELSE before[n].ref[s] \notin GivenIds
    BY <2>4
  <2> QED BY <2>1, <2>5, <2>6 DEF Cause
<1> QED BY <1>1, <1>2

(* deserialize throws in every case where it should, and in no other. *)
THEOREM ThrowsCorrect == Spec => []ThrowsExactlyWhen
BY InductiveInvariant, IInvThrows, PTL

LEMMA IInvRoundTrip == IInv => RoundTrip
<1> SUFFICES ASSUME IInv, phase = "done", calls > 0 PROVE RoundTrip
  BY DEF RoundTrip
<1> USE DEF IInv
<1>1. /\ DOMAIN remap = GivenIds /\ Position = Len(given) /\ DOMAIN given = 1..Len(given)
      /\ Len(given) \in Nat /\ Len(before) \in Nat /\ Len(objects) = Len(before) + Len(given)
      /\ DOMAIN objects = 1..Len(objects)
  BY RemapTable, Sizes DEF LinkingIsSound
<1>2. \A k \in 1..Len(given) : remap[given[k].id] = Len(before) + k
  BY <1>1 DEF ReadingIsSound
<1>3. ASSUME NEW i \in GivenIds, NEW j \in GivenIds, i # j PROVE remap[i] # remap[j]
  <2>1. PICK k \in 1..Len(given), l \in 1..Len(given) : i = given[k].id /\ j = given[l].id
    BY <1>1 DEF GivenIds
  <2>2. k # l
    BY <1>3, <2>1
  <2> QED BY <1>1, <1>2, <2>1, <2>2
<1>4. ASSUME NEW k \in 1..Len(given), NEW s \in Slots
      PROVE  /\ objects[remap[given[k].id]].class = given[k].class
             /\ objects[remap[given[k].id]].ref[s] = IF Refers(given[k], s) THEN remap[given[k].ref[s]]
                                                                           ELSE given[k].ref[s]
  <2>1. PICK n \in 1..Len(objects) : n = Len(before) + k
    BY <1>1
  <2>2. n > Len(before) /\ n - Len(before) = k /\ remap[given[k].id] = n
    BY <1>1, <1>2, <2>1
  <2>3. PICK x \in Object : /\ x = Original(n) /\ x.linked = {}
                           /\ x.class = given[k].class /\ x.ref = given[k].ref
    BY <2>2, Originals
  <2>4. LinkOf(x, objects[n]) /\ AllLinked(x, objects[n])
    BY <1>1, <2>3 DEF LinkingIsSound, LinkSound, WhollyLinked
  <2>5. objects[n].class = x.class
    BY <2>4 DEF LinkOf
  <2>6. CASE Refers(x, s)
    <3>1. objects[n].ref[s] = remap[x.ref[s]]
      BY <2>3, <2>4, <2>6 DEF AllLinked, Straight, Stray
    <3> QED BY <2>2, <2>3, <2>5, <2>6, <3>1 DEF Refers
  <2>7. CASE ~Refers(x, s)
    <3>1. objects[n].ref[s] = x.ref[s]
      BY <2>3, <2>4, <2>7 DEF LinkOf, Kept, Straight, Stray
    <3> QED BY <2>2, <2>3, <2>5, <2>7, <3>1 DEF Refers
  <2> QED BY <2>6, <2>7
<1>5. ASSUME NEW k \in 1..Len(given)
      PROVE  objects[remap[given[k].id]].class = given[k].class
  <2>1. PICK n \in 1..Len(objects) : n = Len(before) + k
    BY <1>1
  <2>2. n > Len(before) /\ n - Len(before) = k /\ remap[given[k].id] = n
    BY <1>1, <1>2, <2>1
  <2> QED BY <2>2, KeptByLinking, Originals
<1>6. /\ \A i, j \in GivenIds : i # j => remap[i] # remap[j]
      /\ \A k \in DOMAIN given :
           /\ objects[remap[given[k].id]].class = given[k].class
           /\ \A s \in Slots :
                objects[remap[given[k].id]].ref[s] = IF Refers(given[k], s) THEN remap[given[k].ref[s]]
                                                                          ELSE given[k].ref[s]
  BY <1>1, <1>3, <1>4, <1>5
<1> QED BY <1>1, <1>6 DEF RoundTrip

(* When deserialize returns, what it read is what was written, up to ids. *)
THEOREM RoundTripCorrect == Spec => []RoundTrip
BY InductiveInvariant, IInvRoundTrip, PTL

=============================================================================
