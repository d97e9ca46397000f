---------------------------- MODULE Serialization ----------------------------
(***************************************************************************)
(* Objects on their way through a stream: GameObjectManager::serialize and *)
(* deserialize (src/core/gameobjectmanager.cpp) with write, read and link  *)
(* of GameObject and Component (gameobject.cpp, component.cpp).            *)
(*                                                                         *)
(* A source manager holds the graph that callers build; its objects are    *)
(* written in the order of the hash map.  A target manager, which may hold *)
(* objects already, reads the stream, or the part of it that has arrived,  *)
(* and links the references it finds.  One thread uses both managers.      *)
(***************************************************************************)
EXTENDS Naturals, Sequences, FiniteSets

CONSTANTS MaxObjects,   \* bound of the model: objects of the source
          MaxCalls,     \* bound of the model: calls of deserialize
          MaxNew,       \* bound of the model: objects of the target
          Slots         \* the ids of the classes of components: the keys of mComponents

ASSUME SerializationAssumption ==
  /\ MaxObjects \in Nat \ {0} /\ MaxCalls \in Nat \ {0} /\ MaxNew \in Nat \ {0}
  /\ Slots \subseteq Nat \ {0}

Ids    == 1..MaxObjects
NoId   == 0
NewIds == 1..MaxNew

GameObject == 0     \* its class
Classes    == {GameObject} \cup Slots

\* The references of an object: a GameObject has one for each class of components, and
\* a component uses the one of its own class for mGameObj.
Refs(ids) == [Slots -> ids \cup {NoId}]
NoRefs    == [s \in Slots |-> NoId]

VARIABLES
  count,      \* source: objects registered
  class,      \* source: per object, its class
  alive,      \* source: the objects that are allocated
  held,       \* source: the objects whose handle a caller holds
  isDeleted,  \* source: the objects with is_del_it set
  ref,        \* source: per GameObject mComponents, per component mGameObj
  saved,      \* the records that serialize wrote, in order
  objects,    \* target: mObjects, in the order of their ids
  given,      \* the whole records of the stream that deserialize is called with
  cut,        \* whether that stream ends inside of another record
  unread,     \* target: records that deserialize has not read
  remap,      \* target: istance_id_remap, old id to new id
  toLink,     \* target: entries that the loop over mObjects has not reached
  phase,      \* building, reading, linking, done or threw
  calls,
  failed,     \* the calls of deserialize that threw
  before      \* mObjects when deserialize was called (for the properties)

vars == <<count, class, alive, held, isDeleted, ref, saved, objects, given, cut, unread, remap,
          toLink, phase, calls, failed, before>>

source == <<count, class, alive, held, isDeleted, ref>>
stream == <<saved, given, cut>>
target == <<objects, given, cut, unread, remap, toLink, calls, failed, before>>

Init ==
  /\ count = 0
  /\ class = [i \in Ids |-> GameObject]
  /\ alive = {}
  /\ held = {}
  /\ isDeleted = {}
  /\ ref = [i \in Ids |-> NoRefs]
  /\ saved = <<>>
  /\ objects = <<>>
  /\ given = <<>>
  /\ cut = FALSE
  /\ unread = <<>>
  /\ remap = <<>>
  /\ toLink = {}
  /\ phase = "building"
  /\ calls = 0
  /\ failed = {}
  /\ before = <<>>

-----------------------------------------------------------------------------
(* The source: what callers do with objects and handles.                     *)

GameObjects == {i \in alive : class[i] = GameObject}

\* The GameObjects whose mComponents hold the handle of c.
Owners(c) == {g \in GameObjects : \E s \in Slots : ref[g][s] = c}

createDefaultObj(cls) ==
  /\ phase = "building"
  /\ count < MaxObjects
  /\ count' = count + 1
  /\ class' = [class EXCEPT ![count + 1] = cls]
  /\ alive' = alive \cup {count + 1}
  /\ held' = held \cup {count + 1}
  /\ UNCHANGED <<isDeleted, ref, saved, phase, target>>

(* The old component of the same class is let go of; it keeps its mGameObj. *)
addComponent(g, c) ==
  /\ phase = "building"
  /\ g \in held \cap GameObjects
  /\ c \in held \ GameObjects
  /\ ref' = [ref EXCEPT ![g][class[c]] = c, ![c][class[c]] = g]
  /\ isDeleted' = isDeleted \cup {o \in Ids : /\ o = ref[g][class[c]]
                                            /\ o \notin held /\ Owners(o) = {g}}
  /\ UNCHANGED <<count, class, alive, held, saved, phase, target>>

\* Mutant: an object is deleted when a caller lets go, whoever holds it besides.
DropDeletes(i) ==
  /\ phase = "building"
  /\ i \in held
  /\ held' = held \ {i}
  /\ isDeleted' = isDeleted \cup {i}
  /\ UNCHANGED <<count, class, alive, ref, saved, phase, target>>

\* A caller lets go of a handle.
Drop(i) ==
  /\ phase = "building"
  /\ i \in held
  /\ held' = held \ {i}
  /\ isDeleted' = IF Owners(i) = {} THEN isDeleted \cup {i} ELSE isDeleted
  /\ UNCHANGED <<count, class, alive, ref, saved, phase, target>>

\* Mutant: the components of a freed GameObject are freed with it.
releaseWithComponents ==
  /\ phase = "building"
  /\ alive \cap isDeleted # {}
  /\ alive' = alive \ {c \in Ids : c \in isDeleted \/ Owners(c) \cap isDeleted # {}}
  /\ UNCHANGED <<count, class, held, isDeleted, ref, saved, phase, target>>

(* The loop frees the deleted objects; a component that only a freed         *)
(* GameObject held is deleted by that, and freed if the loop comes to it.    *)
releaseUnusedObjects ==
  /\ phase = "building"
  /\ LET garbage == alive \cap isDeleted
         orphans == {c \in alive \ held : Owners(c) # {} /\ Owners(c) \subseteq garbage}
     IN  /\ garbage # {}
         /\ \E reached \in SUBSET orphans : alive' = alive \ (garbage \cup reached)
         /\ isDeleted' = isDeleted \cup orphans
  /\ UNCHANGED <<count, class, held, ref, saved, phase, target>>

-----------------------------------------------------------------------------
(* write.                                                                    *)

Written == alive \ isDeleted

\* The orders in which the hash map may give its entries.
Orders(S) == {s \in [1..Cardinality(S) -> S] : \A i, j \in DOMAIN s : i # j => s[i] # s[j]}

\* A component whose GameObject was freed: write reads that one's id from freed memory.
Dangling(i) == class[i] # GameObject /\ ref[i][class[i]] \notin alive \cup {NoId}

\* The ids that write puts behind the object's own.
WrittenRefs(i, freed) == IF Dangling(i) THEN [ref[i] EXCEPT ![class[i]] = freed[i]] ELSE ref[i]

\* GameObjectManager::serialize into an empty stream.
serialize ==
  /\ phase = "building"
  /\ Written # {}
  /\ \E order \in Orders(Written), freed \in [{i \in Written : Dangling(i)} -> Ids \cup {NoId}] :
       saved' = [k \in DOMAIN order |-> [id |-> order[k], class |-> class[order[k]],
                                         ref |-> WrittenRefs(order[k], freed)]]
  /\ phase' = "done"
  /\ UNCHANGED <<source, target>>

-----------------------------------------------------------------------------
(* read and link.                                                            *)

(* deserialize is called with the stream or with a first part of it: the     *)
(* first records, and perhaps a piece of the next one.                       *)
BeginDeserialize(records, piece) ==
  /\ phase \in {"done", "threw"}
  /\ calls < MaxCalls
  /\ records <= Len(saved)
  /\ Len(objects) + records <= MaxNew
  /\ piece => records < Len(saved)
  /\ calls' = calls + 1
  /\ given' = SubSeq(saved, 1, records)
  /\ cut' = piece
  /\ unread' = given'
  /\ remap' = <<>>
  /\ before' = objects
  /\ phase' = "reading"
  /\ UNCHANGED <<source, saved, objects, toLink, failed>>

(* An object of the target: what it refers to is an old id until that is      *)
(* linked.  stray is the last call that found the pointer mGameObj in its     *)
(* table of ids, if one did (for the properties).                             *)
ReadObject(record) ==
  [class |-> record.class, ref |-> record.ref, linked |-> {}, call |-> calls, stray |-> 0]

Extend(f, x, y) == [i \in DOMAIN f \cup {x} |-> IF i = x THEN y ELSE f[i]]

\* Mutant: the remap table has the last object only.
ReadNextForgets ==
  /\ phase = "reading"
  /\ unread # <<>>
  /\ objects' = Append(objects, ReadObject(Head(unread)))
  /\ remap' = [i \in {Head(unread).id} |-> Len(objects) + 1]
  /\ unread' = Tail(unread)
  /\ UNCHANGED <<source, stream, toLink, phase, calls, failed, before>>

(* read sets the old id, registerObj gives the new one. *)
ReadNext ==
  /\ phase = "reading"
  /\ unread # <<>>
  /\ objects' = Append(objects, ReadObject(Head(unread)))
  /\ remap' = Extend(remap, Head(unread).id, Len(objects) + 1)
  /\ unread' = Tail(unread)
  /\ UNCHANGED <<source, stream, toLink, phase, calls, failed, before>>

(* The stream throws range_error inside of a record: the object that is being *)
(* read goes, the ones before stay registered with the old ids they refer to. *)
ReadThrows ==
  /\ phase = "reading"
  /\ unread = <<>> /\ cut
  /\ phase' = "threw"
  /\ failed' = failed \cup {calls}
  /\ UNCHANGED <<source, stream, objects, unread, remap, toLink, calls, before>>

(* The loop goes over all of mObjects, also those that were there before. *)
BeginLink ==
  /\ phase = "reading"
  /\ unread = <<>> /\ ~cut
  /\ toLink' = DOMAIN objects
  /\ phase' = "linking"
  /\ UNCHANGED <<source, stream, objects, unread, remap, calls, failed, before>>

\* The references of x that link looks up: mGameObj also when it is null.
Refers(x, s) == x.class = s \/ (x.class = GameObject /\ x.ref[s] # NoId)

\* Mutant: an entry without a component is looked up too.
MissingEmpty(n, s) ==
  /\ objects[n].class \in {s, GameObject}
  /\ s \in objects[n].linked \/ objects[n].ref[s] \notin DOMAIN remap

\* Mutant: a linked reference is an id that is looked up again.
MissingUnlinked(n, s) == Refers(objects[n], s) /\ objects[n].ref[s] \notin DOMAIN remap

(* A handle the manager gave out has m_link_key 0, which is no object's id,   *)
(* and mGameObj of a linked component is a pointer, which need not be one.    *)
Missing(n, s) ==
  /\ Refers(objects[n], s)
  /\ s \in objects[n].linked \/ objects[n].ref[s] \notin DOMAIN remap

\* x when what it refers to by the slots in S is linked.
Linked(x, S) ==
  [x EXCEPT !.ref    = [s \in Slots |-> IF s \in S /\ Refers(x, s) THEN remap[x.ref[s]] ELSE x.ref[s]],
            !.linked = @ \cup {s \in S : Refers(x, s)}]

Link(n) ==
  /\ phase = "linking"
  /\ n \in toLink
  /\ \A s \in Slots : ~Missing(n, s)
  /\ objects' = [objects EXCEPT ![n] = Linked(@, Slots)]
  /\ toLink' = toLink \ {n}
  /\ UNCHANGED <<source, stream, unread, remap, phase, calls, failed, before>>

(* link cuts the pointer mGameObj of a linked component to 32 bits, and what  *)
(* is left may happen to be an id of the table: the component gets the object *)
(* that has it, whatever it is.                                               *)
LinkAstray(n) ==
  /\ phase = "linking"
  /\ n \in toLink
  /\ objects[n].class \in objects[n].linked
  /\ \E id \in DOMAIN remap :
       objects' = [objects EXCEPT ![n].ref[objects[n].class] = remap[id], ![n].stray = calls]
  /\ toLink' = toLink \ {n}
  /\ UNCHANGED <<source, stream, unread, remap, phase, calls, failed, before>>

(* "Trying linking not exist object": what was linked before stays linked,    *)
(* also of the same GameObject, whose components are linked in the order of   *)
(* a hash map.                                                                *)
LinkThrows(n) ==
  /\ phase = "linking"
  /\ n \in toLink
  /\ \E s \in Slots : Missing(n, s)
  /\ \E done \in SUBSET {s \in Slots : ~Missing(n, s)} :
       objects' = [objects EXCEPT ![n] = Linked(@, done)]
  /\ toLink' = {}
  /\ phase' = "threw"
  /\ failed' = failed \cup {calls}
  /\ UNCHANGED <<source, stream, unread, remap, calls, before>>

EndDeserialize ==
  /\ phase = "linking"
  /\ toLink = {}
  /\ phase' = "done"
  /\ UNCHANGED <<source, stream, objects, unread, remap, toLink, calls, failed, before>>

Rest == phase \in {"building", "done", "threw"} /\ UNCHANGED vars

-----------------------------------------------------------------------------
Next == \/ \E cls \in Classes : createDefaultObj(cls)
        \/ \E g, c \in Ids : addComponent(g, c)
        \/ \E i \in Ids : Drop(i)
        \/ releaseUnusedObjects \/ serialize
        \/ \E records \in 0..MaxObjects, piece \in BOOLEAN : BeginDeserialize(records, piece)
        \/ ReadNext \/ ReadThrows \/ BeginLink \/ EndDeserialize \/ Rest
        \/ \E n \in NewIds : Link(n) \/ LinkAstray(n) \/ LinkThrows(n)

Spec == Init /\ [][Next]_vars

-----------------------------------------------------------------------------
(* Properties.                                                               *)

TypeOK ==
  /\ count \in 0..MaxObjects
  /\ class \in [Ids -> Classes]
  /\ alive \subseteq 1..count
  /\ held \subseteq alive
  /\ isDeleted \subseteq 1..count
  /\ ref \in [Ids -> Refs(Ids)]
  /\ saved \in Seq([id : Ids, class : Classes, ref : Refs(Ids)])
  /\ objects \in Seq([class : Classes, ref : Refs(Ids \cup NewIds), linked : SUBSET Slots,
                      call : 1..MaxCalls, stray : 0..MaxCalls])
  /\ Len(objects) <= MaxNew
  /\ DOMAIN remap \subseteq Ids
  /\ toLink \subseteq DOMAIN objects
  /\ phase \in {"building", "reading", "linking", "done", "threw"}
  /\ failed \subseteq 1..calls
  /\ given = SubSeq(saved, 1, Len(given)) /\ cut \in BOOLEAN
  /\ Len(before) <= Len(objects)

SavedIds == {saved[k].id : k \in DOMAIN saved}
GivenIds == {given[k].id : k \in DOMAIN given}

(* A GameObject in the stream has its components in the stream: the handles   *)
(* in mComponents keep a component from being deleted, whatever the callers   *)
(* drop and in whatever order objects were released.                          *)
ComponentTravelsWithOwner ==
  \A k \in DOMAIN saved, s \in Slots :
    saved[k].class = GameObject /\ saved[k].ref[s] # NoId => saved[k].ref[s] \in SavedIds

(* deserialize throws exactly when the stream ends inside of a record, when   *)
(* an object in it refers to one that is not in it (never attached, dropped   *)
(* and not yet released, or cut off), or when the target held an object that  *)
(* refers to another, unless an earlier call failed before that was linked    *)
(* and the stream has an object with the old id that it is left with, or the  *)
(* pointer that it was linked to passes for an id.                            *)
ThrowsExactlyWhen ==
  phase \in {"done", "threw"} /\ calls > 0 =>
    (phase = "threw" <=>
       \/ cut
       \/ \E k \in DOMAIN given, s \in Slots : Refers(given[k], s) /\ given[k].ref[s] \notin GivenIds
       \/ \E n \in DOMAIN before, s \in Slots :
            /\ Refers(before[n], s)
            /\ IF s \in before[n].linked THEN objects[n].stray # calls
                                         ELSE before[n].ref[s] \notin GivenIds)

(* A linked reference leads to an object of the same stream, also when a call *)
(* threw in between and left a GameObject with some of its components: only   *)
(* what the failing call left unlinked may be linked to the objects of a      *)
(* later call, by the old id it still has; and a pointer that passed for an   *)
(* id leads to an object of the call that mistook it.                         *)
LinksStayInOneCall ==
  \A n \in DOMAIN objects : \A s \in objects[n].linked :
    LET x == objects[n]
    IN  /\ x.ref[s] \in DOMAIN objects
        /\ LET made == objects[x.ref[s]].call
           IN  IF x.stray # 0 THEN made = x.stray
                              ELSE made = x.call \/ (x.call \in failed /\ made > x.call)

(* When deserialize returns, the objects it made are an image of the graph    *)
(* that the stream has: classes and references agree under the remap table,   *)
(* whatever an earlier call that threw has left in the manager.               *)
RoundTrip ==
  phase = "done" /\ calls > 0 =>
    /\ DOMAIN remap = GivenIds
    /\ \A i, j \in GivenIds : i # j => remap[i] # remap[j]
    /\ \A k \in DOMAIN given :
         LET new == objects[remap[given[k].id]]
         IN  /\ new.class = given[k].class
             /\ \A s \in Slots :
                  new.ref[s] = IF Refers(given[k], s) THEN remap[given[k].ref[s]] ELSE given[k].ref[s]

=============================================================================
