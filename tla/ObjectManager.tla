---------------------------- MODULE ObjectManager ----------------------------
(***************************************************************************)
(* evnt::GameObjectManager (src/core/gameobjectmanager.h, .cpp) and the    *)
(* shared handles it gives out (src/core/objhandle.h).                     *)
(*                                                                         *)
(* The manager owns the objects; threads, and GameObjects for their        *)
(* component, share the ObjHandle of an object.  When the last of them     *)
(* lets go, ~ObjHandle marks the object as deleted, without the manager's  *)
(* mutex; releaseUnusedObjects frees marked objects under the mutex; and   *)
(* ~GameObjectManager nullifies the handles still held, then frees all.    *)
(***************************************************************************)
EXTENDS Naturals, FiniteSets

CONSTANTS Threads,      \* threads that use the manager
          NoThread,
          MaxObjects    \* bound of the model: registerObj calls

ASSUME ObjectManagerAssumption == MaxObjects \in Nat /\ NoThread \notin Threads

Ids == 1..MaxObjects
NoId == 0       \* "0 is not a valid ID"

Classes == {"GameObject", "Component"}

VARIABLES
  nextID,      \* mNextAvailableID
  alive,       \* the objects that are allocated
  class,       \* per object, its class
  inMap,       \* the keys of mObjects
  isDeleted,   \* the objects with is_del_it set
  holders,     \* per handle, the threads that share it
  component,   \* per GameObject, the component whose handle is in mComponents
  nulled,      \* the handles whose m_ptr is nullptr
  dropping,    \* per handle, the thread between the last release and ~ObjHandle's end
  entering,    \* per thread, the object it is registering, not in mObjects yet
  mutex,       \* mMutex
  toVisit,     \* the entries that the releaseUnusedObjects in progress has not reached
  garbage,     \* what was deleted when it began (for ReleaseIsComplete)
  phase        \* of the manager: alive, nullifying the handles, or gone

vars == <<nextID, alive, class, inMap, isDeleted, holders, component, nulled, dropping,
          entering, mutex, toVisit, garbage, phase>>

Init ==
  /\ nextID = 1
  /\ alive = {}
  /\ class = [i \in Ids |-> "Component"]
  /\ inMap = {}
  /\ isDeleted = {}
  /\ holders = [i \in Ids |-> {}]
  /\ component = [i \in Ids |-> NoId]
  /\ nulled = {}
  /\ dropping = [i \in Ids |-> NoThread]
  /\ entering = [th \in Threads |-> NoId]
  /\ mutex = NoThread
  /\ toVisit = {}
  /\ garbage = {}
  /\ phase = "alive"

\* The objects whose mComponents hold the handle of i.
HeldBy(i) == {g \in alive : component[g] = i}

Held(i) == holders[i] # {} \/ HeldBy(i) # {}

\* The thread is not in the middle of a call on the manager or on a handle.
Free(th) == /\ entering[th] = NoId
            /\ mutex # th
            /\ \A i \in Ids : dropping[i] # th

-----------------------------------------------------------------------------
(* registerObj: the id is taken with an atomic fetch_add, the entry is made  *)
(* under the mutex.                                                          *)

\* Mutant: the counter is read and not advanced.
TakeIdTwice(th, cls) ==
  /\ phase = "alive"
  /\ Free(th)
  /\ nextID \in Ids
  /\ alive' = alive \cup {nextID}
  /\ class' = [class EXCEPT ![nextID] = cls]
  /\ holders' = [holders EXCEPT ![nextID] = {th}]
  /\ entering' = [entering EXCEPT ![th] = nextID]
  /\ UNCHANGED <<nextID, inMap, isDeleted, component, nulled, dropping, mutex, toVisit, garbage,
                 phase>>

\* createDefaultObj and registerObj as far as the new PObjHandle.
TakeId(th, cls) ==
  /\ phase = "alive"
  /\ Free(th)
  /\ nextID \in Ids
  /\ nextID' = nextID + 1
  /\ alive' = alive \cup {nextID}
  /\ class' = [class EXCEPT ![nextID] = cls]
  /\ holders' = [holders EXCEPT ![nextID] = {th}]
  /\ entering' = [entering EXCEPT ![th] = nextID]
  /\ UNCHANGED <<inMap, isDeleted, component, nulled, dropping, mutex, toVisit, garbage, phase>>

Insert(th) ==
  /\ entering[th] # NoId
  /\ mutex = NoThread
  /\ inMap' = inMap \cup {entering[th]}
  /\ entering' = [entering EXCEPT ![th] = NoId]
  /\ UNCHANGED <<nextID, alive, class, isDeleted, holders, component, nulled, dropping, mutex,
                 toVisit, garbage, phase>>

-----------------------------------------------------------------------------
(* Sharing and letting go of handles.                                        *)

\* Mutant: a handle is made anew when the weak pointer has expired.
GetObjectRevives(th, i) ==
  /\ phase = "alive"
  /\ Free(th)
  /\ mutex = NoThread
  /\ i \in inMap
  /\ holders' = [holders EXCEPT ![i] = @ \cup {th}]
  /\ UNCHANGED <<nextID, alive, class, inMap, isDeleted, component, nulled, dropping, entering,
                 mutex, toVisit, garbage, phase>>

(* getObject: weak_ptr::lock.  (It throws for an id that is not in mObjects, *)
(* and returns a null PObjHandle for one whose handle has expired.)          *)
GetObject(th, i) ==
  /\ phase = "alive"
  /\ Free(th)
  /\ mutex = NoThread
  /\ i \in inMap
  /\ Held(i)
  /\ holders' = [holders EXCEPT ![i] = @ \cup {th}]
  /\ UNCHANGED <<nextID, alive, class, inMap, isDeleted, component, nulled, dropping, entering,
                 mutex, toVisit, garbage, phase>>

\* A PObjHandle is copied for another thread.
Share(th, other, i) ==
  /\ Free(th)
  /\ th \in holders[i]
  /\ holders' = [holders EXCEPT ![i] = @ \cup {other}]
  /\ UNCHANGED <<nextID, alive, class, inMap, isDeleted, component, nulled, dropping, entering,
                 mutex, toVisit, garbage, phase>>

(* Releasing a PObjHandle; whoever releases the last one runs ~ObjHandle. *)
Drop(th, i) ==
  /\ Free(th)
  /\ th \in holders[i]
  /\ holders' = [holders EXCEPT ![i] = @ \ {th}]
  /\ dropping' = IF holders[i] = {th} /\ HeldBy(i) = {} THEN [dropping EXCEPT ![i] = th]
                                                        ELSE dropping
  /\ UNCHANGED <<nextID, alive, class, inMap, isDeleted, component, nulled, entering, mutex,
                 toVisit, garbage, phase>>

(* ~ObjHandle marks the object, unless the handle was nullified. *)
MarkDeleted(i) ==
  /\ dropping[i] # NoThread
  /\ isDeleted' = IF i \in nulled THEN isDeleted ELSE isDeleted \cup {i}
  /\ dropping' = [dropping EXCEPT ![i] = NoThread]
  /\ UNCHANGED <<nextID, alive, class, inMap, holders, component, nulled, entering, mutex,
                 toVisit, garbage, phase>>

\* The objects whose handle GameObject g is the last to let go of.
LetGo(g) == {i \in Ids : /\ component[g] = i
                         /\ holders[i] = {}
                         /\ HeldBy(i) = {g}
                         /\ i \notin nulled}

\* Mutant: the replaced component is freed at once.
AddComponentFrees(th, g, c) ==
  /\ phase = "alive"
  /\ Free(th)
  /\ th \in holders[g] \cap holders[c]
  /\ class[g] = "GameObject" /\ class[c] = "Component"
  /\ component' = [component EXCEPT ![g] = c]
  /\ alive' = alive \ {component[g]}
  /\ inMap' = inMap \ {component[g]}
  /\ UNCHANGED <<nextID, class, isDeleted, holders, nulled, dropping, entering, mutex, toVisit,
                 garbage, phase>>

(* GameObject::addComponent: mComponents[class] = com, which lets go of a    *)
(* component of the same class that was there before.                        *)
AddComponent(th, g, c) ==
  /\ phase = "alive"
  /\ Free(th)
  /\ th \in holders[g] \cap holders[c]
  /\ class[g] = "GameObject" /\ class[c] = "Component"
  /\ component' = [component EXCEPT ![g] = c]
  /\ dropping' = [i \in Ids |-> IF i \in LetGo(g) \ {c} THEN th ELSE dropping[i]]
  /\ UNCHANGED <<nextID, alive, class, inMap, isDeleted, holders, nulled, entering, mutex,
                 toVisit, garbage, phase>>

-----------------------------------------------------------------------------
(* releaseUnusedObjects, entry by entry in the order of the hash map; the    *)
(* mutex is held, but handles are let go of meanwhile.                       *)

BeginRelease(th) ==
  /\ phase = "alive"
  /\ Free(th)
  /\ mutex = NoThread
  /\ inMap \cap isDeleted # {}      \* otherwise it changes nothing
  /\ mutex' = th
  /\ toVisit' = inMap
  /\ garbage' = isDeleted
  /\ UNCHANGED <<nextID, alive, class, inMap, isDeleted, holders, component, nulled, dropping,
                 entering, phase>>

\* Mutant: the iterator is advanced past the entry after an erased one.
VisitSkips(i) ==
  /\ i \in toVisit
  /\ \E skipped \in toVisit :
       toVisit' = toVisit \ (IF i \in isDeleted THEN {i, skipped} ELSE {i})
  /\ inMap' = IF i \in isDeleted THEN inMap \ {i} ELSE inMap
  /\ alive' = IF i \in isDeleted THEN alive \ {i} ELSE alive
  /\ isDeleted' = IF i \in isDeleted THEN isDeleted \cup LetGo(i) ELSE isDeleted
  /\ component' = IF i \in isDeleted THEN [component EXCEPT ![i] = NoId] ELSE component
  /\ UNCHANGED <<nextID, class, holders, nulled, dropping, entering, mutex, garbage, phase>>

(* A marked object is freed, and with a GameObject the handle it holds. *)
Visit(i) ==
  /\ i \in toVisit
  /\ toVisit' = toVisit \ {i}
  /\ inMap' = IF i \in isDeleted THEN inMap \ {i} ELSE inMap
  /\ alive' = IF i \in isDeleted THEN alive \ {i} ELSE alive
  /\ isDeleted' = IF i \in isDeleted THEN isDeleted \cup LetGo(i) ELSE isDeleted
  /\ component' = IF i \in isDeleted THEN [component EXCEPT ![i] = NoId] ELSE component
  /\ UNCHANGED <<nextID, class, holders, nulled, dropping, entering, mutex, garbage, phase>>

EndRelease(th) ==
  /\ mutex = th
  /\ toVisit = {}
  /\ mutex' = NoThread
  /\ garbage' = {}
  /\ UNCHANGED <<nextID, alive, class, inMap, isDeleted, holders, component, nulled, dropping,
                 entering, toVisit, phase>>

-----------------------------------------------------------------------------
(* ~GameObjectManager.  No thread is inside a call on the manager, but other *)
(* threads may hold handles and let go of them meanwhile.                    *)

BeginDestroy ==
  /\ phase = "alive"
  /\ mutex = NoThread
  /\ \A th \in Threads : entering[th] = NoId
  /\ phase' = "nullifying"
  /\ toVisit' = inMap
  /\ UNCHANGED <<nextID, alive, class, inMap, isDeleted, holders, component, nulled, dropping,
                 entering, mutex, garbage>>

\* Mutant: the handles that components' owners share are forgotten.
NullifyThreadsOnly(i) ==
  /\ phase = "nullifying"
  /\ i \in toVisit
  /\ toVisit' = toVisit \ {i}
  /\ nulled' = IF HeldBy(i) # {} THEN nulled \cup {i} ELSE nulled
  /\ isDeleted' = IF Held(i) THEN isDeleted \cup {i} ELSE isDeleted
  /\ UNCHANGED <<nextID, alive, class, inMap, holders, component, dropping, entering, mutex,
                 garbage, phase>>

(* handle.lock() finds a handle that is still held, and nullifies it. *)
Nullify(i) ==
  /\ phase = "nullifying"
  /\ i \in toVisit
  /\ toVisit' = toVisit \ {i}
  /\ nulled' = IF Held(i) THEN nulled \cup {i} ELSE nulled
  /\ isDeleted' = IF Held(i) THEN isDeleted \cup {i} ELSE isDeleted
  /\ UNCHANGED <<nextID, alive, class, inMap, holders, component, dropping, entering, mutex,
                 garbage, phase>>

FreeAll ==
  /\ phase = "nullifying"
  /\ toVisit = {}
  /\ alive' = {}
  /\ inMap' = {}
  /\ component' = [i \in Ids |-> NoId]
  /\ phase' = "gone"
  /\ UNCHANGED <<nextID, class, isDeleted, holders, nulled, dropping, entering, mutex, toVisit,
                 garbage>>

(* The manager is gone; the last handles are let go of. *)
Gone == phase = "gone" /\ UNCHANGED vars

-----------------------------------------------------------------------------
VisitStep(i) == mutex # NoThread /\ Visit(i)

Next == \/ \E th \in Threads, cls \in Classes : TakeId(th, cls)
        \/ \E th \in Threads : Insert(th) \/ BeginRelease(th) \/ EndRelease(th)
        \/ \E th \in Threads, i \in Ids : GetObject(th, i) \/ Drop(th, i)
        \/ \E th, other \in Threads, i \in Ids : Share(th, other, i)
        \/ \E th \in Threads, g, c \in Ids : AddComponent(th, g, c)
        \/ \E i \in Ids : MarkDeleted(i) \/ VisitStep(i) \/ Nullify(i)
        \/ BeginDestroy \/ FreeAll \/ Gone

Spec == Init /\ [][Next]_vars

-----------------------------------------------------------------------------
(* Properties.                                                               *)

\* The types, and what the ids are: every object's key is an id already taken.
TypeOK ==
  /\ nextID \in 1..(MaxObjects + 1)
  /\ class \in [Ids -> Classes]
  /\ inMap \subseteq alive
  /\ alive \subseteq 1..(nextID - 1)
  /\ isDeleted \subseteq 1..(nextID - 1)
  /\ holders \in [Ids -> SUBSET Threads]
  /\ component \in [Ids -> Ids \cup {NoId}]
  /\ nulled \subseteq 1..(nextID - 1)
  /\ dropping \in [Ids -> Threads \cup {NoThread}]
  /\ entering \in [Threads -> Ids \cup {NoId}]
  /\ mutex \in Threads \cup {NoThread}
  /\ toVisit \subseteq Ids
  /\ garbage \subseteq Ids
  /\ phase \in {"alive", "nullifying", "gone"}

(* A handle that somebody holds, a thread or a GameObject, is null or points  *)
(* to an object that exists, whatever was released or destroyed meanwhile.    *)
HeldHandleIsValid == \A i \in Ids : Held(i) => i \in nulled \/ i \in alive

(* ~ObjHandle runs outside the mutex and after the handle has expired, but    *)
(* the object it marks is still there: until it is marked releaseUnused-      *)
(* Objects leaves it alone.  (Only ~GameObjectManager can come in between.)   *)
DroppedHandleFindsItsObject ==
  \A i \in Ids : phase = "alive" /\ dropping[i] # NoThread => i \in alive /\ i \notin isDeleted

(* Nothing revives an object that was let go of: while the manager lives, a   *)
(* deleted object is held by nobody, and an object nobody holds is deleted    *)
(* or about to be.                                                            *)
DeletedMeansUnheld ==
  phase = "alive" =>
    \A i \in alive : (i \in isDeleted \/ dropping[i] # NoThread) <=> ~Held(i)

(* releaseUnusedObjects frees everything that was deleted when it began,      *)
(* although it erases from the map it iterates over.                          *)
ReleaseIsComplete ==
  [][\A th \in Threads : EndRelease(th) => garbage \cap inMap = {}]_vars

=============================================================================
