------------------------- MODULE ObjectManagerProofs -------------------------
(***************************************************************************)
(* Theorems of ObjectManager.tla, for any threads and any number of        *)
(* objects.  The invariants follow from one inductive invariant, IInv: the *)
(* invariants themselves, and what each phase of the manager's life adds.  *)
(***************************************************************************)
EXTENDS ObjectManager, TLAPS

Taken == 1..(nextID - 1)

(* An object that is not allocated holds no component, and one that is       *)
(* allocated is in mObjects or on its way there, held by who registers it.   *)
Registration ==
  /\ \A i \in Ids \ alive : component[i] = NoId
  /\ \A i \in alive : i \in inMap \/ \E th \in Threads : entering[th] = i
  /\ \A th \in Threads : entering[th] # NoId =>
        phase = "alive" /\ entering[th] \in alive /\ th \in holders[entering[th]]
  /\ \A i \in Ids : dropping[i] # NoThread => i \in Taken

(* While the manager lives no handle is null and a held object exists; while *)
(* it dies a held handle is nullified as the loop passes it, and in the end  *)
(* there is nothing but nullified handles.                                   *)
Phases ==
  /\ phase = "alive" => nulled = {} /\ \A i \in Ids : Held(i) => i \in alive
  /\ phase = "nullifying" => \A i \in Ids : Held(i) => i \in alive /\ i \in nulled \cup toVisit
  /\ phase = "gone" => alive = {} /\ \A i \in Ids : Held(i) => i \in nulled
  /\ phase # "alive" => mutex = NoThread

(* What was deleted when the loop of releaseUnusedObjects began is still     *)
(* deleted, and has been freed or is still to be visited.                    *)
ReleaseInProgress ==
  mutex # NoThread => garbage \subseteq isDeleted /\ garbage \cap inMap \subseteq toVisit

(* The inductive invariant. *)
IInv == /\ TypeOK /\ Registration /\ Phases /\ ReleaseInProgress
        /\ DroppedHandleFindsItsObject /\ DeletedMeansUnheld

(* The manager starts empty. *)
LEMMA InitIInv == Init => IInv
<1> SUFFICES ASSUME Init PROVE IInv
  OBVIOUS
<1>1. TypeOK
  BY ObjectManagerAssumption DEF Init, TypeOK, Ids, NoId, Classes
<1>2. \A i \in Ids : ~Held(i) /\ dropping[i] = NoThread
  BY DEF Init, Held, HeldBy, Ids
<1>3. Registration
  BY <1>2 DEF Init, Registration
<1> QED BY <1>1, <1>2, <1>3
        DEF Init, IInv, Phases, ReleaseInProgress, DroppedHandleFindsItsObject, DeletedMeansUnheld

-----------------------------------------------------------------------------
(* Each step preserves the inductive invariant.                              *)

(* A new object has an id that nobody holds, marks or links to; its only     *)
(* holder is the thread that registers it.                                   *)
LEMMA TakeIdPreserves ==
  ASSUME IInv, NEW th \in Threads, NEW cls \in Classes, TakeId(th, cls)
  PROVE  IInv'
<1>1. TypeOK'
  BY ObjectManagerAssumption DEF IInv, TypeOK, TakeId, Ids
<1>2. Registration'
  BY DEF IInv, TypeOK, Registration, TakeId, Taken, Free, NoId
<1>3. Phases'
  BY DEF IInv, Registration, Phases, TakeId, Held, HeldBy, Ids, NoId
<1>4. ReleaseInProgress'
  BY DEF IInv, ReleaseInProgress, TakeId
<1>5. DroppedHandleFindsItsObject'
  BY DEF IInv, DroppedHandleFindsItsObject, TakeId
<1>6. DeletedMeansUnheld'
  <2>1. nextID \notin alive /\ nextID \in Ids /\ nextID # NoId /\ phase = "alive"
    BY DEF IInv, TypeOK, TakeId, NoId
  <2>2. ASSUME NEW i, i = nextID
        PROVE  Held(i)'
    BY <2>1, <2>2 DEF IInv, TypeOK, TakeId, Held
  <2>3. nextID \notin isDeleted /\ dropping[nextID] = NoThread
    BY <2>1 DEF IInv, TypeOK, DroppedHandleFindsItsObject
  <2>4. ASSUME NEW i \in alive
        PROVE  Held(i)' <=> Held(i)
    BY <2>1, ObjectManagerAssumption DEF IInv, TypeOK, Registration, TakeId, Held, HeldBy, NoId
  <2>5. dropping' = dropping /\ isDeleted' = isDeleted /\ alive' = alive \cup {nextID}
    BY DEF TakeId
  <2> QED BY <2>1, <2>2, <2>3, <2>4, <2>5 DEF IInv, DeletedMeansUnheld
<1> QED BY <1>1, <1>2, <1>3, <1>4, <1>5, <1>6 DEF IInv

(* The entry that is made is of an object that its registrant still holds. *)
LEMMA InsertPreserves ==
  ASSUME IInv, NEW th \in Threads, Insert(th)
  PROVE  IInv'
<1>1. TypeOK'
  <2>1. entering[th] \in alive
    BY DEF IInv, Registration, Insert
  <2> QED BY <2>1, ObjectManagerAssumption DEF IInv, TypeOK, Insert, Ids, NoId, Classes
<1>2. Registration'
  BY DEF IInv, Registration, Insert, Taken
<1>3. Phases'
  BY DEF IInv, Phases, Insert, Held, HeldBy
<1>4. ReleaseInProgress'
  BY DEF IInv, ReleaseInProgress, Insert
<1>5. DroppedHandleFindsItsObject'
  BY DEF IInv, DroppedHandleFindsItsObject, Insert
<1>6. DeletedMeansUnheld'
  BY DEF IInv, DeletedMeansUnheld, Insert, Held, HeldBy
<1> QED BY <1>1, <1>2, <1>3, <1>4, <1>5, <1>6 DEF IInv

(* weak_ptr::lock gives a handle only if somebody shares it. *)
LEMMA GetObjectPreserves ==
  ASSUME IInv, NEW th \in Threads, NEW i \in Ids, GetObject(th, i)
  PROVE  IInv'
<1>1. TypeOK'
  BY DEF IInv, TypeOK, GetObject
<1>2. Registration'
  BY DEF IInv, Registration, GetObject, Taken
<1>3. Phases'
  BY DEF IInv, Phases, GetObject, Held, HeldBy
<1>4. ReleaseInProgress'
  BY DEF IInv, ReleaseInProgress, GetObject
<1>5. DroppedHandleFindsItsObject'
  BY DEF IInv, DroppedHandleFindsItsObject, GetObject
<1>6. DeletedMeansUnheld'
  BY DEF IInv, DeletedMeansUnheld, GetObject, Held, HeldBy
<1> QED BY <1>1, <1>2, <1>3, <1>4, <1>5, <1>6 DEF IInv

(* Copying a handle needs a holder. *)
LEMMA SharePreserves ==
  ASSUME IInv, NEW th \in Threads, NEW other \in Threads, NEW i \in Ids, Share(th, other, i)
  PROVE  IInv'
<1>1. TypeOK'
  BY DEF IInv, TypeOK, Share
<1>2. Registration'
  BY DEF IInv, Registration, Share, Taken
<1>3. Phases'
  BY DEF IInv, Phases, Share, Held, HeldBy
<1>4. ReleaseInProgress'
  BY DEF IInv, ReleaseInProgress, Share
<1>5. DroppedHandleFindsItsObject'
  BY DEF IInv, DroppedHandleFindsItsObject, Share
<1>6. DeletedMeansUnheld'
  BY DEF IInv, DeletedMeansUnheld, Share, Held, HeldBy
<1> QED BY <1>1, <1>2, <1>3, <1>4, <1>5, <1>6 DEF IInv

(* Whoever releases the last reference becomes the thread that marks. *)
LEMMA DropPreserves ==
  ASSUME IInv, NEW th \in Threads, NEW i \in Ids, Drop(th, i)
  PROVE  IInv'
<1>1. TypeOK'
  BY DEF IInv, TypeOK, Drop
<1>2. Registration'
  BY DEF IInv, TypeOK, Registration, Phases, Drop, Taken, Free, Held
<1>3. Phases'
  BY DEF IInv, Phases, Drop, Held, HeldBy
<1>4. ReleaseInProgress'
  BY DEF IInv, ReleaseInProgress, Drop
<1>5. DroppedHandleFindsItsObject'
  BY DEF IInv, Phases, DroppedHandleFindsItsObject, DeletedMeansUnheld, Drop, Held
<1>6. DeletedMeansUnheld'
  BY ObjectManagerAssumption DEF IInv, TypeOK, DeletedMeansUnheld, Drop, Held, HeldBy
<1> QED BY <1>1, <1>2, <1>3, <1>4, <1>5, <1>6 DEF IInv

(* The mark falls on an object that nobody holds any more. *)
LEMMA MarkDeletedPreserves ==
  ASSUME IInv, NEW i \in Ids, MarkDeleted(i)
  PROVE  IInv'
<1>1. TypeOK'
  BY DEF IInv, TypeOK, Registration, MarkDeleted, Taken
<1>2. Registration'
  BY DEF IInv, Registration, MarkDeleted, Taken
<1>3. Phases'
  BY DEF IInv, Phases, MarkDeleted, Held, HeldBy
<1>4. ReleaseInProgress'
  BY DEF IInv, ReleaseInProgress, MarkDeleted
<1>5. DroppedHandleFindsItsObject'
  BY DEF IInv, TypeOK, DroppedHandleFindsItsObject, MarkDeleted
<1>6. DeletedMeansUnheld'
  BY DEF IInv, Phases, DeletedMeansUnheld, MarkDeleted, Held, HeldBy
<1> QED BY <1>1, <1>2, <1>3, <1>4, <1>5, <1>6 DEF IInv

(* Of the objects that exist only the new component and the one it replaces  *)
(* change hands.                                                             *)
LEMMA AddComponentPreserves ==
  ASSUME IInv, NEW th \in Threads, NEW g \in Ids, NEW c \in Ids, AddComponent(th, g, c)
  PROVE  IInv'
<1>1. TypeOK'
  BY DEF IInv, TypeOK, AddComponent
<1>2. Registration'
  BY DEF IInv, TypeOK, Registration, Phases, AddComponent, LetGo, Taken, Held
<1>3. Phases'
  BY DEF IInv, Phases, AddComponent, Held, HeldBy
<1>4. ReleaseInProgress'
  BY DEF IInv, ReleaseInProgress, AddComponent
<1>5. DroppedHandleFindsItsObject'
  BY DEF IInv, Phases, DroppedHandleFindsItsObject, DeletedMeansUnheld, AddComponent, LetGo, Held
<1>6. DeletedMeansUnheld'
  <2>1. phase = "alive" /\ alive' = alive /\ isDeleted' = isDeleted /\ holders' = holders
    BY DEF AddComponent
  <2>2. ASSUME NEW i \in alive, i = c
        PROVE  Held(i)' /\ i \notin isDeleted /\ dropping'[i] = NoThread
    <3>1. th \in holders[c] /\ Held(c)
      BY DEF AddComponent, Held
    <3>2. c \notin isDeleted /\ dropping[c] = NoThread
      BY <2>1, <2>2, <3>1 DEF IInv, DeletedMeansUnheld
    <3> QED BY <2>1, <2>2, <3>1, <3>2 DEF AddComponent, Held, IInv, TypeOK
  <2>3. ASSUME NEW i \in alive, i # c, i = component[g]
        PROVE  /\ i \notin isDeleted /\ dropping[i] = NoThread
               /\ Held(i)' <=> i \notin LetGo(g)
    <3>1. g \in alive /\ g \in HeldBy(i) /\ Held(i)
      BY <2>1, <2>3 DEF IInv, Phases, AddComponent, Held, HeldBy
    <3>2. i \notin isDeleted /\ dropping[i] = NoThread /\ i \notin nulled
      BY <2>1, <2>3, <3>1 DEF IInv, DeletedMeansUnheld, Phases
    <3>3. HeldBy(i)' = HeldBy(i) \ {g}
      BY <2>1, <2>3 DEF IInv, TypeOK, AddComponent, HeldBy
    <3>4. HeldBy(i) = {g} <=> HeldBy(i)' = {}
      BY <3>1, <3>3
    <3>5. i \in Ids
      BY <2>3, ObjectManagerAssumption DEF IInv, TypeOK, Ids
    <3> QED BY <2>1, <2>3, <3>2, <3>4, <3>5 DEF LetGo, Held
  <2>4. ASSUME NEW i \in alive, i # c, i # component[g]
        PROVE  (Held(i)' <=> Held(i)) /\ i \notin LetGo(g)
    BY <2>1, <2>4 DEF IInv, AddComponent, Held, HeldBy, LetGo
  <2>5. ASSUME NEW i \in alive
        PROVE  /\ i \in Ids
               /\ dropping'[i] = IF i \in LetGo(g) \ {c} THEN th ELSE dropping[i]
    BY ObjectManagerAssumption DEF IInv, TypeOK, AddComponent, Ids
  <2>6. th # NoThread
    BY ObjectManagerAssumption
  <2> QED BY <2>1, <2>2, <2>3, <2>4, <2>5, <2>6 DEF IInv, DeletedMeansUnheld
<1> QED BY <1>1, <1>2, <1>3, <1>4, <1>5, <1>6 DEF IInv

(* The loop starts with every entry still to visit. *)
LEMMA BeginReleasePreserves ==
  ASSUME IInv, NEW th \in Threads, BeginRelease(th)
  PROVE  IInv'
<1>1. TypeOK'
  BY ObjectManagerAssumption DEF IInv, TypeOK, BeginRelease, Ids
<1>2. Registration'
  BY DEF IInv, Registration, BeginRelease, Taken
<1>3. Phases'
  BY DEF IInv, Phases, BeginRelease, Held, HeldBy
<1>4. ReleaseInProgress'
  BY DEF IInv, ReleaseInProgress, BeginRelease
<1>5. DroppedHandleFindsItsObject'
  BY DEF IInv, DroppedHandleFindsItsObject, BeginRelease
<1>6. DeletedMeansUnheld'
  BY DEF IInv, DeletedMeansUnheld, BeginRelease, Held, HeldBy
<1> QED BY <1>1, <1>2, <1>3, <1>4, <1>5, <1>6 DEF IInv

(* Freeing a marked GameObject lets go of its component, which is marked in the *)
(* same step if nobody else holds it.                                        *)
LEMMA VisitPreserves ==
  ASSUME IInv, NEW i \in Ids, VisitStep(i)
  PROVE  IInv'
<1>1. TypeOK'
  BY DEF IInv, TypeOK, Phases, VisitStep, Visit, LetGo, Held
<1>2. Registration'
  BY DEF IInv, TypeOK, Registration, DeletedMeansUnheld, VisitStep, Visit, Taken, Held, Ids
<1>3. Phases'
  BY DEF IInv, Phases, DeletedMeansUnheld, VisitStep, Visit, Held, HeldBy, Ids
<1>4. ReleaseInProgress'
  BY DEF IInv, ReleaseInProgress, VisitStep, Visit
<1>5. DroppedHandleFindsItsObject'
  BY DEF IInv, DroppedHandleFindsItsObject, DeletedMeansUnheld, VisitStep, Visit, LetGo, Held
<1>6. DeletedMeansUnheld'
  BY ObjectManagerAssumption
     DEF IInv, TypeOK, Registration, Phases, DeletedMeansUnheld, VisitStep, Visit, LetGo, Held,
         HeldBy, Ids
<1> QED BY <1>1, <1>2, <1>3, <1>4, <1>5, <1>6 DEF IInv

(* The end of the loop changes no object. *)
LEMMA EndReleasePreserves ==
  ASSUME IInv, NEW th \in Threads, EndRelease(th)
  PROVE  IInv'
<1>1. TypeOK'
  BY DEF IInv, TypeOK, EndRelease
<1>2. Registration'
  BY DEF IInv, Registration, EndRelease, Taken
<1>3. Phases'
  BY DEF IInv, Phases, EndRelease, Held, HeldBy
<1>4. ReleaseInProgress'
  BY DEF IInv, ReleaseInProgress, EndRelease
<1>5. DroppedHandleFindsItsObject'
  BY DEF IInv, DroppedHandleFindsItsObject, EndRelease
<1>6. DeletedMeansUnheld'
  BY DEF IInv, DeletedMeansUnheld, EndRelease, Held, HeldBy
<1> QED BY <1>1, <1>2, <1>3, <1>4, <1>5, <1>6 DEF IInv

(* The destructor starts with every held object still to visit. *)
LEMMA BeginDestroyPreserves ==
  ASSUME IInv, BeginDestroy
  PROVE  IInv'
<1>1. TypeOK'
  BY ObjectManagerAssumption DEF IInv, TypeOK, BeginDestroy, Ids
<1>2. Registration'
  BY DEF IInv, Registration, BeginDestroy, Taken
<1>3. Phases'
  BY DEF IInv, Registration, Phases, BeginDestroy, Held, HeldBy, Ids, NoId
<1>4. ReleaseInProgress'
  BY DEF IInv, ReleaseInProgress, BeginDestroy
<1>5. DroppedHandleFindsItsObject'
  BY DEF IInv, DroppedHandleFindsItsObject, BeginDestroy
<1>6. DeletedMeansUnheld'
  BY DEF IInv, DeletedMeansUnheld, BeginDestroy
<1> QED BY <1>1, <1>2, <1>3, <1>4, <1>5, <1>6 DEF IInv

(* The loop of the destructor nullifies what is held when it passes. *)
LEMMA NullifyPreserves ==
  ASSUME IInv, NEW i \in Ids, Nullify(i)
  PROVE  IInv'
<1>1. TypeOK'
  BY DEF IInv, TypeOK, Phases, Nullify
<1>2. Registration'
  BY DEF IInv, Registration, Nullify, Taken
<1>3. Phases'
  BY DEF IInv, Phases, Nullify, Held, HeldBy
<1>4. ReleaseInProgress'
  BY DEF IInv, Phases, ReleaseInProgress, Nullify
<1>5. DroppedHandleFindsItsObject'
  BY DEF IInv, DroppedHandleFindsItsObject, Nullify
<1>6. DeletedMeansUnheld'
  BY DEF IInv, DeletedMeansUnheld, Nullify
<1> QED BY <1>1, <1>2, <1>3, <1>4, <1>5, <1>6 DEF IInv

(* Everything is freed when every held handle is nullified. *)
LEMMA FreeAllPreserves ==
  ASSUME IInv, FreeAll
  PROVE  IInv'
<1>1. TypeOK'
  BY DEF IInv, TypeOK, FreeAll
<1>2. Registration'
  BY DEF IInv, Registration, FreeAll, Taken
<1>3. Phases'
  BY DEF IInv, Phases, FreeAll, Held, HeldBy
<1>4. ReleaseInProgress'
  BY DEF IInv, ReleaseInProgress, FreeAll
<1>5. DroppedHandleFindsItsObject'
  BY DEF IInv, DroppedHandleFindsItsObject, FreeAll
<1>6. DeletedMeansUnheld'
  BY DEF IInv, DeletedMeansUnheld, FreeAll
<1> QED BY <1>1, <1>2, <1>3, <1>4, <1>5, <1>6 DEF IInv

(* A step that changes nothing preserves everything. *)
LEMMA StutterPreserves ==
  ASSUME IInv, UNCHANGED vars
  PROVE  IInv'
BY DEF IInv, TypeOK, Registration, Phases, ReleaseInProgress, DroppedHandleFindsItsObject,
       DeletedMeansUnheld, Held, HeldBy, Taken, vars

(* The invariant is inductive: one case per disjunct of Next. *)
LEMMA Inductive == IInv /\ [Next]_vars => IInv'
<1> SUFFICES ASSUME IInv, [Next]_vars PROVE IInv'
  OBVIOUS
<1>1. CASE \E th \in Threads, cls \in Classes : TakeId(th, cls)
  BY <1>1, TakeIdPreserves
<1>2. CASE \E th \in Threads : Insert(th) \/ BeginRelease(th) \/ EndRelease(th)
  BY <1>2, InsertPreserves, BeginReleasePreserves, EndReleasePreserves
<1>3. CASE \E th \in Threads, i \in Ids : GetObject(th, i) \/ Drop(th, i)
  BY <1>3, GetObjectPreserves, DropPreserves
<1>4. CASE \E th, other \in Threads, i \in Ids : Share(th, other, i)
  BY <1>4, SharePreserves
<1>5. CASE \E th \in Threads, g, c \in Ids : AddComponent(th, g, c)
  BY <1>5, AddComponentPreserves
<1>6. CASE \E i \in Ids : MarkDeleted(i) \/ VisitStep(i) \/ Nullify(i)
  BY <1>6, MarkDeletedPreserves, VisitPreserves, NullifyPreserves
<1>7. CASE BeginDestroy \/ FreeAll
  BY <1>7, BeginDestroyPreserves, FreeAllPreserves
<1>8. CASE Gone \/ UNCHANGED vars
  BY <1>8, StutterPreserves DEF Gone
<1> QED BY <1>1, <1>2, <1>3, <1>4, <1>5, <1>6, <1>7, <1>8 DEF Next

-----------------------------------------------------------------------------
(* The theorems.                                                             *)

(* The inductive invariant holds in every state that is reached. *)
THEOREM Invariance == Spec => []IInv
BY InitIInv, Inductive, PTL DEF Spec

(* The manager's state keeps its types, and every key of mObjects, mark and  *)
(* nullified handle is an id that was taken before.                          *)
THEOREM TypeCorrect == Spec => []TypeOK
<1>1. IInv => TypeOK
  BY DEF IInv
<1> QED BY <1>1, Invariance, PTL

(* A handle that a thread or a GameObject holds is null or points to an      *)
(* object that exists, for any interleaving of releases, handles let go of   *)
(* and the manager's destruction.                                            *)
THEOREM HandlesCorrect == Spec => []HeldHandleIsValid
<1>1. IInv => HeldHandleIsValid
  BY DEF IInv, TypeOK, Phases, HeldHandleIsValid
<1> QED BY <1>1, Invariance, PTL

(* While the manager lives, what ~ObjHandle marks outside the mutex exists. *)
THEOREM DroppedCorrect == Spec => []DroppedHandleFindsItsObject
<1>1. IInv => DroppedHandleFindsItsObject
  BY DEF IInv
<1> QED BY <1>1, Invariance, PTL

(* While the manager lives, an object is marked, or about to be, exactly when *)
(* nobody holds it.                                                          *)
THEOREM MarksCorrect == Spec => []DeletedMeansUnheld
<1>1. IInv => DeletedMeansUnheld
  BY DEF IInv
<1> QED BY <1>1, Invariance, PTL

(* releaseUnusedObjects ends with everything freed that was marked when it   *)
(* began, in whatever order it meets the entries.                            *)
THEOREM ReleaseCorrect == Spec => ReleaseIsComplete
<1>1. IInv /\ [Next]_vars => [\A th \in Threads : EndRelease(th) => garbage \cap inMap = {}]_vars
  BY ObjectManagerAssumption DEF IInv, ReleaseInProgress, EndRelease
<1> QED BY <1>1, Invariance, PTL DEF Spec, ReleaseIsComplete

=============================================================================
