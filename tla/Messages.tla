------------------------------ MODULE Messages ------------------------------
(***************************************************************************)
(* Messages between the components of game objects (src/core/cmpmsgs.h,    *)
(* .cpp, gameobject.cpp, component.cpp) over the run-time type information *)
(* of their classes (object.h, .cpp, objhandle.h).                         *)
(*                                                                         *)
(* A callback is a function of the application: before it returns it may   *)
(* add components and send messages itself, so that the loops of           *)
(* GameObject::sendMessage run inside of each other.  One thread runs them *)
(* all.  The application's components have classes that it declares with   *)
(* CLASS_IMPLEMENT.                                                        *)
(***************************************************************************)
EXTENDS Naturals, Sequences, SequencesExt

CONSTANTS Classes,        \* the classes of the program
          BaseOf,         \* per class, the base class that IMPLEMENT_STRUCT names
          Component,      \* the class of that name
          Undefined,      \* no class: -1
          GameObjects, Components,
          ClassOf,        \* per component, getClassIDVirtual()
          Nobody,         \* no component
          mDidAddComponent, mTransformChanged,
          CallbackKeys,   \* the messages and classes that the application has callbacks for
          MaxDepth        \* bound of the model: loops inside of each other

Messages == {mDidAddComponent, mTransformChanged}

ASSUME MessagesAssumption ==
  /\ BaseOf \in [Classes -> Classes \cup {Undefined}] /\ Undefined \notin Classes
  /\ \A S \in (SUBSET Classes) \ {{}} : \E k \in S : BaseOf[k] \notin S   \* no class is its own base
  /\ Component \in Classes
  /\ ClassOf \in [Components -> Classes] /\ Nobody \notin Components \cup GameObjects
  /\ CallbackKeys \subseteq Messages \X Classes
  /\ MaxDepth \in Nat \ {0}

VARIABLES
  rtti,        \* s_mClassIDToRttiMap: per registered class, its base
  callbacks,   \* keys of sMsgHandler.mCallBackMap: message and class
  mComponents, \* per game object and class, the component or Nobody
  mGameObj,    \* per component, the game object that it sends through, or Nobody
  loops,       \* the calls of GameObject::sendMessage that are not finished, the inmost last
  told,        \* per game object, the pairs <<j, k>> of classes whose entry j was told
               \* of the entry k when that was added (for the properties)
  overlapped   \* the game objects that a callback added to while another addition was
               \* being announced to them (for the properties)

vars == <<rtti, callbacks, mComponents, mGameObj, loops, told, overlapped>>

Init ==
  /\ rtti = <<>>
  /\ callbacks = {}
  /\ mComponents = [g \in GameObjects |-> [k \in Classes |-> Nobody]]
  /\ mGameObj = [c \in Components |-> Nobody]
  /\ loops = <<>>
  /\ told = [g \in GameObjects |-> {}]
  /\ overlapped = {}

-----------------------------------------------------------------------------
(* Run-time type information.                                                *)

(* Before main, each class's static initialiser registers it, in any order. *)
RegisterClass(k) ==
  /\ k \notin DOMAIN rtti
  /\ rtti' = [j \in DOMAIN rtti \cup {k} |-> IF j = k THEN BaseOf[k] ELSE rtti[j]]
  /\ UNCHANGED <<callbacks, mComponents, mGameObj, loops, told, overlapped>>

InMain == DOMAIN rtti = Classes

GetSuperClassID(k) == IF k \in DOMAIN rtti THEN rtti[k] ELSE Undefined

\* Mutant: the search begins at the base class.
SearchBegins(k) == GetSuperClassID(k)

SearchFrom(k) == k

IsDerivedFromClassID(k, from) ==
  LET found[j \in Classes \cup {Undefined}] ==
        j # Undefined /\ (j = from \/ found[GetSuperClassID(j)])
  IN  found[SearchFrom(k)]

dynamic_ohdl_cast(c) == IF IsDerivedFromClassID(ClassOf[c], Component) THEN c ELSE Nobody

-----------------------------------------------------------------------------
(* What the application does in main or in a callback.                       *)

Held(g) == {k \in Classes : mComponents[g][k] # Nobody}

\* Code of the application runs in main, and in the callback of the inmost loop.
AppRuns == InMain /\ (loops # <<>> => Last(loops).rec # Nobody)

\* As main() does, the application registers its callbacks before it adds components.
registerMessageCallback(key) ==
  /\ AppRuns
  /\ \A g \in GameObjects : Held(g) = {}
  /\ loops = <<>>
  /\ callbacks' = callbacks \cup {key}
  /\ UNCHANGED <<rtti, mComponents, mGameObj, loops, told, overlapped>>

(* GameObject::sendMessage begins: a loop over mComponents of g, in the order *)
(* of the hash map.  add is the component to insert when it has ended, called *)
(* and disturbed are for the properties.                                      *)
Loop(g, m, sender, add) ==
  [go |-> g, msg |-> m, sender |-> sender, todo |-> Held(g), rec |-> Nobody,
   add |-> add, called |-> {}, disturbed |-> FALSE]

sendMessage(g, m, sender) ==
  /\ AppRuns
  /\ Len(loops) < MaxDepth
  /\ loops' = Append(loops, Loop(g, m, sender, Nobody))
  /\ UNCHANGED <<rtti, callbacks, mComponents, mGameObj, told, overlapped>>

\* Component::sendMessage: nothing happens for a component without a game object.
SendFrom(c, m) == mGameObj[c] # Nobody /\ sendMessage(mGameObj[c], m, ClassOf[c])

\* The announcement of c goes to the entries of the classes in to.
Announce(g, c, to) ==
  /\ AppRuns
  /\ dynamic_ohdl_cast(c) # Nobody
  /\ Len(loops) < MaxDepth
  /\ mGameObj' = [mGameObj EXCEPT ![c] = g]
  /\ loops' = Append(loops, [Loop(g, mDidAddComponent, ClassOf[c], c) EXCEPT !.todo = to])
  /\ overlapped' = overlapped \cup {h \in {g} : \E i \in DOMAIN loops :
                                               loops[i].go = h /\ loops[i].add # Nobody}
  /\ UNCHANGED <<rtti, callbacks, mComponents, told>>

\* Mutant: the message is sent while mGameObj is still null, and goes nowhere.
addComponentUnset(g, c) == mGameObj[c] = Nobody /\ Announce(g, c, {})

(* addComponent sets mGameObj, tells the components that g has already, and   *)
(* inserts the new one after that.                                            *)
addComponent(g, c) == Announce(g, c, Held(g))

-----------------------------------------------------------------------------
(* The inmost loop.                                                          *)

\* Mutant: the sender is told as well.
WantsToo(k, loop) == <<loop.msg, k>> \in callbacks

Wants(k, loop) == <<loop.msg, k>> \in callbacks /\ k # loop.sender

Continue(loop) == loops' = [loops EXCEPT ![Len(loops)] = loop]

InLoop == loops # <<>> /\ Last(loops).rec = Nobody

\* handleMessage calls the callback of the component that the entry has now.
Handle(k) ==
  /\ InLoop /\ k \in Last(loops).todo
  /\ Wants(k, Last(loops))
  /\ LET loop == Last(loops)
         rec  == dynamic_ohdl_cast(mComponents[loop.go][k])
     IN  Continue([loop EXCEPT !.todo = @ \ {k}, !.rec = rec, !.called = @ \cup {k}])
  /\ UNCHANGED <<rtti, callbacks, mComponents, mGameObj, told, overlapped>>

Skip(k) ==
  /\ InLoop /\ k \in Last(loops).todo
  /\ ~Wants(k, Last(loops))
  /\ Continue([Last(loops) EXCEPT !.todo = @ \ {k}])
  /\ UNCHANGED <<rtti, callbacks, mComponents, mGameObj, told, overlapped>>

CallbackReturns ==
  /\ loops # <<>> /\ Last(loops).rec # Nobody
  /\ Continue([Last(loops) EXCEPT !.rec = Nobody])
  /\ UNCHANGED <<rtti, callbacks, mComponents, mGameObj, told, overlapped>>

(* A callback throws: the exception leaves the loops from n on, and a callback *)
(* outside of them, or main, catches it.  A component that one of them was to *)
(* insert is not inserted, though its mGameObj is set.                        *)
CallbackThrows(n) ==
  /\ loops # <<>> /\ Last(loops).rec # Nobody
  /\ n \in DOMAIN loops
  /\ loops' = SubSeq(loops, 1, n - 1)
  /\ UNCHANGED <<rtti, callbacks, mComponents, mGameObj, told, overlapped>>

EndSend ==
  /\ InLoop /\ Last(loops).todo = {} /\ Last(loops).add = Nobody
  /\ loops' = Front(loops)
  /\ UNCHANGED <<rtti, callbacks, mComponents, mGameObj, told, overlapped>>

(* A loop whose hash map may have been rehashed under it goes on with any     *)
(* entries but the one it is at.                                              *)
Disturb(loop, todo) == [loop EXCEPT !.todo = todo \ {ClassOf[loop.rec]}, !.disturbed = TRUE]

\* Mutant: every component is put under the class Component.
KeyOfBase(c) == Component

Key(c) == ClassOf[c]

(* The last line of addComponent.  To replace a component leaves iterators as *)
(* they are; a new class may rehash the map that outer loops are going over.  *)
EndAdd ==
  /\ InLoop /\ Last(loops).todo = {} /\ Last(loops).add # Nobody
  /\ LET loop  == Last(loops)
         g     == loop.go
         k     == Key(loop.add)
         outer == Front(loops)
         Over  == {i \in DOMAIN outer : outer[i].go = g /\ k \notin Held(g)}
     IN  /\ mComponents' = [mComponents EXCEPT ![g][k] = loop.add]
         /\ \E todo \in [Over -> SUBSET (Held(g) \cup {k})] :
              loops' = [i \in DOMAIN outer |-> IF i \in Over THEN Disturb(outer[i], todo[i])
                                                             ELSE outer[i]]
         /\ told' = [told EXCEPT ![g] = IF g \in overlapped THEN {}
                            ELSE {p \in @ : k \notin {p[1], p[2]}} \cup (loop.called \X {k})]
  /\ UNCHANGED <<rtti, callbacks, mGameObj, overlapped>>

-----------------------------------------------------------------------------
Next == \/ \E k \in Classes : RegisterClass(k) \/ Handle(k) \/ Skip(k)
        \/ \E key \in CallbackKeys : registerMessageCallback(key)
        \/ \E g \in GameObjects, k \in Range(ClassOf) \cup {Undefined} : sendMessage(g, mTransformChanged, k)
        \/ \E c \in Components : SendFrom(c, mTransformChanged)
        \/ \E g \in GameObjects, c \in Components : addComponent(g, c)
        \/ \E n \in 1..MaxDepth : CallbackThrows(n)
        \/ CallbackReturns \/ EndSend \/ EndAdd

Spec == Init /\ [][Next]_vars

-----------------------------------------------------------------------------
(* Properties.                                                               *)

LoopType == [go : GameObjects, msg : Messages, sender : Classes \cup {Undefined},
             todo : SUBSET Classes, rec : Components \cup {Nobody},
             add : Components \cup {Nobody}, called : SUBSET Classes, disturbed : BOOLEAN]

(* The types; an entry of mComponents is under the class of its component, so *)
(* that the callback that hasMessageCallback found is the one handleMessage   *)
(* calls; a component that was added has a game object to send through; and   *)
(* a loop that is not the inmost is inside of a callback.                     *)
TypeOK ==
  /\ DOMAIN rtti \subseteq Classes /\ \A k \in DOMAIN rtti : rtti[k] = BaseOf[k]
  /\ callbacks \subseteq CallbackKeys
  /\ mComponents \in [GameObjects -> [Classes -> Components \cup {Nobody}]]
  /\ mGameObj \in [Components -> GameObjects \cup {Nobody}]
  /\ \A g \in GameObjects, k \in Classes : LET c == mComponents[g][k] IN
       c # Nobody => ClassOf[c] = k /\ mGameObj[c] # Nobody
  /\ loops \in Seq(LoopType) /\ Len(loops) <= MaxDepth
  /\ \A i \in DOMAIN loops : LET c == loops[i].add IN c # Nobody => mGameObj[c] # Nobody
  /\ \A i \in DOMAIN loops : i < Len(loops) => loops[i].rec # Nobody
  /\ told \in [GameObjects -> SUBSET (Classes \X Classes)]
  /\ overlapped \subseteq GameObjects

(* A message reaches each class of the game object that has a callback for it *)
(* once, the sender's excepted, whatever the callbacks send, replace or add   *)
(* to other game objects meanwhile.  (A callback that adds a component of a   *)
(* new class to the game object that is being told disturbs the loop.)        *)
ToldOnce ==
  \A i \in DOMAIN loops : LET loop == loops[i] IN
    ~loop.disturbed =>
      /\ loop.sender \notin loop.called
      /\ loop.called \cap loop.todo = {}
      /\ \A k \in Held(loop.go) \ {loop.sender} :
           <<loop.msg, k>> \in callbacks => k \in loop.called \cup loop.todo

(* Of two components of a game object one was told that the other is added,   *)
(* if they have the callbacks: the later one was announced when the earlier   *)
(* one was there.  It fails where callbacks of mDidAddComponent add to the    *)
(* same game object: addComponent announces a component before it inserts it. *)
KnowEachOther ==
  \A g \in GameObjects \ overlapped : \A j, k \in Held(g) :
    j # k /\ {<<mDidAddComponent, j>>, <<mDidAddComponent, k>>} \subseteq callbacks =>
      <<j, k>> \in told[g] \/ <<k, j>> \in told[g]

\* The classes that k has above it, itself included: the smallest set that is closed.
Ancestors ==
  [k \in Classes |-> {j \in Classes : \A S \in SUBSET Classes :
     k \in S /\ (\A i \in S : BaseOf[i] # Undefined => BaseOf[i] \in S) => j \in S}]

(* IsDerivedFromClassID finds the classes of the declared hierarchy: all of   *)
(* them when main runs, and before that, while base classes may still be      *)
(* unregistered, never a wrong one.                                           *)
FollowsHierarchy ==
  \A j, k \in Classes :
    IF InMain THEN IsDerivedFromClassID(k, j) <=> j \in Ancestors[k]
              ELSE IsDerivedFromClassID(k, j) => j \in Ancestors[k]

=============================================================================
