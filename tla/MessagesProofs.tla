---------------------------- MODULE MessagesProofs ----------------------------
(***************************************************************************)
(* Theorems of Messages.tla, for any hierarchy of classes, any game        *)
(* objects, components and callbacks, and any depth of calls.  The         *)
(* invariants follow from one inductive invariant, IInv: to them it adds   *)
(* what the loops of addComponent are.                                     *)
(***************************************************************************)
EXTENDS Messages, SequenceTheorems, TLAPS

-----------------------------------------------------------------------------
(* The stack of loops is a sequence.                                         *)

(* What a new inmost loop does to the stack. *)
LEMMA AppendStack ==
  ASSUME NEW S, NEW s \in Seq(S), NEW x \in S
  PROVE  /\ Append(s, x) \in Seq(S) /\ Len(s) \in Nat
         /\ DOMAIN s = 1..Len(s) /\ DOMAIN Append(s, x) = 1..(Len(s) + 1)
         /\ Len(Append(s, x)) = Len(s) + 1
         /\ \A i \in 1..Len(s) : Append(s, x)[i] = s[i]
         /\ Append(s, x)[Len(s) + 1] = x
  OBVIOUS

(* The inmost loop is the last of the stack. *)
LEMMA LastOfStack ==
  ASSUME NEW S, NEW s \in Seq(S), s # <<>>
  PROVE  /\ Len(s) \in Nat \ {0} /\ DOMAIN s = 1..Len(s) /\ Len(s) \in DOMAIN s
         /\ Last(s) = s[Len(s)] /\ Last(s) \in S
  BY DEF Last

(* What a step of the inmost loop does to the stack. *)
LEMMA ReplaceLast ==
  ASSUME NEW S, NEW s \in Seq(S), s # <<>>, NEW x \in S
  PROVE  LET r == [s EXCEPT ![Len(s)] = x]
         IN  /\ r \in Seq(S) /\ Len(r) = Len(s) /\ DOMAIN r = DOMAIN s
             /\ \A i \in DOMAIN s : i # Len(s) => r[i] = s[i]
             /\ r[Len(s)] = x
  BY LastOfStack

(* What is left of the stack when the loops after the n-th have gone. *)
LEMMA CutStack ==
  ASSUME NEW S, NEW s \in Seq(S), NEW n \in 0..Len(s)
  PROVE  /\ SubSeq(s, 1, n) \in Seq(S) /\ Len(SubSeq(s, 1, n)) = n
         /\ DOMAIN SubSeq(s, 1, n) = 1..n
         /\ \A i \in 1..n : SubSeq(s, 1, n)[i] = s[i]
<1>1. n \in Nat /\ \A i \in 1..n : s[i] \in S /\ 1 + i - 1 = i
  OBVIOUS
<1>2. n \in Int /\ n - 1 + 1 = n /\ (n < 1 => n = 0)
  BY <1>1
<1>3. /\ SubSeq(s, 1, n) \in Seq(S) /\ Len(SubSeq(s, 1, n)) = n
      /\ \A i \in 1..n : SubSeq(s, 1, n)[i] = s[i]
  BY <1>1, <1>2, SubSeqProperties
<1> QED BY <1>3, LenProperties

(* The number of the loop around the inmost one, or 0. *)
LEMMA OneLess ==
  ASSUME NEW S, NEW s \in Seq(S), s # <<>>
  PROVE  \E n \in 0..Len(s) : n = Len(s) - 1
<1>1. PICK m \in Nat \ {0} : m = Len(s)
  BY LastOfStack
<1>2. m - 1 \in 0..m
  OBVIOUS
<1> QED BY <1>1, <1>2

(* What the end of the inmost loop does to the stack. *)
LEMMA FrontOfStack ==
  ASSUME NEW S, NEW s \in Seq(S), s # <<>>
  PROVE  /\ Front(s) \in Seq(S) /\ Len(Front(s)) = Len(s) - 1
         /\ DOMAIN Front(s) = 1..(Len(s) - 1)
         /\ \A i \in 1..(Len(s) - 1) : Front(s)[i] = s[i]
<1>1. PICK n \in 0..Len(s) : n = Len(s) - 1
  BY OneLess
<1>2. PICK front : front = SubSeq(s, 1, n)
  OBVIOUS
<1>3. front \in Seq(S) /\ Len(front) = n /\ DOMAIN front = 1..n /\ \A i \in 1..n : front[i] = s[i]
  BY <1>2, CutStack
<1>4. Front(s) = front
  BY <1>1, <1>2 DEF Front
<1> QED BY <1>1, <1>3, <1>4

-----------------------------------------------------------------------------
(* A loop of addComponent announces the component that it will insert; where *)
(* there are two of one game object, or one was disturbed, a callback added  *)
(* to the game object that was being told.                                   *)
Announcements ==
  /\ \A i \in DOMAIN loops : loops[i].add # Nobody =>
       loops[i].msg = mDidAddComponent /\ loops[i].sender = ClassOf[loops[i].add]
  /\ \A i, j \in DOMAIN loops :
       loops[i].add # Nobody /\ loops[j].add # Nobody /\ loops[i].go = loops[j].go /\ i # j =>
         loops[i].go \in overlapped
  /\ \A i \in DOMAIN loops :
       loops[i].add # Nobody /\ loops[i].disturbed => loops[i].go \in overlapped

(* The inductive invariant. *)
IInv == TypeOK /\ Announcements /\ ToldOnce /\ KnowEachOther

(* The program starts without components and without calls. *)
LEMMA InitIInv == Init => IInv
<1> SUFFICES ASSUME Init PROVE IInv
  OBVIOUS
<1>1. DOMAIN loops = {} /\ loops \in Seq(LoopType) /\ Len(loops) = 0 /\ DOMAIN rtti = {}
  BY DEF Init
<1>2. \A g \in GameObjects : Held(g) = {}
  BY DEF Init, Held
<1>3. TypeOK
  BY <1>1, MessagesAssumption DEF Init, TypeOK
<1>4. Announcements /\ ToldOnce
  BY <1>1 DEF Announcements, ToldOnce
<1>5. KnowEachOther
  BY <1>2 DEF KnowEachOther
<1> QED BY <1>3, <1>4, <1>5 DEF IInv

-----------------------------------------------------------------------------
(* Each step preserves the inductive invariant.                              *)

(* Static initialisers change the table of classes only. *)
LEMMA RegisterClassPreserves ==
  ASSUME IInv, NEW k \in Classes, RegisterClass(k)
  PROVE  IInv'
<1>1. TypeOK'
  BY DEF IInv, TypeOK, RegisterClass, Held
<1>2. Announcements'
  BY DEF IInv, Announcements, RegisterClass
<1>3. ToldOnce'
  BY DEF IInv, ToldOnce, RegisterClass, Held
<1>4. KnowEachOther'
  BY DEF IInv, KnowEachOther, RegisterClass, Held
<1> QED BY <1>1, <1>2, <1>3, <1>4 DEF IInv

(* When the application registers a callback, there is nobody to be told. *)
LEMMA RegisterCallbackPreserves ==
  ASSUME IInv, NEW key \in CallbackKeys, registerMessageCallback(key)
  PROVE  IInv'
<1>1. TypeOK'
  BY DEF IInv, TypeOK, registerMessageCallback
<1>2. Announcements'
  BY DEF IInv, Announcements, registerMessageCallback
<1>3. ToldOnce'
  BY DEF ToldOnce, registerMessageCallback
<1>4. KnowEachOther'
  BY DEF KnowEachOther, registerMessageCallback, Held
<1> QED BY <1>1, <1>2, <1>3, <1>4 DEF IInv

(* A loop that begins is over all entries of the game object, and has called *)
(* nobody.                                                                   *)
LEMMA LoopBegins ==
  ASSUME IInv, NEW g \in GameObjects, NEW m \in Messages, NEW k \in Classes \cup {Undefined},
         NEW c \in Components \cup {Nobody}
  PROVE  Loop(g, m, k, c) \in LoopType
  BY DEF Loop, LoopType, Held

(* A loop that carries no component adds to no game object. *)
LEMMA SendMessagePreserves ==
  ASSUME IInv, NEW g \in GameObjects, NEW m \in Messages, NEW k \in Classes \cup {Undefined},
         sendMessage(g, m, k)
  PROVE  IInv'
<1> DEFINE new == Loop(g, m, k, Nobody)
<1>1. new \in LoopType
  BY LoopBegins
<1>2. loops \in Seq(LoopType) /\ loops' = Append(loops, new)
  BY DEF IInv, TypeOK, sendMessage
<1>3. /\ loops' \in Seq(LoopType) /\ Len(loops) \in Nat
      /\ DOMAIN loops = 1..Len(loops) /\ DOMAIN loops' = 1..(Len(loops) + 1)
      /\ Len(loops') = Len(loops) + 1
      /\ \A i \in 1..Len(loops) : loops'[i] = loops[i]
      /\ loops'[Len(loops) + 1] = new
  BY <1>1, <1>2, AppendStack
<1>4. new.add = Nobody /\ new.called = {} /\ new.todo = Held(g) /\ new.go = g
  BY DEF Loop
<1>5. \A h : Held(h)' = Held(h)
  BY DEF sendMessage, Held
<1>6. TypeOK'
  <2>1. Len(loops') <= MaxDepth
    BY <1>3, MessagesAssumption DEF sendMessage
  <2>2. \A i \in DOMAIN loops' : i < Len(loops') => loops'[i].rec # Nobody
    <3>1. loops # <<>> => loops[Len(loops)].rec # Nobody
      BY DEF sendMessage, AppRuns, Last
    <3>2. \A i \in 1..Len(loops) : loops # <<>>
      BY <1>3
    <3> QED BY <1>3, <3>1, <3>2 DEF IInv, TypeOK
  <2>3. \A i \in DOMAIN loops' : loops'[i].add # Nobody => mGameObj[loops'[i].add] # Nobody
    BY <1>3, <1>4 DEF IInv, TypeOK
  <2> QED BY <1>3, <2>1, <2>2, <2>3 DEF IInv, TypeOK, sendMessage
<1>7. Announcements'
  BY <1>3, <1>4 DEF IInv, Announcements, sendMessage
<1>8. ToldOnce'
  BY <1>3, <1>4, <1>5 DEF IInv, ToldOnce, sendMessage
<1>9. KnowEachOther'
  BY <1>5 DEF IInv, KnowEachOther, sendMessage
<1> QED BY <1>6, <1>7, <1>8, <1>9 DEF IInv

(* A loop of addComponent over a game object that is being added to counts   *)
(* as an overlap.                                                            *)
LEMMA AddComponentPreserves ==
  ASSUME IInv, NEW g \in GameObjects, NEW c \in Components, addComponent(g, c)
  PROVE  IInv'
<1> DEFINE new == [Loop(g, mDidAddComponent, ClassOf[c], c) EXCEPT !.todo = Held(g)]
<1>1. /\ new \in LoopType
      /\ new.add = c /\ new.called = {} /\ new.todo = Held(g) /\ new.go = g /\ ~new.disturbed
      /\ new.msg = mDidAddComponent /\ new.sender = ClassOf[c]
  BY MessagesAssumption DEF Loop, LoopType, Held, Messages
<1>2. loops \in Seq(LoopType) /\ loops' = Append(loops, new)
  BY DEF IInv, TypeOK, addComponent, Announce
<1> HIDE DEF new
<1>3. /\ loops' \in Seq(LoopType) /\ Len(loops) \in Nat
      /\ DOMAIN loops = 1..Len(loops) /\ DOMAIN loops' = 1..(Len(loops) + 1)
      /\ Len(loops') = Len(loops) + 1
      /\ \A i \in 1..Len(loops) : loops'[i] = loops[i]
      /\ loops'[Len(loops) + 1] = new
  BY <1>1, <1>2, AppendStack
<1>4. \A h : Held(h)' = Held(h)
  BY DEF addComponent, Announce, Held
<1>5. /\ mGameObj' = [mGameObj EXCEPT ![c] = g] /\ g # Nobody /\ c # Nobody
      /\ mGameObj \in [Components -> GameObjects \cup {Nobody}]
  BY MessagesAssumption DEF IInv, TypeOK, addComponent, Announce
<1>6. TypeOK'
  <2>1. Len(loops') <= MaxDepth
    BY <1>3, MessagesAssumption DEF addComponent, Announce
  <2>2. \A i \in DOMAIN loops' : i < Len(loops') => loops'[i].rec # Nobody
    <3>1. loops # <<>> => loops[Len(loops)].rec # Nobody
      BY DEF addComponent, Announce, AppRuns, Last
    <3>2. \A i \in 1..Len(loops) : loops # <<>>
      BY <1>3
    <3> QED BY <1>3, <3>1, <3>2, SMTT(30) DEF IInv, TypeOK
  <2>3. \A d \in Components : mGameObj[d] # Nobody => mGameObj'[d] # Nobody
    BY <1>5
  <2>4. \A i \in DOMAIN loops' : loops'[i].add # Nobody => mGameObj'[loops'[i].add] # Nobody
    <3>1. \A i \in DOMAIN loops : loops[i] \in LoopType
      BY <1>2, <1>3
    <3>2. \A i \in DOMAIN loops : loops[i].add \in Components \cup {Nobody}
      BY <3>1 DEF LoopType
    <3>3. \A i \in DOMAIN loops : loops[i].add # Nobody => mGameObj'[loops[i].add] # Nobody
      BY <2>3, <3>2 DEF IInv, TypeOK
    <3>4. mGameObj'[c] # Nobody
      BY <1>5
    <3> QED BY <1>1, <1>3, <3>3, <3>4
  <2>5. \A h \in GameObjects, k \in Classes : mComponents[h][k] # Nobody =>
          ClassOf[mComponents[h][k]] = k /\ mGameObj'[mComponents[h][k]] # Nobody
    BY <2>3 DEF IInv, TypeOK
  <2>6. overlapped' \subseteq GameObjects /\ mGameObj' \in [Components -> GameObjects \cup {Nobody}]
    BY <1>5 DEF IInv, TypeOK, addComponent, Announce
  <2>7. UNCHANGED <<rtti, callbacks, mComponents, told>>
    BY DEF addComponent, Announce
  <2> QED BY <1>3, <2>1, <2>2, <2>4, <2>5, <2>6, <2>7 DEF IInv, TypeOK
<1>7. Announcements'
  <2>1. /\ overlapped \subseteq overlapped'
        /\ \A i \in DOMAIN loops : loops[i].add # Nobody /\ loops[i].go = g => g \in overlapped'
    BY DEF addComponent, Announce
  <2> QED BY <1>1, <1>3, <2>1 DEF IInv, Announcements
<1>8. ToldOnce'
  <2>1. callbacks' = callbacks
    BY DEF addComponent, Announce
  <2> QED BY <1>1, <1>3, <1>4, <2>1 DEF IInv, ToldOnce
<1>9. KnowEachOther'
  BY <1>4 DEF IInv, KnowEachOther, addComponent, Announce
<1> QED BY <1>6, <1>7, <1>8, <1>9 DEF IInv

(* What ToldOnce says of one loop. *)
TellsAll(loop) ==
  ~loop.disturbed =>
    /\ loop.sender \notin loop.called
    /\ loop.called \cap loop.todo = {}
    /\ \A k \in Held(loop.go) \ {loop.sender} :
         <<loop.msg, k>> \in callbacks => k \in loop.called \cup loop.todo

(* A step of the inmost loop that leaves what it announces alone. *)
LEMMA ContinuePreserves ==
  ASSUME IInv, loops # <<>>, NEW x \in LoopType, Continue(x),
         x.go = Last(loops).go, x.msg = Last(loops).msg, x.sender = Last(loops).sender,
         x.add = Last(loops).add, x.disturbed = Last(loops).disturbed, TellsAll(x),
         UNCHANGED <<rtti, callbacks, mComponents, mGameObj, told, overlapped>>
  PROVE  IInv'
<1> DEFINE n == Len(loops)
<1>1. loops \in Seq(LoopType)
  BY DEF IInv, TypeOK
<1>2. n \in DOMAIN loops /\ DOMAIN loops = 1..n /\ Last(loops) = loops[n]
  BY <1>1, LastOfStack
<1>3. /\ loops' \in Seq(LoopType) /\ Len(loops') = n /\ DOMAIN loops' = DOMAIN loops
      /\ \A i \in DOMAIN loops : i # n => loops'[i] = loops[i]
      /\ loops'[n] = x
  BY <1>1, ReplaceLast DEF Continue
<1> HIDE DEF n
<1>4. \A h : Held(h)' = Held(h)
  BY DEF Held
<1>5. \A i \in DOMAIN loops : /\ loops'[i].go = loops[i].go /\ loops'[i].msg = loops[i].msg
                              /\ loops'[i].sender = loops[i].sender
                              /\ loops'[i].add = loops[i].add
                              /\ loops'[i].disturbed = loops[i].disturbed
  BY <1>2, <1>3
<1>6. TypeOK'
  <2>1. Len(loops') = Len(loops)
    BY <1>3 DEF n
  <2>2. \A i \in DOMAIN loops' : i < Len(loops') => loops'[i].rec # Nobody
    BY <1>2, <1>3, <2>1 DEF IInv, TypeOK, n
  <2>3. \A i \in DOMAIN loops' : loops'[i].add # Nobody => mGameObj[loops'[i].add] # Nobody
    BY <1>3, <1>5 DEF IInv, TypeOK
  <2> QED BY <1>3, <2>1, <2>2, <2>3 DEF IInv, TypeOK
<1>7. Announcements'
  BY <1>3, <1>5 DEF IInv, Announcements
<1>8. ToldOnce'
  <2>1. \A i \in DOMAIN loops' : TellsAll(loops'[i])
    BY <1>3 DEF IInv, ToldOnce, TellsAll
  <2> QED BY <2>1, <1>4 DEF ToldOnce, TellsAll
<1>9. KnowEachOther'
  BY <1>4 DEF IInv, KnowEachOther
<1> QED BY <1>6, <1>7, <1>8, <1>9 DEF IInv

(* The inmost loop: it tells all, and its fields have their types. *)
LEMMA InmostLoop ==
  ASSUME IInv, loops # <<>>
  PROVE  Last(loops) \in LoopType /\ TellsAll(Last(loops)) /\ Len(loops) \in DOMAIN loops
         /\ Last(loops) = loops[Len(loops)]
<1>1. loops \in Seq(LoopType)
  BY DEF IInv, TypeOK
<1>2. Len(loops) \in DOMAIN loops /\ Last(loops) = loops[Len(loops)] /\ Last(loops) \in LoopType
  BY <1>1, LastOfStack
<1>3. TellsAll(loops[Len(loops)])
  BY <1>2 DEF IInv, ToldOnce, TellsAll
<1> QED BY <1>2, <1>3

(* The entry that is told is taken from the entries to come. *)
LEMMA HandlePreserves ==
  ASSUME IInv, NEW k \in Classes, Handle(k)
  PROVE  IInv'
<1> DEFINE loop == Last(loops)
           rec  == dynamic_ohdl_cast(mComponents[loop.go][k])
           x    == [loop EXCEPT !.todo = @ \ {k}, !.rec = rec, !.called = @ \cup {k}]
<1>1. loops # <<>> /\ k \in loop.todo /\ Wants(k, loop) /\ Continue(x)
      /\ UNCHANGED <<rtti, callbacks, mComponents, mGameObj, told, overlapped>>
  BY DEF Handle, InLoop
<1>2. loop \in LoopType /\ TellsAll(loop)
  BY <1>1, InmostLoop
<1>3. rec \in Components \cup {Nobody}
  BY <1>2 DEF IInv, TypeOK, dynamic_ohdl_cast, LoopType
<1> HIDE DEF loop, rec
<1>4. x \in LoopType
  BY <1>2, <1>3 DEF LoopType
<1>5. /\ x.go = loop.go /\ x.msg = loop.msg /\ x.sender = loop.sender /\ x.add = loop.add
      /\ x.disturbed = loop.disturbed /\ x.todo = loop.todo \ {k} /\ x.called = loop.called \cup {k}
  BY <1>2 DEF LoopType
<1> HIDE DEF x
<1>6. TellsAll(x)
  BY <1>1, <1>2, <1>5 DEF TellsAll, Wants
<1> QED BY <1>1, <1>4, <1>5, <1>6, ContinuePreserves DEF loop

(* The entry that is passed over has no callback, or is the sender's. *)
LEMMA SkipPreserves ==
  ASSUME IInv, NEW k \in Classes, Skip(k)
  PROVE  IInv'
<1> DEFINE loop == Last(loops)
           x    == [loop EXCEPT !.todo = @ \ {k}]
<1>1. loops # <<>> /\ k \in loop.todo /\ ~Wants(k, loop) /\ Continue(x)
      /\ UNCHANGED <<rtti, callbacks, mComponents, mGameObj, told, overlapped>>
  BY DEF Skip, InLoop
<1>2. loop \in LoopType /\ TellsAll(loop)
  BY <1>1, InmostLoop
<1> HIDE DEF loop
<1>4. x \in LoopType
  BY <1>2 DEF LoopType
<1>5. /\ x.go = loop.go /\ x.msg = loop.msg /\ x.sender = loop.sender /\ x.add = loop.add
      /\ x.disturbed = loop.disturbed /\ x.todo = loop.todo \ {k} /\ x.called = loop.called
  BY <1>2 DEF LoopType
<1> HIDE DEF x
<1>6. TellsAll(x)
  BY <1>1, <1>2, <1>5 DEF TellsAll, Wants
<1> QED BY <1>1, <1>4, <1>5, <1>6, ContinuePreserves DEF loop

(* A callback that returns leaves its loop where it was. *)
LEMMA CallbackReturnsPreserves ==
  ASSUME IInv, CallbackReturns
  PROVE  IInv'
<1> DEFINE loop == Last(loops)
           x    == [loop EXCEPT !.rec = Nobody]
<1>1. loops # <<>> /\ Continue(x)
      /\ UNCHANGED <<rtti, callbacks, mComponents, mGameObj, told, overlapped>>
  BY DEF CallbackReturns
<1>2. loop \in LoopType /\ TellsAll(loop)
  BY <1>1, InmostLoop
<1> HIDE DEF loop
<1>3. x \in LoopType
  BY <1>2 DEF LoopType
<1>4. /\ x.go = loop.go /\ x.msg = loop.msg /\ x.sender = loop.sender /\ x.add = loop.add
      /\ x.disturbed = loop.disturbed /\ x.todo = loop.todo /\ x.called = loop.called
  BY <1>2 DEF LoopType
<1> HIDE DEF x
<1>5. TellsAll(x)
  BY <1>2, <1>4 DEF TellsAll
<1> QED BY <1>1, <1>3, <1>4, <1>5, ContinuePreserves DEF loop

(* When inner loops have gone, the outer ones are what they were. *)
LEMMA CutPreserves ==
  ASSUME IInv, NEW n \in 0..Len(loops), loops' = SubSeq(loops, 1, n),
         UNCHANGED <<rtti, callbacks, mComponents, mGameObj, told, overlapped>>
  PROVE  IInv'
<1>1. loops \in Seq(LoopType) /\ Len(loops) \in Nat /\ DOMAIN loops = 1..Len(loops)
  BY LenProperties DEF IInv, TypeOK
<1>2. /\ loops' \in Seq(LoopType) /\ Len(loops') = n /\ DOMAIN loops' = 1..n
      /\ \A i \in 1..n : i \in DOMAIN loops /\ loops'[i] = loops[i]
  BY <1>1, CutStack
<1>3. \A h : Held(h)' = Held(h)
  BY DEF Held
<1>4. TypeOK'
  <2>1. Len(loops') <= MaxDepth
    BY <1>1, <1>2, MessagesAssumption DEF IInv, TypeOK
  <2>2. \A i \in DOMAIN loops' : i < Len(loops') => loops'[i].rec # Nobody
    BY <1>1, <1>2 DEF IInv, TypeOK
  <2>3. \A i \in DOMAIN loops' : loops'[i].add # Nobody => mGameObj[loops'[i].add] # Nobody
    BY <1>2, SMTT(30) DEF IInv, TypeOK
  <2> QED BY <1>2, <2>1, <2>2, <2>3 DEF IInv, TypeOK
<1>5. Announcements'
  BY <1>2, SMTT(30) DEF IInv, Announcements
<1>6. ToldOnce'
  BY <1>2, <1>3 DEF IInv, ToldOnce
<1>7. KnowEachOther'
  BY <1>3 DEF IInv, KnowEachOther
<1> QED BY <1>4, <1>5, <1>6, <1>7 DEF IInv

(* A loop of sendMessage ends. *)
LEMMA EndSendPreserves ==
  ASSUME IInv, EndSend
  PROVE  IInv'
<1>1. loops \in Seq(LoopType) /\ loops # <<>> /\ loops' = Front(loops)
      /\ UNCHANGED <<rtti, callbacks, mComponents, mGameObj, told, overlapped>>
  BY DEF IInv, TypeOK, EndSend, InLoop
<1>2. PICK n \in 0..Len(loops) : n = Len(loops) - 1
  BY <1>1, OneLess
<1>3. loops' = SubSeq(loops, 1, n)
  BY <1>1, <1>2 DEF Front
<1> QED BY <1>1, <1>3, CutPreserves

(* The exception of a callback leaves loops. *)
LEMMA CallbackThrowsPreserves ==
  ASSUME IInv, NEW k \in 1..MaxDepth, CallbackThrows(k)
  PROVE  IInv'
<1>1. loops \in Seq(LoopType) /\ k \in DOMAIN loops /\ loops' = SubSeq(loops, 1, k - 1)
      /\ UNCHANGED <<rtti, callbacks, mComponents, mGameObj, told, overlapped>>
  BY DEF IInv, TypeOK, CallbackThrows
<1>2. PICK n \in 0..Len(loops) : n = k - 1
  <2>1. PICK m \in Nat : m = Len(loops) /\ k \in 1..m
    BY <1>1, LenProperties
  <2>2. k - 1 \in 0..m
    BY <2>1
  <2> QED BY <2>1, <2>2
<1> QED BY <1>1, <1>2, CutPreserves

(* The component is inserted: who was there before has been told, and the    *)
(* outer loops over the same game object are disturbed if its class is new.  *)
LEMMA InsertPreserves ==
  ASSUME IInv, EndAdd, NEW n, NEW loop, NEW g, NEW c, NEW k,
         n = Len(loops), loop = Last(loops), g = loop.go, c = loop.add, k = ClassOf[c]
  PROVE  IInv'
<1> DEFINE outer == Front(loops)
           Over  == {i \in DOMAIN outer : /\ outer[i].go = Last(loops).go
                                          /\ ClassOf[Last(loops).add] \notin Held(Last(loops).go)}
           Entries == Held(Last(loops).go) \cup {ClassOf[Last(loops).add]}
<1>1. /\ loops \in Seq(LoopType) /\ loops # <<>> /\ loop.todo = {} /\ c # Nobody
      /\ mComponents' = [mComponents EXCEPT ![g][k] = c]
      /\ told' = [told EXCEPT ![g] = IF g \in overlapped THEN {}
                       ELSE {p \in @ : k \notin {p[1], p[2]}} \cup (loop.called \X {k})]
      /\ UNCHANGED <<rtti, callbacks, mGameObj, overlapped>>
  BY DEF IInv, TypeOK, EndAdd, InLoop, Key
<1>2. PICK todo \in [Over -> SUBSET Entries] :
        loops' = [i \in DOMAIN outer |-> IF i \in Over THEN Disturb(outer[i], todo[i])
                                                       ELSE outer[i]]
  BY DEF EndAdd, Key
<1>3. /\ n \in Nat \ {0} /\ DOMAIN loops = 1..n /\ loop = loops[n] /\ loop \in LoopType
      /\ outer \in Seq(LoopType) /\ DOMAIN outer = 1..(n - 1)
      /\ \A i \in 1..(n - 1) : outer[i] = loops[i]
  BY <1>1, LastOfStack, FrontOfStack
<1>4. TellsAll(loop)
  BY <1>1, InmostLoop
<1> HIDE DEF outer
<1>5. /\ Over = {i \in 1..(n - 1) : loops[i].go = g /\ k \notin Held(g)}
      /\ Entries = Held(g) \cup {k}
  BY <1>3
<1> HIDE DEF Over, Entries
<1>6. g \in GameObjects /\ c \in Components /\ k \in Classes /\ loop.called \in SUBSET Classes
  BY <1>1, <1>3, MessagesAssumption DEF LoopType
<1>7. \A i \in 1..(n - 1) : loops[i] \in LoopType
  BY <1>3
<1>8. ASSUME NEW i \in 1..(n - 1)
      PROVE  /\ loops'[i] \in LoopType
             /\ loops'[i].go = loops[i].go /\ loops'[i].add = loops[i].add
             /\ loops'[i].rec = loops[i].rec /\ loops'[i].msg = loops[i].msg
             /\ loops'[i].sender = loops[i].sender
             /\ \/ loops'[i] = loops[i] /\ (loops[i].go = g => k \in Held(g))
                \/ loops'[i].disturbed /\ loops[i].go = g
  <2>1. CASE i \in Over
    <3>1. loops'[i] = [loops[i] EXCEPT !.todo = todo[i] \ {ClassOf[loops[i].rec]},
                                       !.disturbed = TRUE]
      <4>1. i \in DOMAIN outer /\ loops'[i] = Disturb(outer[i], todo[i])
        BY <1>2, <1>3, <2>1
      <4>2. outer[i] = loops[i]
        BY <1>3
      <4> QED BY <4>1, <4>2 DEF Disturb
    <3>2. todo[i] \in SUBSET Classes /\ loops[i].go = g
      <4>1. loops[i].go = g /\ Entries \subseteq Classes
        BY <1>5, <1>6, <2>1 DEF Held
      <4>2. todo[i] \in SUBSET Entries
        BY <1>2, <2>1
      <4> QED BY <4>1, <4>2
    <3> QED BY <1>7, <3>1, <3>2, ZenonT(60) DEF LoopType
  <2>2. CASE i \notin Over
    <3>1. loops'[i] = loops[i] /\ (loops[i].go = g => k \in Held(g))
      BY <1>2, <1>3, <1>5, <2>2
    <3> QED BY <1>7, <3>1
  <2> QED BY <2>1, <2>2
<1>9. DOMAIN loops' = 1..(n - 1) /\ loops' \in Seq(LoopType) /\ Len(loops') = n - 1
  <2>1. n - 1 \in Nat /\ DOMAIN loops' = 1..(n - 1)
    BY <1>2, <1>3
  <2>2. loops' = [i \in 1..(n - 1) |-> loops'[i]]
    BY <1>2, <1>3
  <2>3. loops' \in [1..(n - 1) -> LoopType]
    BY <2>2, <1>8
  <2>4. loops' \in Seq(LoopType)
    BY <2>1, <2>3, SeqDef
  <2> QED BY <2>1, <2>4
<1>10. /\ Held(g)' = Held(g) \cup {k} /\ \A h \in GameObjects \ {g} : Held(h)' = Held(h)
      /\ mComponents' \in [GameObjects -> [Classes -> Components \cup {Nobody}]]
      /\ mComponents'[g][k] = c
      /\ \A h \in GameObjects, j \in Classes : h # g \/ j # k =>
           mComponents'[h][j] = mComponents[h][j]
  BY <1>1, <1>6 DEF IInv, TypeOK, Held
<1>11. mGameObj[c] # Nobody
  BY <1>1, <1>3, SMTT(30) DEF IInv, TypeOK
<1>12. TypeOK'
  <2>1. Len(loops') <= MaxDepth
    BY <1>3, <1>9, MessagesAssumption DEF IInv, TypeOK
  <2>2. \A i \in DOMAIN loops' : i < Len(loops') => loops'[i].rec # Nobody
    <3>1. \A i \in DOMAIN loops : i < Len(loops) => loops[i].rec # Nobody
      BY DEF IInv, TypeOK
    <3>2. \A i \in 1..(n - 1) : i \in DOMAIN loops /\ i < Len(loops)
      BY <1>3
    <3> QED BY <1>8, <1>9, <3>1, <3>2
  <2>3. \A i \in DOMAIN loops' : loops'[i].add # Nobody => mGameObj[loops'[i].add] # Nobody
    <3>1. \A i \in 1..(n - 1) : i \in DOMAIN loops
      BY <1>3
    <3>2. \A i \in DOMAIN loops : loops[i].add # Nobody => mGameObj[loops[i].add] # Nobody
      BY DEF IInv, TypeOK
    <3> QED BY <1>8, <1>9, <3>1, <3>2
  <2>4. \A h \in GameObjects, j \in Classes : mComponents'[h][j] # Nobody =>
          ClassOf[mComponents'[h][j]] = j /\ mGameObj[mComponents'[h][j]] # Nobody
    BY <1>10, <1>11, SMTT(30) DEF IInv, TypeOK
  <2>5. told' \in [GameObjects -> SUBSET (Classes \X Classes)]
    BY <1>1, <1>6 DEF IInv, TypeOK
  <2>6. /\ DOMAIN rtti' \subseteq Classes /\ \A j \in DOMAIN rtti' : rtti'[j] = BaseOf[j]
        /\ callbacks' \subseteq CallbackKeys
        /\ mGameObj' \in [Components -> GameObjects \cup {Nobody}]
        /\ overlapped' \subseteq GameObjects
    BY <1>1 DEF IInv, TypeOK
  <2>7. /\ \A h \in GameObjects, j \in Classes : LET d == mComponents'[h][j] IN
             d # Nobody => ClassOf[d] = j /\ mGameObj'[d] # Nobody
        /\ \A i \in DOMAIN loops' : LET d == loops'[i].add IN d # Nobody => mGameObj'[d] # Nobody
    BY <1>1, <2>3, <2>4
  <2> QED BY <1>9, <1>10, <2>1, <2>2, <2>5, <2>6, <2>7 DEF TypeOK
<1>13. Announcements'
  <2>1. \A i \in 1..(n - 1) : i \in DOMAIN loops /\ i # n /\ n \in DOMAIN loops
    BY <1>3
  <2>2. /\ \A i \in DOMAIN loops : loops[i].add # Nobody =>
             loops[i].msg = mDidAddComponent /\ loops[i].sender = ClassOf[loops[i].add]
        /\ \A i, j \in DOMAIN loops :
             loops[i].add # Nobody /\ loops[j].add # Nobody /\ loops[i].go = loops[j].go /\ i # j =>
               loops[i].go \in overlapped
        /\ \A i \in DOMAIN loops :
             loops[i].add # Nobody /\ loops[i].disturbed => loops[i].go \in overlapped
    BY DEF IInv, Announcements
  <2>3. \A i \in 1..(n - 1) : loops[i].add # Nobody /\ loops[i].go = g => g \in overlapped
    BY <1>1, <1>3, <2>1, <2>2
  <2>4. overlapped' = overlapped
    BY <1>1
  <2>5. \A i \in 1..(n - 1) :
          /\ loops'[i].go = loops[i].go /\ loops'[i].add = loops[i].add
          /\ loops'[i].msg = loops[i].msg /\ loops'[i].sender = loops[i].sender
          /\ loops'[i] = loops[i] \/ loops[i].go = g
    BY <1>8
  <2>6. ASSUME NEW i \in 1..(n - 1), loops'[i].add # Nobody
        PROVE  loops'[i].msg = mDidAddComponent /\ loops'[i].sender = ClassOf[loops'[i].add]
    <3>1. i \in DOMAIN loops /\ loops[i].add # Nobody
      BY <2>1, <2>5, <2>6
    <3>2. loops[i].msg = mDidAddComponent /\ loops[i].sender = ClassOf[loops[i].add]
      BY <2>2, <3>1
    <3> QED BY <2>5, <3>2
  <2>7. ASSUME NEW i \in 1..(n - 1), NEW j \in 1..(n - 1), i # j,
               loops'[i].add # Nobody, loops'[j].add # Nobody, loops'[i].go = loops'[j].go
        PROVE  loops'[i].go \in overlapped
    <3>1. /\ i \in DOMAIN loops /\ loops[i].add # Nobody /\ loops[i].go = loops'[i].go
          /\ j \in DOMAIN loops /\ loops[j].add # Nobody /\ loops[j].go = loops'[j].go
      BY <2>1, <2>5, <2>7
    <3> QED BY <2>2, <2>7, <3>1
  <2>8. ASSUME NEW i \in 1..(n - 1), loops'[i].add # Nobody, loops'[i].disturbed
        PROVE  loops'[i].go \in overlapped
    <3>1. i \in DOMAIN loops /\ loops[i].add # Nobody /\ loops[i].go = loops'[i].go
      BY <2>1, <2>5, <2>8
    <3>2. CASE loops'[i] = loops[i]
      BY <2>2, <2>8, <3>1, <3>2
    <3>3. CASE loops[i].go = g
      BY <2>3, <3>1, <3>3
    <3> QED BY <2>5, <3>2, <3>3
  <2> QED BY <1>9, <2>4, <2>6, <2>7, <2>8 DEF Announcements
<1>14. ToldOnce'
  <2>1. \A i \in 1..(n - 1) : TellsAll(loops[i]) /\ loops[i].go \in GameObjects
    <3>1. \A i \in DOMAIN loops : TellsAll(loops[i])
      BY DEF IInv, ToldOnce, TellsAll
    <3>2. \A i \in 1..(n - 1) : i \in DOMAIN loops /\ loops[i].go \in GameObjects
      BY <1>3, <1>7 DEF LoopType
    <3> QED BY <3>1, <3>2
  <2>2. \A h \in GameObjects : (h = g => k \in Held(g)) => Held(h)' = Held(h)
    <3>1. k \in Held(g) => Held(g)' = Held(g)
      BY <1>10
    <3> QED BY <1>10, <3>1
  <2>3. ASSUME NEW i \in 1..(n - 1), ~loops'[i].disturbed
        PROVE  /\ loops'[i] = loops[i] /\ loops[i].sender \notin loops[i].called
               /\ loops[i].called \cap loops[i].todo = {}
               /\ \A j \in Held(loops[i].go)' \ {loops[i].sender} :
                    <<loops[i].msg, j>> \in callbacks => j \in loops[i].called \cup loops[i].todo
    <3>1. loops'[i] = loops[i] /\ (loops[i].go = g => k \in Held(g))
      BY <1>8, <2>3
    <3>2. Held(loops[i].go)' = Held(loops[i].go)
      BY <2>1, <2>2, <3>1
    <3> QED BY <2>1, <2>3, <3>1, <3>2 DEF TellsAll
  <2> QED BY <1>1, <1>9, <2>3 DEF ToldOnce
<1>15. KnowEachOther'
  <2> SUFFICES ASSUME NEW h \in GameObjects \ overlapped, NEW i \in Held(h)', NEW j \in Held(h)',
                      i # j, <<mDidAddComponent, i>> \in callbacks,
                      <<mDidAddComponent, j>> \in callbacks
               PROVE  <<i, j>> \in told'[h] \/ <<j, i>> \in told'[h]
    BY <1>1 DEF KnowEachOther
  <2>1. CASE h # g
    BY <1>1, <1>10, <2>1 DEF IInv, TypeOK, KnowEachOther
  <2>2. CASE h = g
    <3>1. ~loop.disturbed /\ loop.msg = mDidAddComponent /\ loop.sender = k
      <4>1. loops[n].add # Nobody /\ n \in DOMAIN loops /\ loops[n].go \notin overlapped
        <5>1. loops[n] = loop /\ n \in DOMAIN loops
          BY <1>3
        <5>2. loop.add # Nobody /\ loop.go \notin overlapped
          BY <1>1, <2>2
        <5> QED BY <5>1, <5>2
      <4>2. loops[n].msg = mDidAddComponent /\ loops[n].sender = ClassOf[loops[n].add]
        BY <4>1 DEF IInv, Announcements
      <4>3. ~loops[n].disturbed
        BY <4>1, Zenon DEF IInv, Announcements
      <4> QED BY <1>3, <4>2, <4>3
    <3>2. \A l \in Held(g) \ {k} : <<mDidAddComponent, l>> \in callbacks => l \in loop.called
      BY <1>1, <1>4, <3>1 DEF TellsAll
    <3>3. told'[g] = {p \in told[g] : k \notin {p[1], p[2]}} \cup (loop.called \X {k})
      BY <1>1, <1>6, <2>2 DEF IInv, TypeOK
    <3>4. i \in Held(g) \cup {k} /\ j \in Held(g) \cup {k}
      BY <1>10, <2>2
    <3>5. CASE i = k \/ j = k
      BY <2>2, <3>2, <3>3, <3>4, <3>5
    <3>6. CASE i # k /\ j # k
      <4>1. <<i, j>> \in told[g] \/ <<j, i>> \in told[g]
        BY <2>2, <3>4, <3>6 DEF IInv, KnowEachOther
      <4> QED BY <2>2, <3>3, <3>6, <4>1
    <3> QED BY <3>5, <3>6
  <2> QED BY <2>1, <2>2
<1> QED BY <1>12, <1>13, <1>14, <1>15 DEF IInv

(* So the end of addComponent preserves the inductive invariant. *)
LEMMA EndAddPreserves == IInv /\ EndAdd => IInv'
  BY InsertPreserves

(* Every step of the program preserves the inductive invariant. *)
LEMMA NextPreserves == IInv /\ [Next]_vars => IInv'
<1> SUFFICES ASSUME IInv, [Next]_vars PROVE IInv'
  OBVIOUS
<1>1. CASE \E k \in Classes : RegisterClass(k)
  BY <1>1, RegisterClassPreserves
<1>2. CASE \E k \in Classes : Handle(k)
  BY <1>2, HandlePreserves
<1>3. CASE \E k \in Classes : Skip(k)
  BY <1>3, SkipPreserves
<1>4. CASE \E key \in CallbackKeys : registerMessageCallback(key)
  BY <1>4, RegisterCallbackPreserves
<1>5. CASE \E g \in GameObjects, k \in Range(ClassOf) \cup {Undefined} :
             sendMessage(g, mTransformChanged, k)
  <2>1. Range(ClassOf) \subseteq Classes /\ mTransformChanged \in Messages
    BY MessagesAssumption DEF Range, Messages
  <2> QED BY <1>5, <2>1, SendMessagePreserves
<1>6. CASE \E c \in Components : SendFrom(c, mTransformChanged)
  <2>1. PICK c \in Components : mGameObj[c] # Nobody
                                /\ sendMessage(mGameObj[c], mTransformChanged, ClassOf[c])
    BY <1>6 DEF SendFrom
  <2>2. mGameObj[c] \in GameObjects /\ ClassOf[c] \in Classes /\ mTransformChanged \in Messages
    BY <2>1, MessagesAssumption DEF IInv, TypeOK, Messages
  <2> QED BY <2>1, <2>2, SendMessagePreserves
<1>7. CASE \E g \in GameObjects, c \in Components : addComponent(g, c)
  BY <1>7, AddComponentPreserves
<1>8. CASE CallbackReturns
  BY <1>8, CallbackReturnsPreserves
<1>9. CASE EndSend
  BY <1>9, EndSendPreserves
<1>10. CASE EndAdd
  BY <1>10, EndAddPreserves
<1>11. CASE UNCHANGED vars
  BY <1>11 DEF vars, IInv, TypeOK, Announcements, ToldOnce, KnowEachOther, Held
<1>12. CASE \E n \in 1..MaxDepth : CallbackThrows(n)
  BY <1>12, CallbackThrowsPreserves
<1> QED BY <1>1, <1>2, <1>3, <1>4, <1>5, <1>6, <1>7, <1>8, <1>9, <1>10, <1>11, <1>12 DEF Next

-----------------------------------------------------------------------------
(* The search through the base classes.                                      *)

(* A set of classes that the search, once in it, does not leave. *)
Closed(S) == \A i \in S : GetSuperClassID(i) # Undefined => GetSuperClassID(i) \in S

(* The search from class j comes to from: no set closed under it avoids from. *)
Reaches(j, from) == \A S \in SUBSET Classes : j \in S /\ Closed(S) => from \in S

(* What IsDerivedFromClassID chooses by. *)
Solves(found, from) ==
  /\ found \in [Classes \cup {Undefined} -> BOOLEAN]
  /\ ~found[Undefined]
  /\ \A j \in Classes : found[j] <=> (j = from \/ found[GetSuperClassID(j)])

(* The search goes from a class to its base class, when that is registered. *)
LEMMA SuperClass ==
  ASSUME TypeOK, NEW k \in Classes
  PROVE  /\ GetSuperClassID(k) \in {BaseOf[k], Undefined}
         /\ GetSuperClassID(k) \in Classes \cup {Undefined}
         /\ InMain => GetSuperClassID(k) = BaseOf[k]
  BY MessagesAssumption DEF TypeOK, GetSuperClassID, InMain

(* The search comes to a class if it is there, or comes there from the next. *)
LEMMA ReachesInSteps ==
  ASSUME TypeOK, NEW j \in Classes, NEW from \in Classes
  PROVE  Reaches(j, from) <=>
           j = from \/ (GetSuperClassID(j) \in Classes /\ Reaches(GetSuperClassID(j), from))
<1> DEFINE next == GetSuperClassID(j)
<1>1. next \in Classes \cup {Undefined} /\ Undefined \notin Classes
  BY SuperClass, MessagesAssumption
<1>2. j = from => Reaches(j, from)
  BY DEF Reaches
<1>3. next \in Classes /\ Reaches(next, from) => Reaches(j, from)
  <2> SUFFICES ASSUME next \in Classes, Reaches(next, from),
                      NEW S \in SUBSET Classes, j \in S, Closed(S)
               PROVE  from \in S
    BY DEF Reaches
  <2>1. next \in S
    BY <1>1 DEF Closed
  <2> QED BY <2>1 DEF Reaches
<1>4. ASSUME Reaches(j, from), j # from
      PROVE  next \in Classes /\ Reaches(next, from)
  <2>1. ASSUME NEW T \in SUBSET Classes, Closed(T), next \in T \cup {Undefined}
        PROVE  from \in T
    <3>1. Closed(T \cup {j})
      BY <2>1 DEF Closed
    <3>2. from \in T \cup {j}
      BY <3>1, <1>4 DEF Reaches
    <3> QED BY <3>2, <1>4
  <2>2. next \in Classes
    <3>1. Closed({})
      BY DEF Closed
    <3>2. from \notin {} /\ {} \in SUBSET Classes
      OBVIOUS
    <3>3. next # Undefined
      BY <2>1, <3>1, <3>2
    <3> QED BY <1>1, <3>3
  <2> QED BY <2>1, <2>2 DEF Reaches
<1> QED BY <1>2, <1>3, <1>4

(* So the equation of the search has a solution. *)
LEMMA SearchExists ==
  ASSUME TypeOK, NEW from \in Classes
  PROVE  \E found : Solves(found, from)
<1> DEFINE found == [j \in Classes \cup {Undefined} |-> j \in Classes /\ Reaches(j, from)]
<1>1. Undefined \notin Classes
  BY MessagesAssumption
<1>2. found \in [Classes \cup {Undefined} -> BOOLEAN] /\ ~found[Undefined]
  BY <1>1
<1>3. ASSUME NEW j \in Classes
      PROVE  found[j] <=> (j = from \/ found[GetSuperClassID(j)])
  <2>1. GetSuperClassID(j) \in Classes \cup {Undefined}
    BY SuperClass
  <2>2. found[j] <=> Reaches(j, from)
    OBVIOUS
  <2>3. found[GetSuperClassID(j)] <=>
          (GetSuperClassID(j) \in Classes /\ Reaches(GetSuperClassID(j), from))
    BY <2>1
  <2> HIDE DEF found
  <2> QED BY <2>2, <2>3, ReachesInSteps
<1>4. Solves(found, from)
  BY <1>2, <1>3 DEF Solves
<1> QED BY <1>4

(* What solves it is what IsDerivedFromClassID looks up. *)
LEMMA SearchSolves ==
  ASSUME TypeOK, NEW from \in Classes
  PROVE  \E found : Solves(found, from) /\ \A k : IsDerivedFromClassID(k, from) = found[k]
<1> DEFINE body(f) == [j \in Classes \cup {Undefined} |->
                         j # Undefined /\ (j = from \/ f[GetSuperClassID(j)])]
           found == CHOOSE f : f = body(f)
<1>1. Undefined \notin Classes
  BY MessagesAssumption
<1>2. PICK f : Solves(f, from)
  BY SearchExists
<1>3. f = body(f)
  <2>1. f = [j \in Classes \cup {Undefined} |-> f[j]]
    BY <1>2 DEF Solves
  <2>2. ASSUME NEW j \in Classes \cup {Undefined}
        PROVE  f[j] = (j # Undefined /\ (j = from \/ f[GetSuperClassID(j)]))
    <3>1. f[j] \in BOOLEAN
      BY <1>2 DEF Solves
    <3>2. CASE j = Undefined
      <4>1. ~f[j]
        BY <1>2, <3>2 DEF Solves
      <4> QED BY <3>1, <3>2, <4>1, Zenon
    <3>3. CASE j \in Classes
      <4>1. f[j] <=> (j = from \/ f[GetSuperClassID(j)])
        BY <1>2, <3>3, Zenon DEF Solves
      <4>2. j # Undefined
        BY <1>1, <3>3
      <4> QED BY <3>1, <4>1, <4>2, Zenon
    <3> QED BY <3>2, <3>3
  <2> QED BY <2>1, <2>2, Zenon
<1>4. found = body(found)
  <2> HIDE DEF body
  <2> QED BY <1>3
<1>5. Solves(found, from)
  <2>1. DOMAIN found = Classes \cup {Undefined}
    <3> HIDE DEF found
    <3> QED BY <1>4
  <2>2. ASSUME NEW j \in Classes \cup {Undefined}
        PROVE  found[j] = (j # Undefined /\ (j = from \/ found[GetSuperClassID(j)]))
    <3> HIDE DEF found
    <3> QED BY <1>4, Zenon
  <2>3. found = [j \in Classes \cup {Undefined} |-> found[j]]
    <3> HIDE DEF found
    <3> QED BY <1>4
  <2>4. \A j \in Classes \cup {Undefined} : found[j] \in BOOLEAN
    <3> HIDE DEF found, body
    <3> QED BY <2>2
  <2>5. found \in [Classes \cup {Undefined} -> BOOLEAN]
    <3> HIDE DEF found
    <3> QED BY <2>3, <2>4
  <2>6. ~found[Undefined]
    <3> HIDE DEF found, body
    <3> QED BY <2>2, Zenon
  <2>7. ASSUME NEW j \in Classes
        PROVE  found[j] <=> (j = from \/ found[GetSuperClassID(j)])
    <3>1. j # Undefined
      BY <1>1
    <3> HIDE DEF found, body
    <3> QED BY <2>2, <3>1, Zenon
  <2> HIDE DEF found
  <2> QED BY <2>5, <2>6, <2>7 DEF Solves
<1>6. \A k : IsDerivedFromClassID(k, from) = found[k]
  BY DEF IsDerivedFromClassID, SearchFrom
<1> HIDE DEF found
<1> QED BY <1>5, <1>6

(* In main the search has found every class of the hierarchy above k: the    *)
(* classes that it does not find from are closed under BaseOf.               *)
LEMMA FindsAncestors ==
  ASSUME TypeOK, InMain, NEW from \in Classes, NEW found, Solves(found, from),
         NEW k \in Classes, from \in Ancestors[k]
  PROVE  found[k]
<1> SUFFICES ASSUME ~found[k] PROVE FALSE
  OBVIOUS
<1> DEFINE S == {i \in Classes : ~found[i]}
<1>1. \A i \in S : BaseOf[i] # Undefined => BaseOf[i] \in S
  <2> SUFFICES ASSUME NEW i \in Classes, ~found[i], BaseOf[i] # Undefined
               PROVE  BaseOf[i] \in Classes /\ ~found[BaseOf[i]]
    OBVIOUS
  <2>1. BaseOf[i] \in Classes
    BY MessagesAssumption
  <2>2. GetSuperClassID(i) = BaseOf[i]
    BY SuperClass
  <2> QED BY <2>1, <2>2 DEF Solves
<1>2. from \in S
  <2>1. k \in S /\ S \in SUBSET Classes
    OBVIOUS
  <2> HIDE DEF S
  <2> QED BY <1>1, <2>1 DEF Ancestors
<1>3. found[from]
  BY DEF Solves
<1> QED BY <1>2, <1>3

(* At any time what it finds is above k: of the classes for which that would *)
(* be wrong, one would have a base class for which it is not.                *)
LEMMA FindsOnlyAncestors ==
  ASSUME TypeOK, NEW from \in Classes, NEW found, Solves(found, from),
         NEW k \in Classes, found[k]
  PROVE  from \in Ancestors[k]
<1> DEFINE Wrong == {i \in Classes : found[i] /\ from \notin Ancestors[i]}
<1> SUFFICES ASSUME k \in Wrong PROVE FALSE
  OBVIOUS
<1>1. PICK i \in Wrong : BaseOf[i] \notin Wrong
  <2>1. Wrong \in (SUBSET Classes) \ {{}}
    OBVIOUS
  <2> HIDE DEF Wrong
  <2> QED BY <2>1, MessagesAssumption
<1>2. i \in Classes /\ found[i] /\ from \notin Ancestors[i]
  BY <1>1
<1>3. i # from
  BY <1>2 DEF Ancestors
<1>4. found[GetSuperClassID(i)] /\ GetSuperClassID(i) # Undefined
  BY <1>2, <1>3 DEF Solves
<1>5. GetSuperClassID(i) = BaseOf[i] /\ BaseOf[i] \in Classes
  BY <1>2, <1>4, SuperClass
<1>6. from \in Ancestors[BaseOf[i]]
  BY <1>1, <1>4, <1>5
<1>7. from \in Ancestors[i]
  BY <1>2, <1>5, <1>6, MessagesAssumption DEF Ancestors
<1> QED BY <1>2, <1>7

(* Together: IsDerivedFromClassID follows the hierarchy.                      *)
LEMMA SearchIsRight == TypeOK => FollowsHierarchy
<1> SUFFICES ASSUME TypeOK, NEW from \in Classes, NEW k \in Classes
             PROVE  /\ InMain /\ from \in Ancestors[k] => IsDerivedFromClassID(k, from)
                    /\ IsDerivedFromClassID(k, from) => from \in Ancestors[k]
  BY DEF FollowsHierarchy
<1>1. PICK found : Solves(found, from) /\ \A i : IsDerivedFromClassID(i, from) = found[i]
  BY SearchSolves
<1>2. IsDerivedFromClassID(k, from) = found[k]
  BY <1>1
<1> QED BY <1>1, <1>2, FindsAncestors, FindsOnlyAncestors

-----------------------------------------------------------------------------
(* The theorems.                                                             *)

(* The inductive invariant holds in every reachable state. *)
THEOREM Invariance == Spec => []IInv
  BY InitIInv, NextPreserves, PTL DEF Spec

(* The variables have their types, and an entry of mComponents is under the  *)
(* class of its component, with a game object to send through.               *)
THEOREM TypeCorrect == Spec => []TypeOK
<1>1. IInv => TypeOK
  BY DEF IInv
<1> QED BY <1>1, Invariance, PTL

(* A loop of sendMessage that no addition of a new class disturbs tells each *)
(* component with a callback once, and never the sender's class.             *)
THEOREM EachIsToldOnce == Spec => []ToldOnce
<1>1. IInv => ToldOnce
  BY DEF IInv
<1> QED BY <1>1, Invariance, PTL

(* Components of one game object know of each other, unless a callback added *)
(* to it while an addition was being announced.                              *)
THEOREM ComponentsKnowEachOther == Spec => []KnowEachOther
<1>1. IInv => KnowEachOther
  BY DEF IInv
<1> QED BY <1>1, Invariance, PTL

(* IsDerivedFromClassID finds the classes of the declared hierarchy, in main *)
(* all of them and before that never a wrong one, for any classes of which   *)
(* none is, directly or indirectly, its own base.                            *)
THEOREM HierarchyCorrect == Spec => []FollowsHierarchy
  BY SearchIsRight, TypeCorrect, PTL

=============================================================================
