-------------------------- MODULE ThreadPoolProofs --------------------------
(***************************************************************************)
(* Theorems of ThreadPool.tla, for every set of clients, workers and tasks.*)
(* The safety invariants all follow from one inductive invariant, IInv:    *)
(* the invariants themselves, strengthened by Control, which ties a        *)
(* worker's place in io_service::run() to the task it holds and the        *)
(* io_service's stop to the destructor.                                    *)
(***************************************************************************)
EXTENDS ThreadPool, FiniteSetTheorems, TLAPS

QueueOf(s, t) == \E i \in 1..Len(s) : s[i] = t

NoRepeat(s) == \A i, j \in 1..Len(s) : i # j => s[i] # s[j]

(* Posting a handler adds it to the queue, and adds nothing else. *)
LEMMA AppendQueue ==
  ASSUME NEW S, NEW s \in Seq(S), NEW t \in S
  PROVE  /\ Append(s, t) \in Seq(S)
         /\ \A u : QueueOf(Append(s, t), u) <=> QueueOf(s, u) \/ u = t
         /\ NoRepeat(s) /\ ~QueueOf(s, t) => NoRepeat(Append(s, t))
<1>1. /\ Append(s, t) \in Seq(S)
      /\ Len(Append(s, t)) = Len(s) + 1
      /\ Len(s) \in Nat
      /\ \A i \in 1..Len(s) : Append(s, t)[i] = s[i]
      /\ Append(s, t)[Len(s) + 1] = t
  OBVIOUS
<1>2. \A u : QueueOf(Append(s, t), u) <=> QueueOf(s, u) \/ u = t
  BY <1>1 DEF QueueOf
<1>3. ASSUME NoRepeat(s), ~QueueOf(s, t)
      PROVE  NoRepeat(Append(s, t))
  BY <1>1, <1>3 DEF NoRepeat, QueueOf
<1> QED BY <1>1, <1>2, <1>3

(* Dequeuing the head of a queue without repetitions removes it, and removes *)
(* nothing else.                                                             *)
LEMMA TailQueue ==
  ASSUME NEW S, NEW s \in Seq(S), s # <<>>
  PROVE  /\ Tail(s) \in Seq(S)
         /\ Head(s) \in S
         /\ QueueOf(s, Head(s))
         /\ \A u : u # Head(s) => (QueueOf(Tail(s), u) <=> QueueOf(s, u))
         /\ NoRepeat(s) => NoRepeat(Tail(s)) /\ ~QueueOf(Tail(s), Head(s))
<1>1. /\ Tail(s) \in Seq(S)
      /\ Head(s) \in S
      /\ Len(s) \in Nat \ {0}
      /\ Len(Tail(s)) = Len(s) - 1
      /\ Head(s) = s[1]
      /\ \A i \in 1..(Len(s) - 1) : Tail(s)[i] = s[i + 1]
  OBVIOUS
<1>2. QueueOf(s, Head(s))
  BY <1>1 DEF QueueOf
<1>3. \A u : QueueOf(Tail(s), u) => QueueOf(s, u)
  BY <1>1 DEF QueueOf
<1>4. ASSUME NEW u, u # Head(s), QueueOf(s, u)
      PROVE  QueueOf(Tail(s), u)
  <2>1. PICK i \in 1..Len(s) : s[i] = u
    BY <1>4 DEF QueueOf
  <2>2. i - 1 \in 1..(Len(s) - 1) /\ Tail(s)[i - 1] = u
    BY <2>1, <1>1, <1>4
  <2> QED BY <2>2, <1>1 DEF QueueOf
<1>5. ASSUME NoRepeat(s)
      PROVE  NoRepeat(Tail(s)) /\ ~QueueOf(Tail(s), Head(s))
  BY <1>1, <1>5 DEF NoRepeat, QueueOf
<1> QED BY <1>1, <1>2, <1>3, <1>4, <1>5

-----------------------------------------------------------------------------
(* The types, without the claim that m_num_tasks never wraps: that one is a  *)
(* consequence of CountIsExact, since a cardinality is a natural number.     *)
Types ==
  /\ handlers \in Seq(Tasks)
  /\ stopped \in BOOLEAN
  /\ submitting \in [Threads -> Tasks \cup {NoTask}]
  /\ running \in [Workers -> Tasks \cup {NoTask}]
  /\ stage \in [Workers -> Stages]
  /\ future \in [Tasks -> Shared]
  /\ phase \in Phases

(* A worker holds a task exactly while it calls it, submits only from inside *)
(* a call, leaves run() only when the service is stopped, and the service is *)
(* stopped exactly from the beginning of ~ThreadPool on.                     *)
Control ==
  /\ \A w \in Workers : running[w] = NoTask <=> stage[w] \in {"idle", "exited"}
  /\ \A w \in Workers : submitting[w] # NoTask => stage[w] = "calling"
  /\ \A w \in Workers : stage[w] = "exited" => stopped
  /\ stopped <=> phase # "alive"
  /\ phase # "alive" => \A c \in Clients : submitting[c] = NoTask
  /\ phase = "destroyed" => handlers = <<>> /\ \A w \in Workers : stage[w] = "exited"

(* The inductive invariant. *)
IInv == Types /\ Control /\ TaskOwnership /\ CountIsExact

LEMMA InQueueIsQueueOf ==
  /\ \A t : InQueue(t) <=> QueueOf(handlers, t)
  /\ (\A i, j \in 1..Len(handlers) : i # j => handlers[i] # handlers[j]) <=> NoRepeat(handlers)
BY DEF InQueue, QueueOf, NoRepeat

LEMMA CountedIsFinite == IsFiniteSet(Counted) /\ Cardinality(Counted) \in Nat
<1>1. Counted \subseteq Tasks /\ IsFiniteSet(Tasks)
  BY ThreadPoolAssumption DEF Counted
<1> QED BY <1>1, FS_Subset, FS_CardinalityType

-----------------------------------------------------------------------------
(* Each step preserves the inductive invariant.                              *)

LEMMA InitIInv == Init => IInv
<1> SUFFICES ASSUME Init PROVE IInv
  OBVIOUS
<1>1. Types
  <2>1. handlers \in Seq(Tasks)
    BY DEF Init
  <2> QED BY <2>1 DEF Init, Types, Stages, Shared, Phases
<1>2. Control
  BY ThreadPoolAssumption DEF Init, Control, Threads
<1>3. TaskOwnership
  BY ThreadPoolAssumption DEF Init, TaskOwnership, IsSubmitted, IsRunning, InQueue
<1>4. Counted = {}
  BY DEF Init, Counted
<1>5. CountIsExact
  BY <1>4, FS_EmptySet DEF Init, CountIsExact
<1> QED BY <1>1, <1>2, <1>3, <1>5 DEF IInv

(* A pool that is gone and has never had a task. *)
UnusedAndGone ==
  /\ numTasks = 0
  /\ handlers = <<>>
  /\ stopped = TRUE
  /\ submitting = [th \in Threads |-> NoTask]
  /\ running = [w \in Workers |-> NoTask]
  /\ stage = [w \in Workers |-> "exited"]
  /\ future = [t \in Tasks |-> "none"]
  /\ phase = "destroyed"

LEMMA GoneIInv == UnusedAndGone => IInv
<1> SUFFICES ASSUME UnusedAndGone PROVE IInv
  OBVIOUS
<1>1. Types
  <2>1. handlers \in Seq(Tasks)
    BY DEF UnusedAndGone
  <2> QED BY <2>1 DEF UnusedAndGone, Types, Stages, Shared, Phases
<1>2. Control
  BY ThreadPoolAssumption DEF UnusedAndGone, Control, Threads
<1>3. TaskOwnership
  BY ThreadPoolAssumption DEF UnusedAndGone, TaskOwnership, IsSubmitted, IsRunning, InQueue
<1>4. Counted = {}
  BY DEF UnusedAndGone, Counted
<1>5. CountIsExact
  BY <1>4, FS_EmptySet DEF UnusedAndGone, CountIsExact
<1> QED BY <1>1, <1>2, <1>3, <1>5 DEF IInv

LEMMA SubmitCountIInv ==
  ASSUME IInv, NEW th \in Threads, NEW t \in Tasks, SubmitCount(th, t)
  PROVE  IInv'
<1> USE DEF IInv
<1>1. Types'
  BY DEF Types, SubmitCount, Shared
<1>2. Control'
  BY ThreadPoolAssumption DEF Types, Control, SubmitCount, MaySubmit, Threads
<1>3. ~IsSubmitted(t) /\ ~InQueue(t) /\ ~IsRunning(t)
  BY DEF SubmitCount, TaskOwnership
<1>4. TaskOwnership'
  <2>1. \A u \in Tasks : /\ InQueue(u)' <=> InQueue(u)
                         /\ IsRunning(u)' <=> IsRunning(u)
    BY DEF SubmitCount, InQueue, IsRunning
  <2>2. \A u \in Tasks : IsSubmitted(u)' <=> IsSubmitted(u) \/ u = t
    BY ThreadPoolAssumption DEF Types, SubmitCount, MaySubmit, IsSubmitted
  <2>3. \A a, b \in Threads :
          a # b /\ submitting'[a] # NoTask => submitting'[a] # submitting'[b]
    BY <1>3, ThreadPoolAssumption DEF Types, TaskOwnership, SubmitCount, IsSubmitted
  <2> QED BY <1>3, <2>1, <2>2, <2>3 DEF Types, TaskOwnership, SubmitCount
<1>5. CountIsExact'
  <2>1. \A u \in Tasks : PastDecrement(u)' <=> PastDecrement(u)
    BY DEF SubmitCount, PastDecrement
  <2>2. ~PastDecrement(t)
    BY <1>3 DEF PastDecrement, IsRunning
  <2>3. t \notin Counted /\ Counted' = Counted \cup {t}
    BY <2>1, <2>2 DEF Types, SubmitCount, Counted
  <2> QED BY <2>3, CountedIsFinite, FS_AddElement DEF CountIsExact, SubmitCount
<1> QED BY <1>1, <1>2, <1>4, <1>5

LEMMA SubmitPostIInv ==
  ASSUME IInv, NEW th \in Threads, SubmitPost(th)
  PROVE  IInv'
<1> USE DEF IInv
<1> DEFINE t == submitting[th]
<1>1. t \in Tasks /\ ~InQueue(t) /\ ~IsRunning(t) /\ future[t] = "pending"
  BY DEF Types, SubmitPost, TaskOwnership, IsSubmitted
<1>2. /\ handlers' \in Seq(Tasks)
      /\ \A u \in Tasks : InQueue(u)' <=> InQueue(u) \/ u = t
      /\ NoRepeat(handlers')
  BY <1>1, AppendQueue, InQueueIsQueueOf DEF Types, SubmitPost, TaskOwnership, InQueue, QueueOf
<1>3. Types'
  BY <1>2 DEF Types, SubmitPost
<1>4. Control'
  BY DEF Types, Control, SubmitPost, Threads
<1>5. TaskOwnership'
  <2>1. \A u \in Tasks : IsRunning(u)' <=> IsRunning(u)
    BY DEF SubmitPost, IsRunning
  <2>2. \A u \in Tasks : IsSubmitted(u)' <=> IsSubmitted(u) /\ u # t
    BY <1>1, ThreadPoolAssumption DEF Types, SubmitPost, IsSubmitted, TaskOwnership
  <2>3. \A a, b \in Threads :
          a # b /\ submitting'[a] # NoTask => submitting'[a] # submitting'[b]
    BY DEF Types, TaskOwnership, SubmitPost
  <2>4. \A i, j \in 1..Len(handlers') : i # j => handlers'[i] # handlers'[j]
    BY <1>2 DEF NoRepeat
  <2> QED BY <1>1, <1>2, <2>1, <2>2, <2>3, <2>4 DEF TaskOwnership, SubmitPost
<1>6. CountIsExact'
  <2>1. Counted' = Counted
    BY DEF SubmitPost, Counted, PastDecrement
  <2> QED BY <2>1 DEF CountIsExact, SubmitPost
<1> QED BY <1>3, <1>4, <1>5, <1>6

LEMMA StartTaskIInv ==
  ASSUME IInv, NEW w \in Workers, StartTask(w)
  PROVE  IInv'
<1> USE DEF IInv
<1>0. PICK t \in Tasks : t = Head(handlers)
  BY TailQueue DEF Types, StartTask
<1>1. /\ handlers' \in Seq(Tasks)
      /\ InQueue(t) /\ ~InQueue(t)'
      /\ \A u \in Tasks : u # t => (InQueue(u)' <=> InQueue(u))
      /\ NoRepeat(handlers')
  <2>1. handlers \in Seq(Tasks) /\ handlers # <<>> /\ NoRepeat(handlers) /\ handlers' = Tail(handlers)
    BY DEF Types, StartTask, TaskOwnership, NoRepeat
  <2>2. \A u : (InQueue(u) <=> QueueOf(handlers, u)) /\ (InQueue(u)' <=> QueueOf(handlers', u))
    BY DEF InQueue, QueueOf
  <2> QED BY <1>0, <2>1, <2>2, TailQueue
<1>2. ~IsSubmitted(t) /\ ~IsRunning(t) /\ future[t] = "pending"
  BY <1>1 DEF TaskOwnership
<1>3. Types'
  BY <1>0, <1>1 DEF Types, StartTask, Stages
<1>4. Control'
  BY <1>0, ThreadPoolAssumption DEF Types, Control, StartTask, Threads
<1>5. TaskOwnership'
  <2>1. \A u \in Tasks : IsSubmitted(u)' <=> IsSubmitted(u)
    BY DEF StartTask, IsSubmitted
  <2>2. \A u \in Tasks : IsRunning(u)' <=> IsRunning(u) \/ u = t
    BY <1>0, ThreadPoolAssumption DEF Types, Control, StartTask, IsRunning
  <2>3. \A v, x \in Workers :
          v # x /\ running'[v] # NoTask => running'[v] # running'[x]
    BY <1>0, <1>2, ThreadPoolAssumption DEF Types, TaskOwnership, StartTask, IsRunning
  <2>4. \A i, j \in 1..Len(handlers') : i # j => handlers'[i] # handlers'[j]
    BY <1>1 DEF NoRepeat
  <2> QED BY <1>1, <1>2, <2>1, <2>2, <2>3, <2>4 DEF TaskOwnership, StartTask
<1>6. CountIsExact'
  <2>1. \A u \in Tasks : PastDecrement(u)' <=> PastDecrement(u)
    BY DEF Types, StartTask, PastDecrement
  <2>2. Counted' = Counted
    BY <2>1 DEF StartTask, Counted
  <2> QED BY <2>2 DEF CountIsExact, StartTask
<1> QED BY <1>3, <1>4, <1>5, <1>6

LEMMA ReturnIInv ==
  ASSUME IInv, NEW w \in Workers, Return(w)
  PROVE  IInv'
<1> USE DEF IInv
<1> DEFINE t == running[w]
<1>1. t \in Tasks /\ future[t] = "pending"
  BY DEF Types, Control, TaskOwnership, Return, InCall, IsRunning
<1>2. Types'
  BY DEF Types, Return, Stages
<1>3. Control'
  BY DEF Types, Control, Return, InCall
<1>4. TaskOwnership'
  BY DEF TaskOwnership, Return, IsSubmitted, InQueue, IsRunning
<1>5. CountIsExact'
  <2>1. \A u \in Tasks : PastDecrement(u)' <=> PastDecrement(u) \/ u = t
    BY DEF Types, Return, InCall, PastDecrement
  <2>2. ~PastDecrement(t)
    BY <1>1, ThreadPoolAssumption DEF Types, TaskOwnership, Return, InCall, PastDecrement
  <2>3. t \in Counted /\ Counted' = Counted \ {t}
    BY <1>1, <2>1, <2>2 DEF Return, Counted
  <2>4. Cardinality(Counted') = Cardinality(Counted) - 1
    BY <2>3, CountedIsFinite, FS_RemoveElement
  <2> QED BY <2>4 DEF CountIsExact, Return
<1> QED BY <1>2, <1>3, <1>4, <1>5

(* The end of a call takes its task out of the worker, and its future out of *)
(* the pending ones.                                                         *)
LEMMA SettleOwnership ==
  ASSUME IInv, NEW w \in Workers, NEW outcome \in {"value", "exception"}, Settle(w, outcome),
         NEW t \in Tasks, running[w] = t, IsRunning(t)
  PROVE  TaskOwnership'
<1> USE DEF IInv
<1>1. \A u \in Tasks : /\ IsSubmitted(u)' <=> IsSubmitted(u)
                       /\ InQueue(u)' <=> InQueue(u)
  BY DEF Settle, IsSubmitted, InQueue
<1>2. \A u \in Tasks : IsRunning(u)' <=> IsRunning(u) /\ u # t
  BY ThreadPoolAssumption DEF Types, TaskOwnership, Settle, IsRunning
<1>3. \A v, x \in Workers :
        v # x /\ running'[v] # NoTask => running'[v] # running'[x]
  BY DEF Types, TaskOwnership, Settle
<1>4. \A u \in Tasks : future'[u] = IF u = t THEN outcome ELSE future[u]
  BY DEF Types, Settle
<1> QED BY <1>1, <1>2, <1>3, <1>4 DEF TaskOwnership, Settle

LEMMA SetValueIInv ==
  ASSUME IInv, NEW w \in Workers, SetValue(w)
  PROVE  IInv'
<1> USE DEF IInv
<1>0. PICK t \in Tasks : t = running[w] /\ IsRunning(t) /\ future[t] = "pending"
  BY DEF Types, Control, TaskOwnership, SetValue, IsRunning
<1>1. Types'
  BY <1>0 DEF Types, SetValue, Settle, Stages, Shared
<1>2. Control'
  BY DEF Types, Control, SetValue, Settle
<1>3. TaskOwnership'
  BY <1>0, SettleOwnership DEF SetValue
<1>4. CountIsExact'
  <2>1. \A u \in Tasks : u # t => (PastDecrement(u)' <=> PastDecrement(u))
    BY <1>0, ThreadPoolAssumption DEF Types, SetValue, Settle, PastDecrement
  <2>2. PastDecrement(t)
    BY <1>0 DEF SetValue, PastDecrement
  <2>3. Counted' = Counted
    BY <1>0, <2>1, <2>2 DEF Types, SetValue, Settle, Counted
  <2> QED BY <2>3 DEF CountIsExact, SetValue, Settle
<1> QED BY <1>1, <1>2, <1>3, <1>4

LEMMA ThrowIInv ==
  ASSUME IInv, NEW w \in Workers, Throw(w)
  PROVE  IInv'
<1> USE DEF IInv
<1>0. PICK t \in Tasks : t = running[w] /\ IsRunning(t) /\ future[t] = "pending"
  BY DEF Types, Control, TaskOwnership, Throw, InCall, IsRunning
<1>1. Types'
  BY <1>0 DEF Types, Throw, Settle, Stages, Shared
<1>2. Control'
  BY DEF Types, Control, Throw, InCall, Settle
<1>3. TaskOwnership'
  BY <1>0, SettleOwnership DEF Throw
<1>4. CountIsExact'
  <2>1. \A u \in Tasks : u # t => (PastDecrement(u)' <=> PastDecrement(u))
    BY <1>0, ThreadPoolAssumption DEF Types, Throw, Settle, PastDecrement
  <2>2. ~PastDecrement(t)
    BY <1>0, ThreadPoolAssumption DEF Types, TaskOwnership, Throw, InCall, PastDecrement
  <2>3. Counted' = Counted
    BY <1>0, <2>1, <2>2 DEF Types, Throw, Settle, Counted
  <2> QED BY <2>3 DEF CountIsExact, Throw, Settle
<1> QED BY <1>1, <1>2, <1>3, <1>4

LEMMA LeaveRunIInv ==
  ASSUME IInv, NEW w \in Workers, LeaveRun(w)
  PROVE  IInv'
<1> USE DEF IInv
<1>1. Types'
  BY DEF Types, LeaveRun, Stages
<1>2. Control'
  BY DEF Types, Control, LeaveRun
<1>3. TaskOwnership'
  BY DEF TaskOwnership, LeaveRun, IsSubmitted, InQueue, IsRunning
<1>4. CountIsExact'
  <2>1. \A u \in Tasks : PastDecrement(u)' <=> PastDecrement(u)
    BY DEF Types, LeaveRun, PastDecrement
  <2>2. Counted' = Counted
    BY <2>1 DEF LeaveRun, Counted
  <2> QED BY <2>2 DEF CountIsExact, LeaveRun
<1> QED BY <1>1, <1>2, <1>3, <1>4

LEMMA BeginDestroyIInv ==
  ASSUME IInv, BeginDestroy
  PROVE  IInv'
<1> USE DEF IInv
<1>1. Types'
  BY DEF Types, BeginDestroy, Phases
<1>2. Control'
  BY DEF Types, Control, BeginDestroy
<1>3. TaskOwnership'
  BY DEF TaskOwnership, BeginDestroy, IsSubmitted, InQueue, IsRunning
<1>4. CountIsExact'
  <2>1. Counted' = Counted
    BY DEF BeginDestroy, Counted, PastDecrement
  <2> QED BY <2>1 DEF CountIsExact, BeginDestroy
<1> QED BY <1>1, <1>2, <1>3, <1>4

LEMMA JoinAndDestroyIInv ==
  ASSUME IInv, JoinAndDestroy
  PROVE  IInv'
<1> USE DEF IInv
<1>1. \A t \in Tasks : ~IsSubmitted(t) /\ ~IsRunning(t) /\ ~PastDecrement(t)
  BY ThreadPoolAssumption DEF Types, Control, JoinAndDestroy, IsSubmitted, IsRunning, PastDecrement, Threads
<1>2. \A t \in Tasks : future[t] = "pending" <=> InQueue(t)
  BY <1>1 DEF TaskOwnership
<1>3. Types'
  BY DEF Types, JoinAndDestroy, Shared, Phases
<1>4. Control'
  BY DEF Types, Control, JoinAndDestroy
<1>5. \A t \in Tasks : /\ ~IsSubmitted(t)' /\ ~IsRunning(t)' /\ ~InQueue(t)'
                       /\ ~PastDecrement(t)'
  BY <1>1 DEF JoinAndDestroy, IsSubmitted, IsRunning, InQueue, PastDecrement
<1>6. TaskOwnership'
  BY <1>2, <1>5 DEF Types, TaskOwnership, JoinAndDestroy
<1>7. CountIsExact'
  <2>1. Counted' = Counted
    BY <1>1, <1>2, <1>5 DEF JoinAndDestroy, Counted
  <2> QED BY <2>1 DEF CountIsExact, JoinAndDestroy
<1> QED BY <1>3, <1>4, <1>6, <1>7

LEMMA StutterIInv ==
  ASSUME IInv, UNCHANGED vars
  PROVE  IInv'
BY DEF IInv, vars, Types, Control, TaskOwnership, CountIsExact, Counted, PastDecrement,
       IsSubmitted, IsRunning, InQueue

THEOREM InductiveInvariant == Spec => []IInv
<1>1. Init => IInv
  BY InitIInv
<1>2. IInv /\ [Next]_vars => IInv'
  <2> SUFFICES ASSUME IInv, [Next]_vars PROVE IInv'
    OBVIOUS
  <2>1. ASSUME NEW th \in Threads, NEW t \in Tasks, SubmitCount(th, t) PROVE IInv'
    BY <2>1, SubmitCountIInv
  <2>2. ASSUME NEW th \in Threads, SubmitPost(th) PROVE IInv'
    BY <2>2, SubmitPostIInv
  <2>3. ASSUME NEW w \in Workers, WorkerStep(w) PROVE IInv'
    BY <2>3, StartTaskIInv, ReturnIInv, SetValueIInv, ThrowIInv, LeaveRunIInv DEF WorkerStep
  <2>4. CASE BeginDestroy
    BY <2>4, BeginDestroyIInv
  <2>5. CASE JoinAndDestroy
    BY <2>5, JoinAndDestroyIInv
  <2>6. CASE UNCHANGED vars \/ Gone
    BY <2>6, StutterIInv DEF Gone
  <2> QED BY <2>1, <2>2, <2>3, <2>4, <2>5, <2>6 DEF Next
<1> QED BY <1>1, <1>2, PTL DEF Spec

-----------------------------------------------------------------------------
(* The invariants that TLC checks, for every instance.                       *)

(* The inductive invariant implies the types: a cardinality is no less than 0. *)
LEMMA IInvTypeOK == IInv => TypeOK
BY CountedIsFinite DEF IInv, Types, TypeOK, CountIsExact

(* The state has its types; the unsigned m_num_tasks never wraps below zero. *)
THEOREM TypeCorrect == Spec => []TypeOK
BY IInvTypeOK, InductiveInvariant, PTL

(* No interleaving of submit() and io_service::run() calls a handler twice   *)
(* or loses one.                                                             *)
THEOREM OwnershipCorrect == Spec => []TaskOwnership
<1>1. IInv => TaskOwnership
  BY DEF IInv
<1> QED BY <1>1, InductiveInvariant, PTL

(* getNumTasks() is exactly the number of unfinished, thrown and abandoned   *)
(* tasks.                                                                    *)
THEOREM CountCorrect == Spec => []CountIsExact
<1>1. IInv => CountIsExact
  BY DEF IInv
<1> QED BY <1>1, InductiveInvariant, PTL

(* getNumTasks() = 0 means that nothing is submitted, queued or executed.    *)
THEOREM IdleCountCorrect == Spec => []IdleCountMeansIdle
<1>1. IInv => IdleCountMeansIdle
  <2> SUFFICES ASSUME IInv, numTasks = 0 PROVE IdleCountMeansIdle
    BY DEF IdleCountMeansIdle
  <2> USE DEF IInv
  <2>1. Counted = {}
    BY CountedIsFinite, FS_EmptySet DEF CountIsExact
  <2>2. \A t \in Tasks : IsSubmitted(t) \/ InQueue(t) => t \in Counted
    BY DEF TaskOwnership, Counted, PastDecrement, IsRunning
  <2>3. ASSUME handlers # <<>> PROVE FALSE
    <3>1. Head(handlers) \in Tasks /\ InQueue(Head(handlers))
      BY <2>3, TailQueue, InQueueIsQueueOf DEF Types
    <3> QED BY <3>1, <2>1, <2>2
  <2>4. \A th \in Threads : submitting[th] = NoTask
    BY <2>1, <2>2 DEF Types, IsSubmitted
  <2>5. ASSUME NEW w \in Workers, stage[w] = "calling" PROVE FALSE
    <3>1. PICK t \in Tasks : t = running[w] /\ future[t] = "pending"
      BY <2>5 DEF Types, Control, TaskOwnership, IsRunning
    <3>2. ~PastDecrement(t)
      BY <2>5, <3>1, ThreadPoolAssumption DEF Types, TaskOwnership, PastDecrement
    <3> QED BY <2>1, <3>1, <3>2 DEF Counted
  <2> QED BY <2>3, <2>4, <2>5 DEF IdleCountMeansIdle
<1> QED BY <1>1, InductiveInvariant, PTL

(* When the destructor is through, the threads and the tasks are. *)
LEMMA IInvQuiet == IInv => DestroyedPoolIsQuiet
<1> SUFFICES ASSUME IInv, phase = "destroyed" PROVE DestroyedPoolIsQuiet
  BY DEF DestroyedPoolIsQuiet
<1> USE DEF IInv
<1>1. handlers = <<>> /\ \A w \in Workers : stage[w] = "exited" /\ running[w] = NoTask
  BY DEF Control
<1>2. \A th \in Threads : submitting[th] = NoTask
  BY <1>1 DEF Control, Threads
<1>3. \A t \in Tasks : ~IsSubmitted(t) /\ ~InQueue(t) /\ ~IsRunning(t)
  BY <1>1, <1>2, ThreadPoolAssumption DEF IsSubmitted, InQueue, IsRunning
<1> QED BY <1>1, <1>2, <1>3 DEF DestroyedPoolIsQuiet, TaskOwnership

(* After ~ThreadPool no thread is left in the pool and no future is pending. *)
THEOREM DestroyedCorrect == Spec => []DestroyedPoolIsQuiet
BY IInvQuiet, InductiveInvariant, PTL

-----------------------------------------------------------------------------
(* The pool implements TaskFutures: under the mapping of FutureStatus every  *)
(* step is one of its steps or leaves status and closed alone.               *)

LEMMA SubmitMaps ==
  ASSUME IInv, NEW th \in Threads, NEW t \in Tasks, SubmitCount(th, t)
  PROVE  Abstract!Submit(t)
<1>1. phase # "destroyed"
  BY DEF IInv, Control, SubmitCount, MaySubmit
<1>2. ~IsRunning(t) /\ \A u \in Tasks : IsRunning(u)' <=> IsRunning(u)
  BY DEF IInv, TaskOwnership, SubmitCount, IsRunning
<1>3. FutureStatus[t] = "none"
  BY <1>2 DEF FutureStatus, SubmitCount
<1>4. FutureStatus' = [FutureStatus EXCEPT ![t] = "pending"]
  BY <1>2 DEF IInv, Types, FutureStatus, SubmitCount
<1>5. phase' = phase
  BY DEF SubmitCount
<1> QED BY <1>1, <1>3, <1>4, <1>5 DEF Abstract!Submit

LEMMA StartMaps ==
  ASSUME IInv, NEW w \in Workers, StartTask(w)
  PROVE  \E t \in Tasks : Abstract!Begin(t)
<1>0. PICK t \in Tasks : t = Head(handlers) /\ InQueue(t)
  BY TailQueue, InQueueIsQueueOf DEF IInv, Types, StartTask
<1>1. phase # "destroyed" /\ phase' = phase
  BY DEF IInv, Control, StartTask
<1>2. \A u \in Tasks : IsRunning(u)' <=> IsRunning(u) \/ u = t
  BY <1>0, ThreadPoolAssumption DEF IInv, Types, Control, StartTask, IsRunning
<1>3. FutureStatus[t] = "pending"
  BY <1>0 DEF IInv, TaskOwnership, FutureStatus
<1>4. FutureStatus' = [FutureStatus EXCEPT ![t] = "running"]
  BY <1>2 DEF FutureStatus, StartTask
<1>5. Abstract!Begin(t)
  BY <1>1, <1>3, <1>4 DEF Abstract!Begin
<1> QED BY <1>5

LEMMA SettleMaps ==
  ASSUME IInv, NEW w \in Workers, stage[w] \in {"calling", "counted"},
         NEW outcome \in {"value", "exception"}, Settle(w, outcome)
  PROVE  \E t \in Tasks : Abstract!Deliver(t)
<1>0. PICK t \in Tasks : t = running[w] /\ IsRunning(t)
  BY DEF IInv, Types, Control, IsRunning
<1>1. phase' = phase
  BY DEF Settle
<1>2. \A u \in Tasks : IsRunning(u)' <=> IsRunning(u) /\ u # t
  BY <1>0, ThreadPoolAssumption DEF IInv, Types, TaskOwnership, Settle, IsRunning
<1>3. FutureStatus[t] = "running"
  BY <1>0 DEF FutureStatus
<1>4. FutureStatus' = [FutureStatus EXCEPT ![t] = outcome]
  BY <1>0, <1>2 DEF IInv, Types, FutureStatus, Settle
<1>5. Abstract!Deliver(t)
  BY <1>1, <1>3, <1>4 DEF Abstract!Deliver
<1> QED BY <1>5

LEMMA DestroyMaps ==
  ASSUME IInv, JoinAndDestroy
  PROVE  Abstract!Abandon
<1>1. \A t \in Tasks : ~IsRunning(t) /\ ~IsRunning(t)' /\ ~IsSubmitted(t)
  BY ThreadPoolAssumption
     DEF IInv, Types, Control, JoinAndDestroy, IsRunning, IsSubmitted, Threads
<1>2. \A t \in Tasks : future[t] = "pending" <=> InQueue(t)
  BY <1>1 DEF IInv, TaskOwnership
<1>3. \A t \in Tasks : FutureStatus[t] = future[t] /\ FutureStatus[t] # "running"
  BY <1>1 DEF IInv, Types, Shared, FutureStatus
<1>4. FutureStatus' = [t \in Tasks |-> IF FutureStatus[t] = "pending" THEN "broken"
                                                               ELSE FutureStatus[t]]
  BY <1>1, <1>2, <1>3 DEF FutureStatus, JoinAndDestroy
<1>5. phase # "destroyed" /\ phase' = "destroyed"
  BY DEF JoinAndDestroy
<1> QED BY <1>3, <1>4, <1>5 DEF Abstract!Abandon

LEMMA OthersStutter ==
  ASSUME IInv,
         \/ \E th \in Threads : SubmitPost(th)
         \/ \E w \in Workers : Return(w) \/ LeaveRun(w)
         \/ BeginDestroy \/ Gone \/ UNCHANGED vars
  PROVE  UNCHANGED <<FutureStatus, (phase = "destroyed")>>
<1>1. /\ future' = future /\ running' = running
      /\ phase' # phase => phase = "alive" /\ phase' = "joining"
  BY DEF SubmitPost, Return, LeaveRun, BeginDestroy, Gone, vars
<1>2. FutureStatus' = FutureStatus
  BY <1>1 DEF FutureStatus, IsRunning
<1>3. (phase = "destroyed")' = (phase = "destroyed")
  BY <1>1
<1> QED BY <1>2, <1>3

(* Every behaviour of the pool, seen through its futures, is a behaviour of  *)
(* the abstract specification: a task is called at most once, its future     *)
(* settles once, and only an uncalled task is ever broken.                   *)
THEOREM Implementation == Spec => Abstract!Safety
<1>1. Init => Abstract!Init
  <2> SUFFICES ASSUME Init PROVE Abstract!Init
    OBVIOUS
  <2>1. FutureStatus = [t \in Tasks |-> "none"]
    BY ThreadPoolAssumption DEF Init, FutureStatus, IsRunning
  <2>2. (phase = "destroyed") = FALSE
    BY DEF Init
  <2> QED BY <2>1, <2>2 DEF Abstract!Init
<1>2. IInv /\ [Next]_vars => [Abstract!Next]_(Abstract!vars)
  <2> SUFFICES ASSUME IInv, [Next]_vars PROVE [Abstract!Next]_(Abstract!vars)
    OBVIOUS
  <2> USE DEF Abstract!Next
  <2>1. ASSUME NEW th \in Threads, NEW t \in Tasks, SubmitCount(th, t) PROVE Abstract!Next
    BY <2>1, SubmitMaps
  <2>2. ASSUME NEW w \in Workers, StartTask(w) PROVE Abstract!Next
    BY <2>2, StartMaps
  <2>3. ASSUME NEW w \in Workers, SetValue(w) PROVE Abstract!Next
    BY <2>3, SettleMaps DEF SetValue
  <2>4. ASSUME NEW w \in Workers, Throw(w) PROVE Abstract!Next
    BY <2>4, SettleMaps DEF Throw, InCall
  <2>5. CASE JoinAndDestroy
    BY <2>5, DestroyMaps
  <2>6. CASE \/ \E th \in Threads : SubmitPost(th)
             \/ \E w \in Workers : Return(w) \/ LeaveRun(w)
             \/ BeginDestroy \/ Gone \/ UNCHANGED vars
    BY <2>6, OthersStutter DEF Abstract!vars
  <2> QED BY <2>1, <2>2, <2>3, <2>4, <2>5, <2>6 DEF Next, WorkerStep
<1> QED BY <1>1, <1>2, InductiveInvariant, PTL DEF Spec, Abstract!Safety
=============================================================================
