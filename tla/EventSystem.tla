----------------------------- MODULE EventSystem -----------------------------
(***************************************************************************)
(* evnt::EventSystem and SpecEvent (src/core/event.h) over a ThreadPool.   *)
(*                                                                         *)
(* Threads of the program, and the pool's workers while they run a functor,*)
(* call registerEvent, subscribeToEvent, unSubscribeFromEvent and          *)
(* raiseEvent.  Each call spins on the system's m_access_flag, finds the   *)
(* SpecEvent, spins on that object's own m_access_flag, and works on its   *)
(* list of delegates; raiseEvent submits one task per delegate to the pool *)
(* while both flags are set.  The flags are the booleans of the code: that *)
(* they exclude is a property, not an assumption.  The pool is the one of  *)
(* ThreadPool.tla, which outlives the EventSystem.                         *)
(***************************************************************************)
EXTENDS Integers, Sequences, FiniteSets, Removal

CONSTANTS Clients, Workers, Tasks, NoTask,     \* of the pool
          Events,        \* the event traits, by their hash
          HandleMod,     \* 2^32: m_next_available_ID is a uint32_t
          NoDelegate,    \* what is bound in a task that was not submitted yet
          NoRequest,     \* a thread that is in no call of the EventSystem
          MaxCalls       \* bound of the model: calls made, per operation

Ops == {"register", "subscribe", "unsubscribe", "raise"}

ASSUME EventSystemAssumption ==
  /\ Clients \cap Workers = {}
  /\ IsFiniteSet(Tasks)
  /\ NoTask \notin Tasks
  /\ HandleMod \in Nat \ {0}
  /\ MaxCalls \in [Ops -> Nat]
  /\ MaxCalls["raise"] * MaxCalls["subscribe"] <= Cardinality(Tasks)

VARIABLES
  numTasks, handlers, stopped, submitting, running, stage, future, phase,   \* the pool
  accessFlag,    \* EventSystem::m_access_flag
  made,          \* per event, how many SpecEvents were made for it; the last one is in m_events
  specFlag,      \* SpecEvent::m_access_flag of that one
  delegates,     \* m_delegates: the handles (_object) of its functors
  nextID,        \* m_next_available_ID
  bindings,      \* history: how many functors were bound in that SpecEvent
  at,            \* per thread, where it is in a call of the EventSystem
  request,       \* per thread, the call
  spec,          \* per thread, which SpecEvent find_spec_event returned, 0 for nullptr
  cursor,        \* per thread, the position of call()'s loop in m_delegates
  results,       \* per thread, the tasks whose futures are in res
  bound,         \* per task, the delegate bound in it: <<event, handle>>
  calls          \* calls begun, per operation (for the bound MaxCalls)

Pool == INSTANCE ThreadPool

Threads == Clients \cup Workers

poolVars  == <<numTasks, handlers, stopped, submitting, running, stage, future, phase>>
eventVars == <<accessFlag, made, specFlag, delegates, nextID, bindings>>
callVars  == <<at, request, spec, cursor, results>>
vars      == <<poolVars, eventVars, callVars, bound, calls>>

Handles == 0..(HandleMod - 1)

Requests == [op : Ops, event : Events, handle : Handles]
Init ==
  /\ Pool!Init
  /\ accessFlag = FALSE
  /\ made = [e \in Events |-> 0]
  /\ specFlag = [e \in Events |-> FALSE]
  /\ delegates = [e \in Events |-> <<>>]
  /\ nextID = [e \in Events |-> 0]
  /\ bindings = [e \in Events |-> 0]
  /\ at = [th \in Threads |-> "out"]
  /\ request = [th \in Threads |-> NoRequest]
  /\ spec = [th \in Threads |-> 0]
  /\ cursor = [th \in Threads |-> 1]
  /\ results = [th \in Threads |-> <<>>]
  /\ bound = [t \in Tasks |-> NoDelegate]
  /\ calls = [op \in Ops |-> 0]

-----------------------------------------------------------------------------
(* Entering a call.                                                          *)

\* Only unsubscribe takes a handle, any one that subscribing may have returned.
Sensible(r) == r.op # "unsubscribe" => r.handle = 0

Call(th, r) ==
  /\ at[th] = "out"
  /\ th \in Workers => Pool!InCall(th)
  /\ Sensible(r)
  /\ calls[r.op] < MaxCalls[r.op]
  /\ calls' = [calls EXCEPT ![r.op] = @ + 1]
  /\ at' = [at EXCEPT ![th] = "spin"]
  /\ request' = [request EXCEPT ![th] = r]
  /\ UNCHANGED <<poolVars, eventVars, spec, cursor, results, bound>>

\* Mutant: the flag is set without looking at what it was.
LockSystemBarges(th) ==
  /\ at[th] = "spin"
  /\ accessFlag' = TRUE
  /\ at' = [at EXCEPT ![th] = "locked"]
  /\ UNCHANGED <<poolVars, made, specFlag, delegates, nextID, bindings, request, spec, cursor, results,
                 bound, calls>>

(* FlagLock: the exchange that finds FALSE ends the spinning. *)
LockSystem(th) ==
  /\ at[th] = "spin"
  /\ ~accessFlag
  /\ accessFlag' = TRUE
  /\ at' = [at EXCEPT ![th] = "locked"]
  /\ UNCHANGED <<poolVars, made, specFlag, delegates, nextID, bindings, request, spec, cursor, results,
                 bound, calls>>

\* ~FlagLock and the return: the thread keeps nothing of the call.
ReturnFromCall(th) ==
  /\ accessFlag' = FALSE
  /\ at' = [at EXCEPT ![th] = "out"]
  /\ request' = [request EXCEPT ![th] = NoRequest]
  /\ spec' = [spec EXCEPT ![th] = 0]
  /\ cursor' = [cursor EXCEPT ![th] = 1]
  /\ results' = [results EXCEPT ![th] = <<>>]

-----------------------------------------------------------------------------
(* registerEvent: m_events[hash] = make_unique<SpecEvent>(), whatever was    *)
(* there before.                                                             *)

NewSpecEvent(e) ==
  /\ made' = [made EXCEPT ![e] = @ + 1]
  /\ specFlag' = [specFlag EXCEPT ![e] = FALSE]
  /\ delegates' = [delegates EXCEPT ![e] = <<>>]
  /\ nextID' = [nextID EXCEPT ![e] = 0]
  /\ bindings' = [bindings EXCEPT ![e] = 0]

\* Mutant: registerEvent does not take the flag.
RegisterUnlocked(th) ==
  /\ at[th] = "spin"
  /\ request[th].op = "register"
  /\ NewSpecEvent(request[th].event)
  /\ at' = [at EXCEPT ![th] = "out"]
  /\ request' = [request EXCEPT ![th] = NoRequest]
  /\ UNCHANGED <<poolVars, accessFlag, spec, cursor, results, bound, calls>>

Register(th) ==
  /\ at[th] = "locked"
  /\ request[th].op = "register"
  /\ NewSpecEvent(request[th].event)
  /\ ReturnFromCall(th)
  /\ UNCHANGED <<poolVars, bound, calls>>

-----------------------------------------------------------------------------
(* find_spec_event, and the SpecEvent's own flag.                            *)

\* Mutant: the early return leaves the flag set.
FindNothingKeepsFlag(th) ==
  /\ at[th] = "locked"
  /\ request[th].op # "register"
  /\ made[request[th].event] = 0
  /\ at' = [at EXCEPT ![th] = "out"]
  /\ request' = [request EXCEPT ![th] = NoRequest]
  /\ UNCHANGED <<poolVars, eventVars, spec, cursor, results, bound, calls>>

(* nullptr: nothing is done; 0 or an empty vector is returned. *)
FindNothing(th) ==
  /\ at[th] = "locked"
  /\ request[th].op # "register"
  /\ made[request[th].event] = 0
  /\ ReturnFromCall(th)
  /\ UNCHANGED <<poolVars, made, specFlag, delegates, nextID, bindings, bound, calls>>

LockSpec(th) ==
  LET e == request[th].event IN
  /\ at[th] = "locked"
  /\ request[th].op # "register"
  /\ made[e] # 0
  /\ ~specFlag[e]
  /\ specFlag' = [specFlag EXCEPT ![e] = TRUE]
  /\ spec' = [spec EXCEPT ![th] = made[e]]
  /\ at' = [at EXCEPT ![th] = "working"]
  /\ UNCHANGED <<poolVars, accessFlag, made, delegates, nextID, bindings, request, cursor, results,
                 bound, calls>>

\* The thread's SpecEvent operation is done: both flags are released.
Leave(th) ==
  /\ specFlag' = [specFlag EXCEPT ![request[th].event] = FALSE]
  /\ ReturnFromCall(th)

Working(th, op) == at[th] = "working" /\ request[th].op = op

-----------------------------------------------------------------------------
(* SpecEvent::bind, unbind and call.                                         *)

\* Mutant: the counter is as wide as the handles (a size_t).
BindWide(th) ==
  LET e == request[th].event
      evh == nextID[e] + 1
  IN
  /\ Working(th, "subscribe")
  /\ nextID' = [nextID EXCEPT ![e] = evh]
  /\ bindings' = [bindings EXCEPT ![e] = @ + 1]
  /\ delegates' = [delegates EXCEPT ![e] = Append(@, evh)]
  /\ Leave(th)
  /\ UNCHANGED <<poolVars, made, bound, calls>>

\* The counter wraps: after 2^32 bindings it gives out 0 and then what it gave before.
Bind(th) ==
  LET e == request[th].event
      evh == (nextID[e] + 1) % HandleMod
  IN
  /\ Working(th, "subscribe")
  /\ nextID' = [nextID EXCEPT ![e] = evh]
  /\ bindings' = [bindings EXCEPT ![e] = @ + 1]
  /\ delegates' = [delegates EXCEPT ![e] = Append(@, evh)]
  /\ Leave(th)
  /\ UNCHANGED <<poolVars, made, bound, calls>>

\* Mutant: the counter gives the handle back.
UnbindGivesBack(th) ==
  LET e == request[th].event IN
  /\ Working(th, "unsubscribe")
  /\ delegates' = [delegates EXCEPT ![e] = Without(@, request[th].handle)]
  /\ nextID' = [nextID EXCEPT ![e] = IF @ = 0 THEN 0 ELSE @ - 1]
  /\ Leave(th)
  /\ UNCHANGED <<poolVars, made, bindings, bound, calls>>

\* Mutant: every functor up to the handle is erased.
UnbindUpTo(th) ==
  /\ Working(th, "unsubscribe")
  /\ delegates' = [delegates EXCEPT ![request[th].event] =
                     SelectSeq(@, LAMBDA evh : evh > request[th].handle)]
  /\ Leave(th)
  /\ UNCHANGED <<poolVars, made, nextID, bindings, bound, calls>>

Unbind(th) ==
  /\ Working(th, "unsubscribe")
  /\ delegates' = [delegates EXCEPT ![request[th].event] = Without(@, request[th].handle)]
  /\ Leave(th)
  /\ UNCHANGED <<poolVars, made, nextID, bindings, bound, calls>>

FreshTask == CHOOSE t \in Tasks : future[t] = "none"

\* Mutant: the future of the submitted task is not kept.
SubmitDelegateDropsFuture(th) ==
  LET e == request[th].event IN
  /\ Working(th, "raise")
  /\ cursor[th] <= Len(delegates[e])
  /\ Pool!SubmitCount(th, FreshTask)
  /\ bound' = [bound EXCEPT ![FreshTask] = <<e, delegates[e][cursor[th]]>>]
  /\ UNCHANGED <<eventVars, at, request, spec, cursor, results, calls>>

(* The body of call()'s loop: the delegate is bound with the arguments into  *)
(* a task, and pool.submit counts it ...                                     *)
SubmitDelegate(th) ==
  LET e == request[th].event IN
  /\ Working(th, "raise")
  /\ cursor[th] <= Len(delegates[e])
  /\ \E t \in Tasks : future[t] = "none"    \* as the assumption on MaxCalls provides
  /\ Pool!SubmitCount(th, FreshTask)
  /\ bound' = [bound EXCEPT ![FreshTask] = <<e, delegates[e][cursor[th]]>>]
  /\ results' = [results EXCEPT ![th] = Append(@, FreshTask)]
  /\ UNCHANGED <<eventVars, at, request, spec, cursor, calls>>

(* ... and posts it, and the loop goes on. *)
PostDelegate(th) ==
  /\ Working(th, "raise")
  /\ Pool!SubmitPost(th)
  /\ cursor' = [cursor EXCEPT ![th] = @ + 1]
  /\ UNCHANGED <<eventVars, at, request, spec, results, bound, calls>>

EndRaise(th) ==
  /\ Working(th, "raise")
  /\ submitting[th] = NoTask
  /\ cursor[th] > Len(delegates[request[th].event])
  /\ Leave(th)
  /\ UNCHANGED <<poolVars, made, delegates, nextID, bindings, bound, calls>>

-----------------------------------------------------------------------------
(* The workers of the pool run the submitted delegates.  A delegate may      *)
(* itself call the EventSystem; it ends when it is not inside such a call.   *)

RunStep(w) ==
  /\ \/ Pool!StartTask(w)
     \/ at[w] = "out" /\ (Pool!Return(w) \/ Pool!Throw(w))
     \/ Pool!SetValue(w)
  /\ UNCHANGED <<eventVars, callVars, bound, calls>>

HolderStep(th) == \/ Register(th)
                  \/ FindNothing(th)
                  \/ LockSpec(th)
                  \/ Bind(th)
                  \/ Unbind(th)
                  \/ SubmitDelegate(th)
                  \/ PostDelegate(th)
                  \/ EndRaise(th)

\* The bound MaxCalls is used up and everything has come to rest.
AtRest == /\ \A th \in Threads : at[th] = "out"
          /\ \A w \in Workers : stage[w] = "idle"
          /\ handlers = <<>>
          /\ UNCHANGED vars

Next == \/ \E th \in Threads, r \in Requests : Call(th, r)
        \/ \E th \in Threads : LockSystem(th) \/ HolderStep(th)
        \/ \E w \in Workers : RunStep(w)
        \/ AtRest

(* Threads are scheduled and functors return or throw.  A spinning thread    *)
(* gets the flag when it stays free: the exchange promises no more.          *)
Fairness == /\ \A th \in Threads : WF_vars(LockSystem(th)) /\ WF_vars(HolderStep(th))
            /\ \A w \in Workers : WF_vars(RunStep(w))

Spec == Init /\ [][Next]_vars /\ Fairness

-----------------------------------------------------------------------------
(* Properties.                                                               *)

\* The types; in particular the handle counter stays within its 32 bits.
TypeOK ==
  /\ Pool!TypeOK
  /\ accessFlag \in BOOLEAN
  /\ made \in [Events -> Nat]
  /\ specFlag \in [Events -> BOOLEAN]
  /\ \A e \in Events : delegates[e] \in Seq(Handles)
  /\ nextID \in [Events -> Handles]
  /\ bindings \in [Events -> Nat]
  /\ at \in [Threads -> {"out", "spin", "locked", "working"}]
  /\ request \in [Threads -> Requests \cup {NoRequest}]
  /\ spec \in [Threads -> Nat]
  /\ cursor \in [Threads -> Nat \ {0}]
  /\ \A th \in Threads : results[th] \in Seq(Tasks)
  /\ bound \in [Tasks -> (Events \X Handles) \cup {NoDelegate}]

Holds(th) == at[th] \in {"locked", "working"}

(* The two-level spin flags exclude: whatever calls overlap, at most one      *)
(* thread is inside the EventSystem, the system flag is set exactly while one *)
(* is, and a SpecEvent's flag exactly while that thread works on it.          *)
FlagsExclude ==
  /\ \A a, b \in Threads : Holds(a) /\ Holds(b) => a = b
  /\ accessFlag <=> \E th \in Threads : Holds(th)
  /\ \A e \in Events :
       specFlag[e] <=> \E th \in Threads : at[th] = "working" /\ request[th].event = e

(* registerEvent of an event that is already registered destroys its          *)
(* SpecEvent; no thread is then inside bind, unbind or call of that object:   *)
(* the one a thread works on is always the one that is in m_events.           *)
SpecEventInUseIsAlive ==
  \A th \in Threads : at[th] = "working" =>
     spec[th] # 0 /\ spec[th] = made[request[th].event]

(* A handle names one functor, for the first HandleMod - 1 that are bound in  *)
(* a SpecEvent, however many were unsubscribed since and however many were    *)
(* bound before it was registered: the handles in m_delegates increase        *)
(* strictly in order of subscription, none is 0 (what subscribing to an       *)
(* unregistered event returns), and none is ahead of the counter, so that     *)
(* unsubscribing one functor and subscribing another never gives out a handle *)
(* in use.  After that many the counter starts again, and it may.             *)
HandlesIdentify ==
  \A e \in Events : bindings[e] < HandleMod =>
    /\ \A i, j \in 1..Len(delegates[e]) : i < j => delegates[e][i] < delegates[e][j]
    /\ \A i \in 1..Len(delegates[e]) : delegates[e][i] \in 1..nextID[e]

(* When raiseEvent returns, its vector holds one future per functor that is   *)
(* subscribed at that moment, in order of subscription, and each belongs to a *)
(* task in which that functor is bound.                                       *)
RaiseReturnsOneFuturePerFunctor ==
  [][\A th \in Threads :
       Working(th, "raise") /\ at'[th] = "out" =>
         LET e == request[th].event IN
         /\ Len(results[th]) = Len(delegates[e])
         /\ \A i \in 1..Len(delegates[e]) : bound[results[th][i]] = <<e, delegates[e][i]>>
    ]_vars

(* A flag that is set is cleared again: no path leaves a call with a flag     *)
(* set, and no call waits for something that needs the flag it holds          *)
(* (raiseEvent only posts the functors, so a functor that calls the           *)
(* EventSystem cannot be waiting for its own caller's flag).                  *)
FlagsAreReleased ==
  /\ accessFlag ~> ~accessFlag
  /\ \A e \in Events : specFlag[e] ~> ~specFlag[e]

(* The EventSystem implements the EventBus.  A raise takes effect when its    *)
(* call() has the SpecEvent's flag: from then on the functors its loop has    *)
(* not posted yet count as queued.                                            *)
Posted == [i \in 1..Len(handlers) |-> bound[handlers[i]]]

InLoop(th) ==
  IF Working(th, "raise")
  THEN LET e == request[th].event IN
       [i \in 1..(Len(delegates[e]) - cursor[th] + 1) |-> <<e, delegates[e][cursor[th] + i - 1]>>]
  ELSE <<>>

Raising == {th \in Threads : InLoop(th) # <<>>}

Bus == INSTANCE EventBus WITH
         NoHandle <- 0,
         subs    <- delegates,
         granted <- [e \in Events |-> IF bindings[e] < HandleMod THEN 1..bindings[e] ELSE Handles],
         queue   <- IF Raising = {} THEN Posted ELSE Posted \o InLoop(CHOOSE th \in Raising : TRUE)

ImplementsEventBus == Bus!Spec

=============================================================================
