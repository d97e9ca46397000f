----------------------------- MODULE CoreModule -----------------------------
(***************************************************************************)
(* The singleton evnt::Core: Module<T>::startUp, instance and shutDown     *)
(* (src/core/module.h) and the construction and destruction of Core's      *)
(* members (src/core/core.h, core.cpp), with the threads of the Core's own *)
(* ThreadPool running meanwhile, and the log that the constructor sets up. *)
(*                                                                         *)
(* The main thread starts the Core up and shuts it down; a task in the     *)
(* Core's pool may call Core::instance() as any code may.  The pool is the *)
(* one of ThreadPool.tla: its constructor and its destructor are steps of  *)
(* Core's.                                                                 *)
(***************************************************************************)
EXTENDS Integers, Sequences, FiniteSets, Log

CONSTANTS MainThread,                \* the thread that calls startUp and shutDown
          Workers, Tasks, NoTask,    \* of m_thread_pool
          Configs                    \* what config.json may say of the log

ASSUME CoreModuleAssumption ==
  /\ MainThread \notin Workers
  /\ IsFiniteSet(Tasks)
  /\ NoTask \notin Tasks

VARIABLES
  numTasks, handlers, stopped, submitting, running, stage, future, phase,   \* m_thread_pool
  isStartedUp,   \* Module's static flag
  isDestroyed,   \* Module's static flag
  inst,          \* the pointer in Module's static unique_ptr: "null" or "core"
  members,       \* which of Core's members exist
  main,          \* the main thread: outside, in startUp (starting, with the log set up
                 \* in logging, then made; or unwinding), or in shutDown (stopping)
  config,        \* m_root_config, of the latest startUp
  got,           \* per thread, what it has of Core::instance()
  undefined      \* a thread has used what does not exist: the language promises nothing

Pool == INSTANCE ThreadPool WITH Clients <- {MainThread}

Threads == {MainThread} \cup Workers

poolVars == <<numTasks, handlers, stopped, submitting, running, stage, future, phase>>
confVars == <<config, logVars>>
vars     == <<poolVars, isStartedUp, isDestroyed, inst, members, main, got, undefined, confVars>>

(* There is no pool: as after the end of one, no thread of it runs.          *)
NoPool ==
  /\ numTasks = 0
  /\ handlers = <<>>
  /\ stopped = TRUE
  /\ submitting = [th \in Threads |-> NoTask]
  /\ running = [w \in Workers |-> NoTask]
  /\ stage = [w \in Workers |-> "exited"]
  /\ future = [t \in Tasks |-> "none"]
  /\ phase = "destroyed"

Init ==
  /\ NoPool
  /\ isStartedUp = FALSE
  /\ isDestroyed = FALSE
  /\ inst = "null"
  /\ members = {}
  /\ main = "out"
  /\ got = [th \in Threads |-> "nothing"]
  /\ undefined = FALSE
  /\ config \in Configs
  /\ LogInit

-----------------------------------------------------------------------------
(* startUp: make_unique<Core>(), then the pointer, then the flag.  (On a     *)
(* started module it throws and changes nothing.)                            *)

BeginStartUp(conf) ==
  /\ main = "out"
  /\ got[MainThread] = "nothing"
  /\ ~isStartedUp
  /\ main' = "starting"
  /\ config' = conf
  /\ UNCHANGED <<poolVars, isStartedUp, isDestroyed, inst, members, got, undefined, logVars>>

Constructing(member, before) ==
  /\ main = "starting"
  /\ members = before
  /\ members' = before \cup {member}
  /\ UNCHANGED <<isStartedUp, isDestroyed, inst, main, got, undefined, confVars>>

\* ThreadPool(): a new pool with its threads; the futures of an earlier one remain.
NewPool ==
  /\ numTasks' = 0
  /\ handlers' = <<>>
  /\ stopped' = FALSE
  /\ submitting' = [th \in Threads |-> NoTask]
  /\ running' = [w \in Workers |-> NoTask]
  /\ stage' = [w \in Workers |-> "idle"]
  /\ phase' = "alive"
  /\ UNCHANGED future

\* Mutant: the event system, and the reference it keeps, are made before the pool.
ConstructPoolLate == \/ Constructing("events", {}) /\ UNCHANGED poolVars
                     \/ Constructing("pool", {"events"}) /\ NewPool

ConstructPool == Constructing("pool", {}) /\ NewPool

ConstructEventSystem == Constructing("events", {"pool"}) /\ UNCHANGED poolVars

ConstructFileSystem == Constructing("files", {"pool", "events"}) /\ UNCHANGED poolVars

AllMembers == {"pool", "events", "files"}

(* An exception leaves the constructor (an allocation fails, config.json is  *)
(* missing or lacks a field, the root directory cannot be scanned): the      *)
(* members made so far are destroyed, and startUp throws.                    *)
ConstructorThrows ==
  /\ main = "starting"
  /\ members # {}
  /\ main' = "unwinding"
  /\ UNCHANGED <<poolVars, isStartedUp, isDestroyed, inst, members, got, undefined, confVars>>

ConstructorInitsLog ==
  /\ main = "starting"
  /\ members = AllMembers
  /\ InitBoostLog(ConvertStrToOutput(config.output))
  /\ main' = "logging"
  /\ UNCHANGED <<poolVars, isStartedUp, isDestroyed, inst, members, got, undefined, config>>

InitLogThrows ==
  /\ main = "starting"
  /\ members = AllMembers
  /\ InitBoostLogThrows(ConvertStrToOutput(config.output))
  /\ main' = "unwinding"
  /\ UNCHANGED <<poolVars, isStartedUp, isDestroyed, inst, members, got, undefined, config>>

ConstructorSetsFilter ==
  /\ main = "logging"
  /\ SetSeverityFilter(ConvertStrToSeverity(config.severity))
  /\ main' = "made"
  /\ UNCHANGED <<poolVars, isStartedUp, isDestroyed, inst, members, got, undefined, config>>

SetFilterThrows ==
  /\ main = "logging"
  /\ SetSeverityFilterThrows(ConvertStrToSeverity(config.severity))
  /\ main' = "unwinding"
  /\ UNCHANGED <<poolVars, isStartedUp, isDestroyed, inst, members, got, undefined, config>>

Publish ==
  /\ main = "made"
  /\ inst' = "core"
  /\ isStartedUp' = TRUE
  /\ main' = "out"
  /\ UNCHANGED <<poolVars, isDestroyed, members, got, undefined, confVars>>

-----------------------------------------------------------------------------
(* instance(), and what a thread does with the reference.                    *)

MayCall(th) == IF th = MainThread THEN main = "out" ELSE Pool!InCall(th)

(* instance() tests the two flags and throws ... *)
CheckFlags(th) ==
  /\ MayCall(th)
  /\ got[th] = "nothing"
  /\ got' = [got EXCEPT ![th] = IF isStartedUp /\ ~isDestroyed THEN "checked" ELSE "exception"]
  /\ UNCHANGED <<poolVars, isStartedUp, isDestroyed, inst, members, main, undefined, confVars>>

(* ... or reads the pointer and dereferences it. *)
ReadInstance(th) ==
  /\ got[th] = "checked"
  /\ got' = [got EXCEPT ![th] = inst]
  /\ UNCHANGED <<poolVars, isStartedUp, isDestroyed, inst, members, main, undefined, confVars>>

(* Something is submitted to the Core's pool through the reference, by       *)
(* getThreadPool() or by an event that is raised.  (A task's thread is one   *)
(* that ~ThreadPool still waits for, so its pool is there.)                  *)
SubmitThroughCore(th, t) ==
  /\ got[th] = "core"
  /\ Pool!SubmitCount(th, t)
  /\ UNCHANGED <<isStartedUp, isDestroyed, inst, members, main, got, undefined, confVars>>

PostThroughCore(th) ==
  /\ Pool!SubmitPost(th)
  /\ UNCHANGED <<isStartedUp, isDestroyed, inst, members, main, got, undefined, confVars>>

(* The null reference is used, or a member through the reference that is not *)
(* there any more: raiseEvent, or getFileSystem(), in a task that runs while *)
(* ~Core is destroying the members.                                          *)
UseWhatIsGone(th) ==
  /\ got[th] = "null" \/ (got[th] = "core" /\ members # AllMembers)
  /\ submitting[th] = NoTask
  /\ undefined' = TRUE
  /\ UNCHANGED <<poolVars, isStartedUp, isDestroyed, inst, members, main, got, confVars>>

DropReference(th) ==
  /\ got[th] \in {"core", "null", "exception"}
  /\ submitting[th] = NoTask
  /\ got' = [got EXCEPT ![th] = "nothing"]
  /\ UNCHANGED <<poolVars, isStartedUp, isDestroyed, inst, members, main, undefined, confVars>>

WorkerRuns(w) ==
  /\ "pool" \in members
  /\ Pool!StartTask(w) \/ Pool!SetValue(w) \/ Pool!LeaveRun(w)
  /\ UNCHANGED <<isStartedUp, isDestroyed, inst, members, main, got, undefined, confVars>>

\* Mutant: the decrement of the count is made twice.
TaskEndsTwice(w) ==
  /\ got[w] = "nothing"
  /\ Pool!ReturnTwice(w)
  /\ UNCHANGED <<isStartedUp, isDestroyed, inst, members, main, got, undefined, confVars>>

TaskEnds(w) ==
  /\ got[w] = "nothing"
  /\ Pool!Return(w) \/ Pool!Throw(w)
  /\ UNCHANGED <<isStartedUp, isDestroyed, inst, members, main, got, undefined, confVars>>

-----------------------------------------------------------------------------
(* shutDown: unique_ptr::reset stores nullptr and then destroys the Core,    *)
(* whose members go in the reverse order of their declaration; only then is  *)
(* isDestroyed set.  (On a module that is not started it throws.)  The       *)
(* members of a Core whose constructor threw go in the same order.           *)

BeginShutDown ==
  /\ main = "out"
  /\ got[MainThread] = "nothing"
  /\ isStartedUp
  /\ ~isDestroyed
  /\ inst' = "null"
  /\ main' = "stopping"
  /\ UNCHANGED <<poolVars, isStartedUp, isDestroyed, members, got, undefined, confVars>>

Destroying(before) == main \in {"stopping", "unwinding"} /\ members = before

Destroy(member, before) ==
  /\ Destroying(before)
  /\ members' = before \ {member}
  /\ UNCHANGED <<poolVars, isStartedUp, isDestroyed, inst, main, got, undefined, confVars>>

DestroyFileSystem == Destroy("files", AllMembers)

DestroyEventSystem == Destroy("events", {"pool", "events"})

\* Mutant: ~ThreadPool does not stop the io_service.
StopPoolNot ==
  /\ Destroying({"pool"})
  /\ Pool!BeginDestroyNoStop
  /\ UNCHANGED <<isStartedUp, isDestroyed, inst, members, main, got, undefined, confVars>>

StopPool ==
  /\ Destroying({"pool"})
  /\ Pool!BeginDestroy
  /\ UNCHANGED <<isStartedUp, isDestroyed, inst, members, main, got, undefined, confVars>>

\* Mutant: ~ThreadPool does not join its threads (it detaches them).
JoinPoolNot ==
  /\ Destroying({"pool"})
  /\ phase = "joining"
  /\ phase' = "destroyed"
  /\ members' = {}
  /\ UNCHANGED <<numTasks, handlers, stopped, submitting, running, stage, future>>
  /\ UNCHANGED <<isStartedUp, isDestroyed, inst, main, got, undefined, confVars>>

JoinPool ==
  /\ Destroying({"pool"})
  /\ Pool!JoinAndDestroy
  /\ members' = {}
  /\ UNCHANGED <<isStartedUp, isDestroyed, inst, main, got, undefined, confVars>>

\* The exception leaves startUp.
EndUnwinding ==
  /\ main = "unwinding"
  /\ members = {}
  /\ main' = "out"
  /\ UNCHANGED <<poolVars, isStartedUp, isDestroyed, inst, members, got, undefined, confVars>>

EndShutDown ==
  /\ main = "stopping"
  /\ members = {}
  /\ isDestroyed' = TRUE
  /\ main' = "out"
  /\ UNCHANGED <<poolVars, isStartedUp, inst, members, got, undefined, confVars>>

-----------------------------------------------------------------------------
StartUpStep ==
  /\ ~undefined
  /\ \/ ConstructPool \/ ConstructEventSystem \/ ConstructFileSystem \/ ConstructorThrows
     \/ ConstructorInitsLog \/ InitLogThrows \/ ConstructorSetsFilter \/ SetFilterThrows \/ Publish

TearDownStep ==
  /\ ~undefined
  /\ \/ DestroyFileSystem \/ DestroyEventSystem \/ StopPool \/ JoinPool
     \/ EndUnwinding \/ EndShutDown

OwnerStep == ~undefined /\ (BeginShutDown \/ \E conf \in Configs : BeginStartUp(conf))

CallStep(th) ==
  ~undefined /\ (CheckFlags(th) \/ UseWhatIsGone(th) \/ \E t \in Tasks : SubmitThroughCore(th, t))

ReturnStep(th) == ~undefined /\ (ReadInstance(th) \/ PostThroughCore(th) \/ DropReference(th))

RunStep(w) == ~undefined /\ WorkerRuns(w)

TaskEndStep(w) == ~undefined /\ TaskEnds(w)

Undefined == undefined /\ UNCHANGED vars

Next == \/ OwnerStep \/ StartUpStep \/ TearDownStep
        \/ \E th \in Threads : CallStep(th) \/ ReturnStep(th)
        \/ \E w \in Workers : RunStep(w) \/ TaskEndStep(w)
        \/ Undefined

(* Threads are scheduled, and a task returns or throws in the end, however   *)
(* often it calls instance() before (strong fairness: between two calls it   *)
(* can end).  Nothing obliges the main thread to start the Core up or to     *)
(* shut it down.                                                             *)
Fairness == /\ WF_vars(StartUpStep)
            /\ WF_vars(TearDownStep)
            /\ \A th \in Threads : WF_vars(ReturnStep(th))
            /\ \A w \in Workers : WF_vars(RunStep(w)) /\ SF_vars(TaskEndStep(w))

Spec == Init /\ [][Next]_vars /\ Fairness

-----------------------------------------------------------------------------
(* Properties.                                                               *)

\* The types.
TypeOK ==
  /\ Pool!TypeOK
  /\ isStartedUp \in BOOLEAN
  /\ isDestroyed \in BOOLEAN
  /\ inst \in {"null", "core"}
  /\ members \subseteq AllMembers
  /\ main \in {"out", "starting", "logging", "made", "unwinding", "stopping"}
  /\ config \in Configs
  /\ g_output \in Kinds \cup {"all"}
  /\ g_sink \in [Kinds -> BOOLEAN]
  /\ sinks \in [Kinds -> Nat]
  /\ filter \in [Kinds -> Severities \cup {"none"}]
  /\ got \in [Threads -> {"nothing", "checked", "exception", "core", "null"}]
  /\ undefined \in BOOLEAN

(* The EventSystem keeps a reference to the ThreadPool: however startUp ends, *)
(* and as long as ~Core takes, the pool is there, and not yet stopped, while  *)
(* the EventSystem exists.                                                    *)
PoolOutlivesEventSystem == "events" \in members => "pool" \in members /\ phase = "alive"

(* isStarted() means what it says to the main thread.  When it is outside     *)
(* startUp and shutDown, either the module is started and a Core is there     *)
(* with all its members, logging once for each output that its own config     *)
(* names, from the severity it names, also when an earlier startUp threw with *)
(* the log half set up; or there is no Core, no member of one and no thread   *)
(* of a pool, also when the constructor threw with some members made, so that *)
(* a startUp that threw can be retried.                                       *)
StartedMeansComplete ==
  main = "out" =>
    IF isStartedUp /\ ~isDestroyed
    THEN /\ inst = "core" /\ members = AllMembers /\ phase = "alive"
         /\ LET kinds == KindsOf(ConvertStrToOutput(config.output)) IN
              /\ sinks = [k \in Kinds |-> One(k \in kinds)]
              /\ \A k \in kinds : filter[k] = ConvertStrToSeverity(config.severity)
    ELSE /\ inst = "null" /\ members = {} /\ phase = "destroyed"
         /\ Pool!DestroyedPoolIsQuiet

(* A task may submit through a reference to the Core at any moment, also      *)
(* while ~Core is at work: as long as any thread has such a reference the     *)
(* pool exists, and the main thread, which may use all members, has one only  *)
(* while all exist.  (The other members may be gone before a task's use of    *)
(* them: UseWhatIsGone.)                                                      *)
PoolOutlivesReferences ==
  \A th \in Threads : got[th] = "core" =>
    /\ "pool" \in members /\ phase # "destroyed"
    /\ th = MainThread => members = AllMembers

(* shutDown returns whatever the pool still has queued or running, and a      *)
(* startUp that throws gets as far as throwing, unless a task uses a part of  *)
(* the Core that is already gone.                                             *)
TearDownTerminates == main \in {"unwinding", "stopping"} ~> main = "out" \/ undefined

(* module.h:17-20: "Returns a reference to the module instance. Module has to *)
(* have been started up first otherwise an exception will be thrown."  A call *)
(* that does not throw returns the instance.                                  *)
InstanceReturnsTheCore == \A th \in Threads : got[th] # "null"

=============================================================================
