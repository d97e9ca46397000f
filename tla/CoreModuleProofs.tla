--------------------------- MODULE CoreModuleProofs ---------------------------
(***************************************************************************)
(* Theorems of CoreModule.tla, for every set of workers, tasks and         *)
(* configurations.  The pool inside the Core keeps the inductive invariant *)
(* of ThreadPoolProofs.tla, whose lemmas are used here, one per action of  *)
(* the pool; what is added is where the main thread stands in startUp and  *)
(* shutDown, and what then exists.                                         *)
(***************************************************************************)
EXTENDS CoreModule, TLAPS

PoolProofs == INSTANCE ThreadPoolProofs WITH Clients <- {MainThread}

-----------------------------------------------------------------------------
(* The inductive invariant.                                                  *)

(* The types of what CoreModule adds to the pool. *)
Types ==
  /\ isStartedUp \in BOOLEAN
  /\ isDestroyed \in BOOLEAN
  /\ inst \in {"null", "core"}
  /\ members \subseteq AllMembers
  /\ main \in {"out", "starting", "logging", "made", "unwinding", "stopping"}
  /\ config \in Configs
  /\ g_output \in Kinds \cup {"all"}
  /\ g_sink \in [Kinds -> BOOLEAN]
  /\ sinks \in [Kinds -> Nat]
  /\ filter \in [Kinds -> Severities \cup {"none"}]
  /\ got \in [Threads -> {"nothing", "checked", "exception", "core", "null"}]
  /\ undefined \in BOOLEAN

Available == isStartedUp /\ ~isDestroyed

(* Where the main thread is decides which flags are set, whether the pointer *)
(* is, and which members can exist: they come and go in one order.           *)
Lifecycle ==
  /\ main = "out" /\ Available => inst = "core" /\ members = AllMembers
  /\ main = "out" /\ ~Available => inst = "null" /\ members = {}
  /\ main \in {"starting", "logging", "made", "unwinding"} => ~isStartedUp /\ inst = "null"
  /\ members \in {{}, {"pool"}, {"pool", "events"}, AllMembers}
  /\ main \in {"logging", "made"} => members = AllMembers
  /\ main = "stopping" => Available /\ inst = "null"
  /\ isDestroyed => isStartedUp

(* The pool is stopped only when it is the last member left, and it is gone  *)
(* when no member is.                                                        *)
PoolEndsLast ==
  /\ phase # "alive" => members \subseteq {"pool"}
  /\ phase = "joining" => main \in {"unwinding", "stopping"}
  /\ members = {} <=> phase = "destroyed"

(* The logging core has the sinks that the two pointers know and no other:   *)
(* what the next InitBoostLog will take out.                                 *)
SinksAreKnown == \A k \in Kinds : sinks[k] = One(g_sink[k])

SinksAsConfigured == \A k \in Kinds : g_sink[k] <=> k \in KindsOf(ConvertStrToOutput(config.output))

(* The constructor's two steps on the log, the second building on the first. *)
LogSetUp ==
  /\ main = "logging" => SinksAsConfigured /\ g_output = ConvertStrToOutput(config.output)
  /\ main = "made" \/ (main = "out" /\ Available) =>
       /\ SinksAsConfigured
       /\ \A k \in KindsOf(ConvertStrToOutput(config.output)) :
            filter[k] = ConvertStrToSeverity(config.severity)

(* Before the flag is set nobody has the reference through which tasks reach *)
(* the pool, so it never had a task.                                         *)
IdleBeforeStart ==
  ~isStartedUp => /\ handlers = <<>>
                  /\ \A th \in Threads : submitting[th] = NoTask /\ got[th] \notin {"checked", "core"}
                  /\ \A w \in Workers : stage[w] \in {"idle", "exited"}
                  /\ \A t \in Tasks : future[t] = "none"

(* A worker uses instance() only inside a task, the main thread only outside *)
(* of startUp and shutDown, and then its Core is complete.                   *)
Callers ==
  /\ \A w \in Workers : got[w] # "nothing" => stage[w] = "calling"
  /\ got[MainThread] # "nothing" => main = "out"
  /\ got[MainThread] = "core" => members = AllMembers

IInv == /\ PoolProofs!IInv
        /\ Types /\ Lifecycle /\ PoolEndsLast /\ SinksAreKnown /\ LogSetUp
        /\ IdleBeforeStart /\ Callers

-----------------------------------------------------------------------------
(* The pool inside the Core: its assumption, and its lemmas for the actions  *)
(* of it that are part of the Core's.                                        *)

LEMMA PoolAssumption ==
  {MainThread} \cap Workers = {} /\ PoolProofs!IsFiniteSet(Tasks) /\ NoTask \notin Tasks
<1>1. PoolProofs!IsFiniteSet(Tasks)
  BY CoreModuleAssumption DEF IsFiniteSet, PoolProofs!IsFiniteSet
<1> QED BY <1>1, CoreModuleAssumption

(* What the pool's invariant says that the Core's steps rest on. *)
LEMMA PoolFacts ==
  ASSUME PoolProofs!IInv
  PROVE  /\ Pool!TypeOK
         /\ Pool!DestroyedPoolIsQuiet
         /\ submitting \in [Threads -> Tasks \cup {NoTask}]
         /\ stage \in [Workers -> {"idle", "calling", "counted", "exited"}]
         /\ phase \in {"alive", "joining", "destroyed"}
<1>1. PoolProofs!TypeOK /\ PoolProofs!DestroyedPoolIsQuiet
  BY PoolAssumption, PoolProofs!IInvTypeOK, PoolProofs!IInvQuiet
<1>2. Pool!TypeOK /\ Pool!DestroyedPoolIsQuiet
  BY <1>1 DEF PoolProofs!TypeOK, Pool!TypeOK, PoolProofs!Threads, Pool!Threads,
              PoolProofs!Stages, Pool!Stages, PoolProofs!Shared, Pool!Shared,
              PoolProofs!Phases, Pool!Phases,
              PoolProofs!DestroyedPoolIsQuiet, Pool!DestroyedPoolIsQuiet
<1> QED BY <1>2 DEF Pool!TypeOK, Pool!Threads, Pool!Stages, Pool!Phases, Threads

LEMMA PoolIsNot ==
  ASSUME NoPool
  PROVE  PoolProofs!IInv
<1>1. PoolProofs!UnusedAndGone
  BY DEF NoPool, PoolProofs!UnusedAndGone, Threads, PoolProofs!Threads
<1> QED BY <1>1, PoolAssumption, PoolProofs!GoneIInv

LEMMA PoolInit == PoolProofs!Init => PoolProofs!IInv
BY PoolAssumption, PoolProofs!InitIInv

LEMMA PoolStarts ==
  ASSUME IdleBeforeStart, ~isStartedUp, PoolProofs!IInv, NewPool
  PROVE  PoolProofs!IInv'
<1>1. future = [t \in Tasks |-> "none"]
  <2>1. future \in [Tasks -> {"none", "pending", "value", "exception", "broken"}]
    BY PoolFacts DEF Pool!TypeOK, Pool!Shared
  <2> QED BY <2>1 DEF IdleBeforeStart
<1>2. PoolProofs!Init'
  BY <1>1 DEF NewPool, PoolProofs!Init, Threads, PoolProofs!Threads
<1> QED BY <1>2, PoolInit, PTL

LEMMA PoolSubmits ==
  ASSUME PoolProofs!IInv, NEW th \in Threads
  PROVE  /\ \A t \in Tasks : Pool!SubmitCount(th, t) => PoolProofs!IInv'
         /\ Pool!SubmitPost(th) => PoolProofs!IInv'
<1>0. th \in PoolProofs!Threads
  BY DEF Threads, PoolProofs!Threads
<1>1. ASSUME NEW t \in Tasks, Pool!SubmitCount(th, t) PROVE PoolProofs!IInv'
  <2>1. PoolProofs!SubmitCount(th, t)
    BY <1>1 DEF Pool!SubmitCount, PoolProofs!SubmitCount, Pool!MaySubmit, PoolProofs!MaySubmit
  <2> QED BY <1>0, <2>1, PoolAssumption, PoolProofs!SubmitCountIInv
<1>2. ASSUME Pool!SubmitPost(th) PROVE PoolProofs!IInv'
  <2>1. PoolProofs!SubmitPost(th)
    BY <1>2 DEF Pool!SubmitPost, PoolProofs!SubmitPost
  <2> QED BY <1>0, <2>1, PoolAssumption, PoolProofs!SubmitPostIInv
<1> QED BY <1>1, <1>2

LEMMA PoolRuns ==
  ASSUME PoolProofs!IInv, NEW w \in Workers
  PROVE  /\ Pool!StartTask(w) => PoolProofs!IInv'
         /\ Pool!SetValue(w)  => PoolProofs!IInv'
         /\ Pool!LeaveRun(w)  => PoolProofs!IInv'
         /\ Pool!Return(w)    => PoolProofs!IInv'
         /\ Pool!Throw(w)     => PoolProofs!IInv'
<1>1. ASSUME Pool!StartTask(w) PROVE PoolProofs!IInv'
  <2>1. PoolProofs!StartTask(w)
    BY <1>1 DEF Pool!StartTask, PoolProofs!StartTask
  <2> QED BY <2>1, PoolAssumption, PoolProofs!StartTaskIInv
<1>2. ASSUME Pool!SetValue(w) PROVE PoolProofs!IInv'
  <2>1. PoolProofs!SetValue(w)
    BY <1>2 DEF Pool!SetValue, PoolProofs!SetValue, Pool!Settle, PoolProofs!Settle
  <2> QED BY <2>1, PoolAssumption, PoolProofs!SetValueIInv
<1>3. ASSUME Pool!LeaveRun(w) PROVE PoolProofs!IInv'
  <2>1. PoolProofs!LeaveRun(w)
    BY <1>3 DEF Pool!LeaveRun, PoolProofs!LeaveRun
  <2> QED BY <2>1, PoolAssumption, PoolProofs!LeaveRunIInv
<1>4. ASSUME Pool!Return(w) PROVE PoolProofs!IInv'
  <2>1. PoolProofs!Return(w)
    BY <1>4 DEF Pool!Return, PoolProofs!Return, Pool!InCall, PoolProofs!InCall
  <2> QED BY <2>1, PoolAssumption, PoolProofs!ReturnIInv
<1>5. ASSUME Pool!Throw(w) PROVE PoolProofs!IInv'
  <2>1. PoolProofs!Throw(w)
    BY <1>5 DEF Pool!Throw, PoolProofs!Throw, Pool!InCall, PoolProofs!InCall, Pool!Settle, PoolProofs!Settle
  <2> QED BY <2>1, PoolAssumption, PoolProofs!ThrowIInv
<1> QED BY <1>1, <1>2, <1>3, <1>4, <1>5

LEMMA PoolEnds ==
  ASSUME PoolProofs!IInv
  PROVE  /\ Pool!BeginDestroy   => PoolProofs!IInv'
         /\ Pool!JoinAndDestroy => PoolProofs!IInv'
<1>1. ASSUME Pool!BeginDestroy PROVE PoolProofs!IInv'
  <2>1. PoolProofs!BeginDestroy
    BY <1>1 DEF Pool!BeginDestroy, PoolProofs!BeginDestroy
  <2> QED BY <2>1, PoolAssumption, PoolProofs!BeginDestroyIInv
<1>2. ASSUME Pool!JoinAndDestroy PROVE PoolProofs!IInv'
  <2>1. PoolProofs!JoinAndDestroy
    BY <1>2 DEF Pool!JoinAndDestroy, PoolProofs!JoinAndDestroy, Pool!InQueue, PoolProofs!InQueue
  <2> QED BY <2>1, PoolAssumption, PoolProofs!JoinAndDestroyIInv
<1> QED BY <1>1, <1>2

LEMMA PoolRests ==
  ASSUME PoolProofs!IInv, UNCHANGED poolVars
  PROVE  PoolProofs!IInv'
<1>1. UNCHANGED PoolProofs!vars
  BY DEF poolVars, PoolProofs!vars
<1> QED BY <1>1, PoolAssumption, PoolProofs!StutterIInv

-----------------------------------------------------------------------------
(* Each step preserves the inductive invariant.                              *)

LEMMA InitIInv == Init => IInv
<1> SUFFICES ASSUME Init PROVE IInv
  OBVIOUS
<1>1. PoolProofs!IInv
  BY PoolIsNot DEF Init
<1>2. Types
  BY DEF Init, LogInit, Types, Kinds
<1>3. Lifecycle /\ PoolEndsLast /\ SinksAreKnown /\ LogSetUp
  BY DEF Init, LogInit, NoPool, Lifecycle, Available, PoolEndsLast, SinksAreKnown, One, LogSetUp
<1>4. IdleBeforeStart /\ Callers
  BY DEF Init, NoPool, IdleBeforeStart, Callers, Threads
<1> QED BY <1>1, <1>2, <1>3, <1>4 DEF IInv

LEMMA BeginStartUpIInv ==
  ASSUME IInv, NEW conf \in Configs, BeginStartUp(conf)
  PROVE  IInv'
<1> USE DEF IInv
<1>1. PoolProofs!IInv'
  BY PoolRests DEF BeginStartUp
<1>2. Types'
  BY DEF Types, AllMembers, confVars, logVars, BeginStartUp
<1>3. Lifecycle'
  BY DEF Types, Lifecycle, Available, AllMembers, BeginStartUp
<1>4. PoolEndsLast'
  BY DEF Types, Lifecycle, PoolEndsLast, Available, AllMembers, poolVars, BeginStartUp
<1>5. SinksAreKnown' /\ LogSetUp'
  BY DEF Types, Lifecycle, SinksAreKnown, LogSetUp, SinksAsConfigured, Available, confVars, logVars, BeginStartUp
<1>6. IdleBeforeStart'
  BY DEF Types, IdleBeforeStart, poolVars, BeginStartUp
<1>7. Callers'
  BY DEF Types, Lifecycle, Available, Callers, poolVars, BeginStartUp
<1> QED BY <1>1, <1>2, <1>3, <1>4, <1>5, <1>6, <1>7

LEMMA ConstructPoolIInv ==
  ASSUME IInv, ConstructPool
  PROVE  IInv'
<1> USE DEF IInv
<1>1. PoolProofs!IInv'
  BY PoolStarts DEF ConstructPool, Constructing, Lifecycle
<1>2. Types'
  BY DEF Types, AllMembers, confVars, logVars, ConstructPool, Constructing
<1>3. Lifecycle'
  BY PoolFacts, CoreModuleAssumption DEF Types, Lifecycle, Available, AllMembers, ConstructPool, Constructing
<1>4. PoolEndsLast'
  BY PoolFacts, CoreModuleAssumption DEF Types, Lifecycle, PoolEndsLast, Available, AllMembers, poolVars, ConstructPool, Constructing, NewPool
<1>5. SinksAreKnown' /\ LogSetUp'
  BY DEF Types, Lifecycle, SinksAreKnown, LogSetUp, SinksAsConfigured, Available, confVars, logVars, ConstructPool, Constructing
<1>6. IdleBeforeStart'
  BY PoolFacts, CoreModuleAssumption DEF Types, IdleBeforeStart, poolVars, ConstructPool, Constructing, NewPool
<1>7. Callers'
  <2>1. \A w \in Workers : got[w] = "nothing"
    BY PoolFacts DEF Callers, PoolEndsLast, ConstructPool, Constructing, Pool!DestroyedPoolIsQuiet
  <2> QED BY <2>1 DEF Types, Callers, ConstructPool, Constructing
<1> QED BY <1>1, <1>2, <1>3, <1>4, <1>5, <1>6, <1>7

LEMMA ConstructEventSystemIInv ==
  ASSUME IInv, ConstructEventSystem
  PROVE  IInv'
<1> USE DEF IInv
<1>1. PoolProofs!IInv'
  BY PoolRests DEF ConstructEventSystem
<1>2. Types'
  BY DEF Types, AllMembers, confVars, logVars, ConstructEventSystem, Constructing
<1>3. Lifecycle'
  BY DEF Types, Lifecycle, Available, AllMembers, ConstructEventSystem, Constructing
<1>4. PoolEndsLast'
  BY PoolFacts DEF Types, Lifecycle, PoolEndsLast, Available, AllMembers, poolVars, ConstructEventSystem, Constructing
<1>5. SinksAreKnown' /\ LogSetUp'
  BY DEF Types, Lifecycle, SinksAreKnown, LogSetUp, SinksAsConfigured, Available, confVars, logVars, ConstructEventSystem, Constructing
<1>6. IdleBeforeStart'
  BY DEF Types, IdleBeforeStart, poolVars, ConstructEventSystem, Constructing
<1>7. Callers'
  BY DEF Types, Lifecycle, Available, Callers, poolVars, ConstructEventSystem, Constructing
<1> QED BY <1>1, <1>2, <1>3, <1>4, <1>5, <1>6, <1>7

LEMMA ConstructFileSystemIInv ==
  ASSUME IInv, ConstructFileSystem
  PROVE  IInv'
<1> USE DEF IInv
<1>1. PoolProofs!IInv'
  BY PoolRests DEF ConstructFileSystem
<1>2. Types'
  BY DEF Types, AllMembers, confVars, logVars, ConstructFileSystem, Constructing
<1>3. Lifecycle'
  BY DEF Types, Lifecycle, Available, AllMembers, ConstructFileSystem, Constructing
<1>4. PoolEndsLast'
  BY PoolFacts DEF Types, Lifecycle, PoolEndsLast, Available, AllMembers, poolVars, ConstructFileSystem, Constructing
<1>5. SinksAreKnown' /\ LogSetUp'
  BY DEF Types, Lifecycle, SinksAreKnown, LogSetUp, SinksAsConfigured, Available, confVars, logVars, ConstructFileSystem, Constructing
<1>6. IdleBeforeStart'
  BY DEF Types, IdleBeforeStart, poolVars, ConstructFileSystem, Constructing
<1>7. Callers'
  BY DEF Types, Lifecycle, Available, Callers, poolVars, ConstructFileSystem, Constructing
<1> QED BY <1>1, <1>2, <1>3, <1>4, <1>5, <1>6, <1>7

LEMMA ConstructorThrowsIInv ==
  ASSUME IInv, ConstructorThrows
  PROVE  IInv'
<1> USE DEF IInv
<1>1. PoolProofs!IInv'
  BY PoolRests DEF ConstructorThrows
<1>2. Types'
  BY DEF Types, AllMembers, confVars, logVars, ConstructorThrows
<1>3. Lifecycle'
  BY DEF Types, Lifecycle, Available, AllMembers, ConstructorThrows
<1>4. PoolEndsLast'
  BY DEF Types, Lifecycle, PoolEndsLast, Available, AllMembers, poolVars, ConstructorThrows
<1>5. SinksAreKnown' /\ LogSetUp'
  BY DEF Types, Lifecycle, SinksAreKnown, LogSetUp, SinksAsConfigured, Available, confVars, logVars, ConstructorThrows
<1>6. IdleBeforeStart'
  BY DEF Types, IdleBeforeStart, poolVars, ConstructorThrows
<1>7. Callers'
  BY DEF Types, Lifecycle, Available, Callers, poolVars, ConstructorThrows
<1> QED BY <1>1, <1>2, <1>3, <1>4, <1>5, <1>6, <1>7

(* What the renewal of the sinks leaves. *)
Renewed(output, made) ==
  /\ g_output' = output
  /\ g_sink' \in [Kinds -> BOOLEAN]
  /\ sinks' \in [Kinds -> Nat]
  /\ filter' \in [Kinds -> Severities \cup {"none"}]
  /\ SinksAreKnown'
  /\ \A k \in Kinds : g_sink'[k] <=> k \in made

LEMMA RenewRenews ==
  ASSUME Types, SinksAreKnown, NEW output, NEW made, Renew(output, made)
  PROVE  Renewed(output, made)
<1>1. \A k \in Kinds : g_sink'[k] <=> k \in made
  BY DEF Renew
<1>2. \A k \in Kinds : sinks'[k] = One(g_sink'[k])
  <2> SUFFICES ASSUME NEW k \in Kinds PROVE sinks'[k] = One(g_sink'[k])
    OBVIOUS
  <2>1. sinks'[k] = sinks[k] - One(g_sink[k]) + One(k \in made) /\ sinks[k] = One(g_sink[k])
    BY DEF Renew, SinksAreKnown
  <2>2. One(g_sink[k]) \in Nat /\ One(k \in made) \in Nat /\ One(g_sink'[k]) = One(k \in made)
    BY <1>1 DEF One
  <2> QED BY <2>1, <2>2
<1>3. sinks' \in [Kinds -> Nat]
  <2>1. \A k \in Kinds : sinks'[k] \in Nat
    BY <1>2 DEF One
  <2> QED BY <2>1 DEF Renew
<1>4. g_sink' \in [Kinds -> BOOLEAN] /\ filter' \in [Kinds -> Severities \cup {"none"}]
  BY DEF Types, Renew
<1> QED BY <1>1, <1>2, <1>3, <1>4 DEF Renewed, SinksAreKnown, Renew

LEMMA ConstructorInitsLogIInv ==
  ASSUME IInv, ConstructorInitsLog
  PROVE  IInv'
<1> USE DEF IInv
<1>1. PoolProofs!IInv'
  BY PoolRests DEF ConstructorInitsLog
<1>0. Renewed(ConvertStrToOutput(config.output), KindsOf(ConvertStrToOutput(config.output)))
  BY RenewRenews DEF ConstructorInitsLog, InitBoostLog
<1>2. Types'
  BY <1>0 DEF Types, Renewed, ConvertStrToOutput, Kinds, ConstructorInitsLog
<1>3. Lifecycle'
  BY DEF Types, Lifecycle, Available, AllMembers, ConstructorInitsLog
<1>4. PoolEndsLast'
  BY DEF Types, Lifecycle, PoolEndsLast, Available, AllMembers, poolVars, ConstructorInitsLog
<1>5. SinksAreKnown' /\ LogSetUp'
  BY <1>0 DEF Renewed, Lifecycle, LogSetUp, SinksAsConfigured, Available, KindsOf, ConstructorInitsLog
<1>6. IdleBeforeStart'
  BY DEF Types, IdleBeforeStart, poolVars, ConstructorInitsLog
<1>7. Callers'
  BY DEF Types, Lifecycle, Available, Callers, poolVars, ConstructorInitsLog
<1> QED BY <1>1, <1>2, <1>3, <1>4, <1>5, <1>6, <1>7

LEMMA InitLogThrowsIInv ==
  ASSUME IInv, InitLogThrows
  PROVE  IInv'
<1> USE DEF IInv
<1>1. PoolProofs!IInv'
  BY PoolRests DEF InitLogThrows
<1>0. \E made : Renewed(ConvertStrToOutput(config.output), made)
  BY RenewRenews DEF InitLogThrows, InitBoostLogThrows
<1>2. Types'
  BY <1>0 DEF Types, Renewed, ConvertStrToOutput, Kinds, InitLogThrows
<1>3. Lifecycle'
  BY DEF Types, Lifecycle, Available, AllMembers, InitLogThrows
<1>4. PoolEndsLast'
  BY DEF Types, Lifecycle, PoolEndsLast, Available, AllMembers, poolVars, InitLogThrows
<1>5. SinksAreKnown' /\ LogSetUp'
  BY <1>0 DEF Renewed, Lifecycle, LogSetUp, SinksAsConfigured, Available, KindsOf, InitLogThrows
<1>6. IdleBeforeStart'
  BY DEF Types, IdleBeforeStart, poolVars, InitLogThrows
<1>7. Callers'
  BY DEF Types, Lifecycle, Available, Callers, poolVars, InitLogThrows
<1> QED BY <1>1, <1>2, <1>3, <1>4, <1>5, <1>6, <1>7

LEMMA ConstructorSetsFilterIInv ==
  ASSUME IInv, ConstructorSetsFilter
  PROVE  IInv'
<1> USE DEF IInv
<1>1. PoolProofs!IInv'
  BY PoolRests DEF ConstructorSetsFilter
<1>2. Types'
  BY DEF Types, AllMembers, ConstructorSetsFilter, SetSeverityFilter, Filters, KindsOf, ConvertStrToSeverity, Severities
<1>3. Lifecycle'
  BY DEF Types, Lifecycle, Available, AllMembers, ConstructorSetsFilter
<1>4. PoolEndsLast'
  BY DEF Types, Lifecycle, PoolEndsLast, Available, AllMembers, poolVars, ConstructorSetsFilter
<1>5. SinksAreKnown' /\ LogSetUp'
  BY DEF Types, Lifecycle, SinksAreKnown, LogSetUp, SinksAsConfigured, Available, ConstructorSetsFilter, SetSeverityFilter, Filters, KindsOf, ConvertStrToSeverity, Severities
<1>6. IdleBeforeStart'
  BY DEF Types, IdleBeforeStart, poolVars, ConstructorSetsFilter
<1>7. Callers'
  BY DEF Types, Lifecycle, Available, Callers, poolVars, ConstructorSetsFilter
<1> QED BY <1>1, <1>2, <1>3, <1>4, <1>5, <1>6, <1>7

LEMMA SetFilterThrowsIInv ==
  ASSUME IInv, SetFilterThrows
  PROVE  IInv'
<1> USE DEF IInv
<1>1. PoolProofs!IInv'
  BY PoolRests DEF SetFilterThrows
<1>2. Types'
  BY DEF Types, AllMembers, SetFilterThrows, SetSeverityFilterThrows, Filters, KindsOf, ConvertStrToSeverity, Severities
<1>3. Lifecycle'
  BY DEF Types, Lifecycle, Available, AllMembers, SetFilterThrows
<1>4. PoolEndsLast'
  BY DEF Types, Lifecycle, PoolEndsLast, Available, AllMembers, poolVars, SetFilterThrows
<1>5. SinksAreKnown' /\ LogSetUp'
  BY DEF Types, Lifecycle, SinksAreKnown, LogSetUp, SinksAsConfigured, Available, SetFilterThrows, SetSeverityFilterThrows, Filters, KindsOf, ConvertStrToSeverity, Severities
<1>6. IdleBeforeStart'
  BY DEF Types, IdleBeforeStart, poolVars, SetFilterThrows
<1>7. Callers'
  BY DEF Types, Lifecycle, Available, Callers, poolVars, SetFilterThrows
<1> QED BY <1>1, <1>2, <1>3, <1>4, <1>5, <1>6, <1>7

LEMMA PublishIInv ==
  ASSUME IInv, Publish
  PROVE  IInv'
<1> USE DEF IInv
<1>1. PoolProofs!IInv'
  BY PoolRests DEF Publish
<1>2. Types'
  BY DEF Types, AllMembers, confVars, logVars, Publish
<1>3. Lifecycle'
  BY DEF Types, Lifecycle, Available, AllMembers, Publish
<1>4. PoolEndsLast'
  BY DEF Types, Lifecycle, PoolEndsLast, Available, AllMembers, poolVars, Publish
<1>5. SinksAreKnown' /\ LogSetUp'
  BY DEF Types, Lifecycle, SinksAreKnown, LogSetUp, SinksAsConfigured, Available, confVars, logVars, Publish
<1>6. IdleBeforeStart'
  BY DEF Types, IdleBeforeStart, poolVars, Publish
<1>7. Callers'
  BY DEF Types, Lifecycle, Available, Callers, poolVars, Publish
<1> QED BY <1>1, <1>2, <1>3, <1>4, <1>5, <1>6, <1>7

LEMMA CheckFlagsIInv ==
  ASSUME IInv, NEW th \in Threads, CheckFlags(th)
  PROVE  IInv'
<1> USE DEF IInv
<1>1. PoolProofs!IInv'
  BY PoolRests DEF CheckFlags
<1>2. Types'
  BY DEF Types, AllMembers, confVars, logVars, CheckFlags, MayCall, Pool!InCall
<1>3. Lifecycle'
  BY CoreModuleAssumption DEF Types, Lifecycle, Available, AllMembers, CheckFlags, MayCall, Pool!InCall
<1>4. PoolEndsLast'
  BY CoreModuleAssumption DEF Types, Lifecycle, PoolEndsLast, Available, AllMembers, poolVars, CheckFlags, MayCall, Pool!InCall
<1>5. SinksAreKnown' /\ LogSetUp'
  BY DEF Types, Lifecycle, SinksAreKnown, LogSetUp, SinksAsConfigured, Available, confVars, logVars, CheckFlags, MayCall, Pool!InCall
<1>6. IdleBeforeStart'
  BY CoreModuleAssumption DEF Types, IdleBeforeStart, poolVars, CheckFlags, MayCall, Pool!InCall
<1>7. Callers'
  BY CoreModuleAssumption DEF Types, Lifecycle, Available, Callers, poolVars, CheckFlags, MayCall, Pool!InCall
<1> QED BY <1>1, <1>2, <1>3, <1>4, <1>5, <1>6, <1>7

LEMMA ReadInstanceIInv ==
  ASSUME IInv, NEW th \in Threads, ReadInstance(th)
  PROVE  IInv'
<1> USE DEF IInv
<1>1. PoolProofs!IInv'
  BY PoolRests DEF ReadInstance
<1>2. Types'
  BY DEF Types, AllMembers, confVars, logVars, ReadInstance
<1>3. Lifecycle'
  BY DEF Types, Lifecycle, Available, AllMembers, ReadInstance
<1>4. PoolEndsLast'
  BY DEF Types, Lifecycle, PoolEndsLast, Available, AllMembers, poolVars, ReadInstance
<1>5. SinksAreKnown' /\ LogSetUp'
  BY DEF Types, Lifecycle, SinksAreKnown, LogSetUp, SinksAsConfigured, Available, confVars, logVars, ReadInstance
<1>6. IdleBeforeStart'
  BY DEF Types, IdleBeforeStart, poolVars, ReadInstance
<1>7. Callers'
  BY DEF Types, Lifecycle, Available, Callers, poolVars, ReadInstance
<1> QED BY <1>1, <1>2, <1>3, <1>4, <1>5, <1>6, <1>7

LEMMA DropReferenceIInv ==
  ASSUME IInv, NEW th \in Threads, DropReference(th)
  PROVE  IInv'
<1> USE DEF IInv
<1>1. PoolProofs!IInv'
  BY PoolRests DEF DropReference
<1>2. Types'
  BY DEF Types, AllMembers, confVars, logVars, DropReference
<1>3. Lifecycle'
  BY DEF Types, Lifecycle, Available, AllMembers, DropReference
<1>4. PoolEndsLast'
  BY DEF Types, Lifecycle, PoolEndsLast, Available, AllMembers, poolVars, DropReference
<1>5. SinksAreKnown' /\ LogSetUp'
  BY DEF Types, Lifecycle, SinksAreKnown, LogSetUp, SinksAsConfigured, Available, confVars, logVars, DropReference
<1>6. IdleBeforeStart'
  BY DEF Types, IdleBeforeStart, poolVars, DropReference
<1>7. Callers'
  BY DEF Types, Lifecycle, Available, Callers, poolVars, DropReference
<1> QED BY <1>1, <1>2, <1>3, <1>4, <1>5, <1>6, <1>7

LEMMA UseWhatIsGoneIInv ==
  ASSUME IInv, NEW th \in Threads, UseWhatIsGone(th)
  PROVE  IInv'
<1> USE DEF IInv
<1>1. PoolProofs!IInv'
  BY PoolRests DEF UseWhatIsGone
<1>2. Types'
  BY DEF Types, AllMembers, confVars, logVars, UseWhatIsGone
<1>3. Lifecycle'
  BY DEF Types, Lifecycle, Available, AllMembers, UseWhatIsGone
<1>4. PoolEndsLast'
  BY DEF Types, Lifecycle, PoolEndsLast, Available, AllMembers, poolVars, UseWhatIsGone
<1>5. SinksAreKnown' /\ LogSetUp'
  BY DEF Types, Lifecycle, SinksAreKnown, LogSetUp, SinksAsConfigured, Available, confVars, logVars, UseWhatIsGone
<1>6. IdleBeforeStart'
  BY DEF Types, IdleBeforeStart, poolVars, UseWhatIsGone
<1>7. Callers'
  BY DEF Types, Lifecycle, Available, Callers, poolVars, UseWhatIsGone
<1> QED BY <1>1, <1>2, <1>3, <1>4, <1>5, <1>6, <1>7

LEMMA BeginShutDownIInv ==
  ASSUME IInv, BeginShutDown
  PROVE  IInv'
<1> USE DEF IInv
<1>1. PoolProofs!IInv'
  BY PoolRests DEF BeginShutDown
<1>2. Types'
  BY DEF Types, AllMembers, confVars, logVars, BeginShutDown
<1>3. Lifecycle'
  BY DEF Types, Lifecycle, Available, AllMembers, BeginShutDown
<1>4. PoolEndsLast'
  BY DEF Types, Lifecycle, PoolEndsLast, Available, AllMembers, poolVars, BeginShutDown
<1>5. SinksAreKnown' /\ LogSetUp'
  BY DEF Types, Lifecycle, SinksAreKnown, LogSetUp, SinksAsConfigured, Available, confVars, logVars, BeginShutDown
<1>6. IdleBeforeStart'
  BY DEF Types, IdleBeforeStart, poolVars, BeginShutDown
<1>7. Callers'
  BY DEF Types, Lifecycle, Available, Callers, poolVars, BeginShutDown
<1> QED BY <1>1, <1>2, <1>3, <1>4, <1>5, <1>6, <1>7

LEMMA DestroyFileSystemIInv ==
  ASSUME IInv, DestroyFileSystem
  PROVE  IInv'
<1> USE DEF IInv
<1>1. PoolProofs!IInv'
  BY PoolRests DEF DestroyFileSystem, Destroy
<1>2. Types'
  BY DEF Types, AllMembers, confVars, logVars, DestroyFileSystem, Destroy, Destroying
<1>3. Lifecycle'
  BY DEF Types, Lifecycle, Available, AllMembers, DestroyFileSystem, Destroy, Destroying
<1>4. PoolEndsLast'
  BY DEF Types, Lifecycle, PoolEndsLast, Available, AllMembers, poolVars, DestroyFileSystem, Destroy, Destroying
<1>5. SinksAreKnown' /\ LogSetUp'
  BY DEF Types, Lifecycle, SinksAreKnown, LogSetUp, SinksAsConfigured, Available, confVars, logVars, DestroyFileSystem, Destroy, Destroying
<1>6. IdleBeforeStart'
  BY DEF Types, IdleBeforeStart, poolVars, DestroyFileSystem, Destroy, Destroying
<1>7. Callers'
  BY DEF Types, Lifecycle, Available, Callers, poolVars, DestroyFileSystem, Destroy, Destroying
<1> QED BY <1>1, <1>2, <1>3, <1>4, <1>5, <1>6, <1>7

LEMMA DestroyEventSystemIInv ==
  ASSUME IInv, DestroyEventSystem
  PROVE  IInv'
<1> USE DEF IInv
<1>1. PoolProofs!IInv'
  BY PoolRests DEF DestroyEventSystem, Destroy
<1>2. Types'
  BY DEF Types, AllMembers, confVars, logVars, DestroyEventSystem, Destroy, Destroying
<1>3. Lifecycle'
  BY DEF Types, Lifecycle, Available, AllMembers, DestroyEventSystem, Destroy, Destroying
<1>4. PoolEndsLast'
  BY DEF Types, Lifecycle, PoolEndsLast, Available, AllMembers, poolVars, DestroyEventSystem, Destroy, Destroying
<1>5. SinksAreKnown' /\ LogSetUp'
  BY DEF Types, Lifecycle, SinksAreKnown, LogSetUp, SinksAsConfigured, Available, confVars, logVars, DestroyEventSystem, Destroy, Destroying
<1>6. IdleBeforeStart'
  BY DEF Types, IdleBeforeStart, poolVars, DestroyEventSystem, Destroy, Destroying
<1>7. Callers'
  BY DEF Types, Lifecycle, Available, Callers, poolVars, DestroyEventSystem, Destroy, Destroying
<1> QED BY <1>1, <1>2, <1>3, <1>4, <1>5, <1>6, <1>7

LEMMA EndUnwindingIInv ==
  ASSUME IInv, EndUnwinding
  PROVE  IInv'
<1> USE DEF IInv
<1>1. PoolProofs!IInv'
  BY PoolRests DEF EndUnwinding
<1>2. Types'
  BY DEF Types, AllMembers, confVars, logVars, EndUnwinding
<1>3. Lifecycle'
  BY DEF Types, Lifecycle, Available, AllMembers, EndUnwinding
<1>4. PoolEndsLast'
  BY DEF Types, Lifecycle, PoolEndsLast, Available, AllMembers, poolVars, EndUnwinding
<1>5. SinksAreKnown' /\ LogSetUp'
  BY DEF Types, Lifecycle, SinksAreKnown, LogSetUp, SinksAsConfigured, Available, confVars, logVars, EndUnwinding
<1>6. IdleBeforeStart'
  BY DEF Types, IdleBeforeStart, poolVars, EndUnwinding
<1>7. Callers'
  BY DEF Types, Lifecycle, Available, Callers, poolVars, EndUnwinding
<1> QED BY <1>1, <1>2, <1>3, <1>4, <1>5, <1>6, <1>7

LEMMA EndShutDownIInv ==
  ASSUME IInv, EndShutDown
  PROVE  IInv'
<1> USE DEF IInv
<1>1. PoolProofs!IInv'
  BY PoolRests DEF EndShutDown
<1>2. Types'
  BY DEF Types, AllMembers, confVars, logVars, EndShutDown
<1>3. Lifecycle'
  BY DEF Types, Lifecycle, Available, AllMembers, EndShutDown
<1>4. PoolEndsLast'
  BY DEF Types, Lifecycle, PoolEndsLast, Available, AllMembers, poolVars, EndShutDown
<1>5. SinksAreKnown' /\ LogSetUp'
  BY DEF Types, Lifecycle, SinksAreKnown, LogSetUp, SinksAsConfigured, Available, confVars, logVars, EndShutDown
<1>6. IdleBeforeStart'
  BY DEF Types, IdleBeforeStart, poolVars, EndShutDown
<1>7. Callers'
  BY DEF Types, Lifecycle, Available, Callers, poolVars, EndShutDown
<1> QED BY <1>1, <1>2, <1>3, <1>4, <1>5, <1>6, <1>7

LEMMA SubmitThroughCoreIInv ==
  ASSUME IInv, NEW th \in Threads, NEW t \in Tasks, SubmitThroughCore(th, t)
  PROVE  IInv'
<1> USE DEF IInv
<1>1. PoolProofs!IInv'
  BY PoolSubmits DEF SubmitThroughCore
<1>2. Types'
  BY DEF Types, AllMembers, confVars, logVars, SubmitThroughCore
<1>3. Lifecycle'
  BY PoolFacts DEF Types, Lifecycle, Available, AllMembers, SubmitThroughCore
<1>4. PoolEndsLast'
  BY PoolFacts DEF Types, Lifecycle, PoolEndsLast, Available, AllMembers, poolVars, SubmitThroughCore, Pool!SubmitCount
<1>5. SinksAreKnown' /\ LogSetUp'
  BY DEF Types, Lifecycle, SinksAreKnown, LogSetUp, SinksAsConfigured, Available, confVars, logVars, SubmitThroughCore
<1>6. IdleBeforeStart'
  BY PoolFacts DEF Types, IdleBeforeStart, poolVars, SubmitThroughCore, Pool!SubmitCount
<1>7. Callers'
  BY PoolFacts DEF Types, Lifecycle, Available, Callers, poolVars, SubmitThroughCore, Pool!SubmitCount
<1> QED BY <1>1, <1>2, <1>3, <1>4, <1>5, <1>6, <1>7

LEMMA PostThroughCoreIInv ==
  ASSUME IInv, NEW th \in Threads, PostThroughCore(th)
  PROVE  IInv'
<1> USE DEF IInv
<1>1. PoolProofs!IInv'
  BY PoolSubmits DEF PostThroughCore
<1>2. Types'
  BY DEF Types, AllMembers, confVars, logVars, PostThroughCore
<1>3. Lifecycle'
  BY PoolFacts DEF Types, Lifecycle, Available, AllMembers, PostThroughCore
<1>4. PoolEndsLast'
  BY PoolFacts DEF Types, Lifecycle, PoolEndsLast, Available, AllMembers, poolVars, PostThroughCore, Pool!SubmitPost
<1>5. SinksAreKnown' /\ LogSetUp'
  BY DEF Types, Lifecycle, SinksAreKnown, LogSetUp, SinksAsConfigured, Available, confVars, logVars, PostThroughCore
<1>6. IdleBeforeStart'
  BY PoolFacts DEF Types, IdleBeforeStart, poolVars, PostThroughCore, Pool!SubmitPost
<1>7. Callers'
  BY PoolFacts DEF Types, Lifecycle, Available, Callers, poolVars, PostThroughCore, Pool!SubmitPost
<1> QED BY <1>1, <1>2, <1>3, <1>4, <1>5, <1>6, <1>7

LEMMA WorkerRunsIInv ==
  ASSUME IInv, NEW w \in Workers, WorkerRuns(w)
  PROVE  IInv'
<1> USE DEF IInv
<1>1. PoolProofs!IInv'
  BY PoolRuns DEF WorkerRuns
<1>2. Types'
  BY DEF Types, AllMembers, confVars, logVars, WorkerRuns
<1>3. Lifecycle'
  BY PoolFacts DEF Types, Lifecycle, Available, AllMembers, WorkerRuns
<1>4. PoolEndsLast'
  BY PoolFacts DEF Types, Lifecycle, PoolEndsLast, Available, AllMembers, poolVars, WorkerRuns, Pool!StartTask, Pool!SetValue, Pool!Settle, Pool!LeaveRun
<1>5. SinksAreKnown' /\ LogSetUp'
  BY DEF Types, Lifecycle, SinksAreKnown, LogSetUp, SinksAsConfigured, Available, confVars, logVars, WorkerRuns
<1>6. IdleBeforeStart'
  BY PoolFacts DEF Types, IdleBeforeStart, poolVars, WorkerRuns, Pool!StartTask, Pool!SetValue, Pool!Settle, Pool!LeaveRun
<1>7. Callers'
  BY PoolFacts DEF Types, Lifecycle, Available, Callers, poolVars, WorkerRuns, Pool!StartTask, Pool!SetValue, Pool!Settle, Pool!LeaveRun
<1> QED BY <1>1, <1>2, <1>3, <1>4, <1>5, <1>6, <1>7

LEMMA TaskEndsIInv ==
  ASSUME IInv, NEW w \in Workers, TaskEnds(w)
  PROVE  IInv'
<1> USE DEF IInv
<1>1. PoolProofs!IInv'
  BY PoolRuns DEF TaskEnds
<1>2. Types'
  BY DEF Types, AllMembers, confVars, logVars, TaskEnds
<1>3. Lifecycle'
  BY PoolFacts DEF Types, Lifecycle, Available, AllMembers, TaskEnds
<1>4. PoolEndsLast'
  BY PoolFacts DEF Types, Lifecycle, PoolEndsLast, Available, AllMembers, poolVars, TaskEnds, Pool!Return, Pool!Throw, Pool!InCall, Pool!Settle
<1>5. SinksAreKnown' /\ LogSetUp'
  BY DEF Types, Lifecycle, SinksAreKnown, LogSetUp, SinksAsConfigured, Available, confVars, logVars, TaskEnds
<1>6. IdleBeforeStart'
  BY PoolFacts DEF Types, IdleBeforeStart, poolVars, TaskEnds, Pool!Return, Pool!Throw, Pool!InCall, Pool!Settle
<1>7. Callers'
  BY PoolFacts DEF Types, Lifecycle, Available, Callers, poolVars, TaskEnds, Pool!Return, Pool!Throw, Pool!InCall, Pool!Settle
<1> QED BY <1>1, <1>2, <1>3, <1>4, <1>5, <1>6, <1>7

LEMMA StopPoolIInv ==
  ASSUME IInv, StopPool
  PROVE  IInv'
<1> USE DEF IInv
<1>1. PoolProofs!IInv'
  BY PoolEnds DEF StopPool
<1>2. Types'
  BY DEF Types, AllMembers, confVars, logVars, StopPool, Destroying
<1>3. Lifecycle'
  BY PoolFacts DEF Types, Lifecycle, Available, AllMembers, StopPool, Destroying
<1>4. PoolEndsLast'
  BY PoolFacts DEF Types, Lifecycle, PoolEndsLast, Available, AllMembers, poolVars, StopPool, Destroying, Pool!BeginDestroy
<1>5. SinksAreKnown' /\ LogSetUp'
  BY DEF Types, Lifecycle, SinksAreKnown, LogSetUp, SinksAsConfigured, Available, confVars, logVars, StopPool, Destroying
<1>6. IdleBeforeStart'
  BY PoolFacts DEF Types, IdleBeforeStart, poolVars, StopPool, Destroying, Pool!BeginDestroy
<1>7. Callers'
  BY PoolFacts DEF Types, Lifecycle, Available, Callers, poolVars, StopPool, Destroying, Pool!BeginDestroy
<1> QED BY <1>1, <1>2, <1>3, <1>4, <1>5, <1>6, <1>7

LEMMA JoinPoolIInv ==
  ASSUME IInv, JoinPool
  PROVE  IInv'
<1> USE DEF IInv
<1>1. PoolProofs!IInv'
  BY PoolEnds DEF JoinPool
<1>2. Types'
  BY DEF Types, AllMembers, confVars, logVars, JoinPool, Destroying
<1>3. Lifecycle'
  BY PoolFacts DEF Types, Lifecycle, Available, AllMembers, JoinPool, Destroying
<1>4. PoolEndsLast'
  BY PoolFacts DEF Types, Lifecycle, PoolEndsLast, Available, AllMembers, poolVars, JoinPool, Destroying, Pool!JoinAndDestroy, Pool!InQueue
<1>5. SinksAreKnown' /\ LogSetUp'
  BY DEF Types, Lifecycle, SinksAreKnown, LogSetUp, SinksAsConfigured, Available, confVars, logVars, JoinPool, Destroying
<1>6. IdleBeforeStart'
  BY PoolFacts DEF Types, IdleBeforeStart, poolVars, JoinPool, Destroying, Pool!JoinAndDestroy, Pool!InQueue
<1>7. Callers'
  BY PoolFacts DEF Types, Lifecycle, Available, Callers, poolVars, JoinPool, Destroying, Pool!JoinAndDestroy, Pool!InQueue
<1> QED BY <1>1, <1>2, <1>3, <1>4, <1>5, <1>6, <1>7

LEMMA StutterIInv ==
  ASSUME IInv, UNCHANGED vars
  PROVE  IInv'
<1> USE DEF IInv, vars
<1>1. PoolProofs!IInv'
  BY PoolRests
<1>2. Types' /\ Lifecycle' /\ PoolEndsLast'
  BY DEF Types, Lifecycle, PoolEndsLast, Available, poolVars, confVars, logVars
<1>3. SinksAreKnown' /\ LogSetUp'
  BY DEF SinksAreKnown, LogSetUp, SinksAsConfigured, Available, confVars, logVars
<1>4. IdleBeforeStart' /\ Callers'
  BY DEF IdleBeforeStart, Callers, poolVars
<1> QED BY <1>1, <1>2, <1>3, <1>4

(* What holds of the Core, its pool and its log in every reachable state.    *)
THEOREM InductiveInvariant == Spec => []IInv
<1>1. Init => IInv
  BY InitIInv
<1>2. IInv /\ [Next]_vars => IInv'
  <2> SUFFICES ASSUME IInv, [Next]_vars PROVE IInv'
    OBVIOUS
  <2>1. CASE StartUpStep
    BY <2>1, ConstructPoolIInv, ConstructEventSystemIInv, ConstructFileSystemIInv,
       ConstructorThrowsIInv, ConstructorInitsLogIInv, InitLogThrowsIInv,
       ConstructorSetsFilterIInv, SetFilterThrowsIInv, PublishIInv DEF StartUpStep
  <2>2. CASE TearDownStep
    BY <2>2, DestroyFileSystemIInv, DestroyEventSystemIInv, StopPoolIInv, JoinPoolIInv,
       EndUnwindingIInv, EndShutDownIInv DEF TearDownStep
  <2>3. CASE OwnerStep
    BY <2>3, BeginStartUpIInv, BeginShutDownIInv DEF OwnerStep
  <2>4. ASSUME NEW th \in Threads, CallStep(th) PROVE IInv'
    BY <2>4, CheckFlagsIInv, UseWhatIsGoneIInv, SubmitThroughCoreIInv DEF CallStep
  <2>5. ASSUME NEW th \in Threads, ReturnStep(th) PROVE IInv'
    BY <2>5, ReadInstanceIInv, PostThroughCoreIInv, DropReferenceIInv DEF ReturnStep
  <2>6. ASSUME NEW w \in Workers, RunStep(w) \/ TaskEndStep(w) PROVE IInv'
    BY <2>6, WorkerRunsIInv, TaskEndsIInv DEF RunStep, TaskEndStep
  <2>7. CASE Undefined \/ UNCHANGED vars
    BY <2>7, StutterIInv DEF Undefined
  <2> QED BY <2>1, <2>2, <2>3, <2>4, <2>5, <2>6, <2>7 DEF Next
<1> QED BY <1>1, <1>2, PTL DEF Spec

-----------------------------------------------------------------------------
(* The invariants that TLC checks, for every instance.                       *)

(* The state has its types: also inside the Core the pool's count never      *)
(* wraps below zero.                                                         *)
THEOREM TypeCorrect == Spec => []TypeOK
<1>1. IInv => TypeOK
  BY PoolFacts DEF IInv, Types, TypeOK
<1> QED BY <1>1, InductiveInvariant, PTL

(* The pool that the EventSystem refers to exists, not yet stopped, while    *)
(* the EventSystem does, however startUp and shutDown go.                    *)
THEOREM PoolOutlives == Spec => []PoolOutlivesEventSystem
<1>1. IInv => PoolOutlivesEventSystem
  BY DEF IInv, Types, Lifecycle, PoolEndsLast, AllMembers, PoolOutlivesEventSystem
<1> QED BY <1>1, InductiveInvariant, PTL

(* Between calls of startUp and shutDown the flags tell the truth: a Core is *)
(* there and logs once where its own configuration says, or nothing of one   *)
(* is left, no thread either, even when the constructor threw half way.      *)
THEOREM StartedCorrect == Spec => []StartedMeansComplete
<1>1. IInv => StartedMeansComplete
  <2> SUFFICES ASSUME IInv, main = "out" PROVE StartedMeansComplete
    BY DEF StartedMeansComplete
  <2>1. CASE Available
    <3>1. inst = "core" /\ members = AllMembers /\ phase = "alive"
      <4>1. inst = "core" /\ members = AllMembers
        BY <2>1 DEF IInv, Lifecycle
      <4> QED BY <4>1, PoolFacts DEF IInv, PoolEndsLast, AllMembers
    <3>2. sinks = [k \in Kinds |-> One(k \in KindsOf(ConvertStrToOutput(config.output)))]
      <4>1. \A k \in Kinds : sinks[k] = One(k \in KindsOf(ConvertStrToOutput(config.output)))
        BY <2>1 DEF IInv, SinksAreKnown, LogSetUp, SinksAsConfigured, One
      <4> QED BY <4>1 DEF IInv, Types
    <3>3. \A k \in KindsOf(ConvertStrToOutput(config.output)) :
            filter[k] = ConvertStrToSeverity(config.severity)
      BY <2>1 DEF IInv, LogSetUp
    <3> QED BY <2>1, <3>1, <3>2, <3>3 DEF Available, StartedMeansComplete
  <2>2. CASE ~Available
    BY <2>2, PoolFacts DEF IInv, Lifecycle, PoolEndsLast, Available, StartedMeansComplete
  <2> QED BY <2>1, <2>2
<1> QED BY <1>1, InductiveInvariant, PTL

(* As long as a task has a reference to the Core, ~Core and ~ThreadPool at   *)
(* work or not, the pool it may submit to exists; and the main thread's      *)
(* reference is to a Core with all its members.                              *)
THEOREM ReferencesCorrect == Spec => []PoolOutlivesReferences
<1>1. IInv => PoolOutlivesReferences
  <2> SUFFICES ASSUME IInv, NEW th \in Threads, got[th] = "core"
               PROVE  /\ "pool" \in members /\ phase # "destroyed"
                      /\ th = MainThread => members = AllMembers
    BY DEF PoolOutlivesReferences
  <2>1. CASE th = MainThread
    BY <2>1 DEF IInv, Callers, PoolEndsLast, AllMembers
  <2>2. CASE th \in Workers
    <3>1. stage[th] = "calling"
      BY <2>2 DEF IInv, Callers
    <3>2. phase # "destroyed"
      BY <2>2, <3>1, PoolFacts DEF IInv, Pool!DestroyedPoolIsQuiet
    <3>3. "pool" \in members
      BY <3>2 DEF IInv, Lifecycle, PoolEndsLast, AllMembers
    <3> QED BY <2>2, <3>2, <3>3, CoreModuleAssumption
  <2> QED BY <2>1, <2>2 DEF Threads
<1> QED BY <1>1, InductiveInvariant, PTL

=============================================================================
