----------------------------- MODULE ThreadPool -----------------------------
(***************************************************************************)
(* evnt::ThreadPool (src/core/threadpool.h): worker threads that run one   *)
(* boost::asio::io_service, a submit() that wraps a function in a          *)
(* std::packaged_task and posts it, an atomic count of the tasks in the    *)
(* pool, and a destructor that stops the io_service and joins the threads. *)
(*                                                                         *)
(* submit() and the run of a task are split at their shared accesses: the  *)
(* atomic ++m_num_tasks, the post, the dequeue in io_service::run(), the   *)
(* end of f(), the atomic --m_num_tasks and the packaged_task making its   *)
(* future ready are the points at which threads interleave.                *)
(***************************************************************************)
EXTENDS Integers, Sequences, FiniteSets

CONSTANTS Clients,      \* threads outside the pool that call submit()
          Workers,      \* m_threads
          Tasks,        \* one element per call of submit(): its packaged_task
          NoTask        \* no task

ASSUME ThreadPoolAssumption ==
  /\ Clients \cap Workers = {}
  /\ IsFiniteSet(Tasks)
  /\ NoTask \notin Tasks

Threads == Clients \cup Workers

VARIABLES
  numTasks,    \* m_num_tasks; a size_t, kept in Int: TypeOK shows it never wraps below 0
  handlers,    \* the queue of m_io_serv: handlers posted and not yet dequeued
  stopped,     \* m_io_serv.stop() has been called
  submitting,  \* per thread, the task of the submit() it is in, between ++ and post
  running,     \* per worker, the task whose handler it has dequeued
  stage,       \* per worker, where it is in io_service::run()
  future,      \* per task, the shared state of its std::future
  phase        \* of the pool object: alive, in ~ThreadPool, or gone

vars == <<numTasks, handlers, stopped, submitting, running, stage, future, phase>>

Stages == {"idle", "calling", "counted", "exited"}
Shared == {"none", "pending", "value", "exception", "broken"}
Phases == {"alive", "joining", "destroyed"}

Init ==
  /\ numTasks = 0
  /\ handlers = <<>>
  /\ stopped = FALSE
  /\ submitting = [th \in Threads |-> NoTask]
  /\ running = [w \in Workers |-> NoTask]
  /\ stage = [w \in Workers |-> "idle"]
  /\ future = [t \in Tasks |-> "none"]
  /\ phase = "alive"

-----------------------------------------------------------------------------
(* submit().  A client may call it while the pool is alive; a task may call  *)
(* it as long as it runs, so also while ~ThreadPool waits for its thread.    *)

MaySubmit(th) ==
  /\ submitting[th] = NoTask
  /\ IF th \in Workers THEN stage[th] = "calling" ELSE phase = "alive"

SubmitCount(th, t) ==
  /\ MaySubmit(th)
  /\ future[t] = "none"
  /\ future' = [future EXCEPT ![t] = "pending"]
  /\ submitting' = [submitting EXCEPT ![th] = t]
  /\ numTasks' = numTasks + 1
  /\ UNCHANGED <<handlers, stopped, running, stage, phase>>

(* io_service::post takes a handler even when the service is stopped. *)
SubmitPost(th) ==
  /\ submitting[th] # NoTask
  /\ handlers' = Append(handlers, submitting[th])
  /\ submitting' = [submitting EXCEPT ![th] = NoTask]
  /\ UNCHANGED <<numTasks, stopped, running, stage, future, phase>>

-----------------------------------------------------------------------------
(* io_service::run() on a worker, and wrap_task.                             *)

\* Mutant: the handler is called but stays in the queue.
StartTaskPeeks(w) ==
  /\ stage[w] = "idle"
  /\ ~stopped
  /\ handlers # <<>>
  /\ running' = [running EXCEPT ![w] = Head(handlers)]
  /\ stage' = [stage EXCEPT ![w] = "calling"]
  /\ UNCHANGED <<numTasks, handlers, stopped, submitting, future, phase>>

StartTask(w) ==
  /\ stage[w] = "idle"
  /\ ~stopped
  /\ handlers # <<>>
  /\ running' = [running EXCEPT ![w] = Head(handlers)]
  /\ handlers' = Tail(handlers)
  /\ stage' = [stage EXCEPT ![w] = "calling"]
  /\ UNCHANGED <<numTasks, stopped, submitting, future, phase>>

\* f() is being executed by w and is not inside a nested submit().
InCall(w) == stage[w] = "calling" /\ submitting[w] = NoTask

\* Mutant: the decrement is forgotten.
ReturnKeepsCount(w) ==
  /\ InCall(w)
  /\ stage' = [stage EXCEPT ![w] = "counted"]
  /\ UNCHANGED <<numTasks, handlers, stopped, submitting, running, future, phase>>

\* Mutant: the decrement is made twice.
ReturnTwice(w) ==
  /\ InCall(w)
  /\ numTasks' = numTasks - 2
  /\ stage' = [stage EXCEPT ![w] = "counted"]
  /\ UNCHANGED <<handlers, stopped, submitting, running, future, phase>>

(* f() returns and wrap_task decrements the count; the future is not ready yet. *)
Return(w) ==
  /\ InCall(w)
  /\ numTasks' = numTasks - 1
  /\ stage' = [stage EXCEPT ![w] = "counted"]
  /\ UNCHANGED <<handlers, stopped, submitting, running, future, phase>>

\* The packaged_task stores the outcome and w goes back to io_service::run().
Settle(w, outcome) ==
  /\ future' = [future EXCEPT ![running[w]] = outcome]
  /\ running' = [running EXCEPT ![w] = NoTask]
  /\ stage' = [stage EXCEPT ![w] = "idle"]
  /\ UNCHANGED <<numTasks, handlers, stopped, submitting, phase>>

SetValue(w) == stage[w] = "counted" /\ Settle(w, "value")

\* Mutant: the exception is swallowed and the promise is dropped.
ThrowBreaks(w) == InCall(w) /\ Settle(w, "broken")

\* Mutant: the exception is swallowed and the future is left as it is.
ThrowLost(w) == InCall(w) /\ Settle(w, "pending")

(* f() throws: wrap_task is left before its decrement, and the packaged_task *)
(* catches the exception into the future.                                    *)
Throw(w) == InCall(w) /\ Settle(w, "exception")

(* run() returns once the service is stopped. *)
LeaveRun(w) ==
  /\ stage[w] = "idle"
  /\ stopped
  /\ stage' = [stage EXCEPT ![w] = "exited"]
  /\ UNCHANGED <<numTasks, handlers, stopped, submitting, running, future, phase>>

-----------------------------------------------------------------------------
(* ~ThreadPool.  The lifetime rule of C++: no client is inside submit().     *)

\* Mutant: the io_service is not stopped, m_work keeps run() from returning.
BeginDestroyNoStop ==
  /\ phase = "alive"
  /\ \A c \in Clients : submitting[c] = NoTask
  /\ phase' = "joining"
  /\ UNCHANGED <<numTasks, handlers, stopped, submitting, running, stage, future>>

BeginDestroy ==
  /\ phase = "alive"
  /\ \A c \in Clients : submitting[c] = NoTask
  /\ stopped' = TRUE
  /\ phase' = "joining"
  /\ UNCHANGED <<numTasks, handlers, submitting, running, stage, future>>

InQueue(t) == \E i \in 1..Len(handlers) : handlers[i] = t

(* Every join() has returned; the members are destroyed, and ~io_service     *)
(* destroys the handlers it never called, each with the last reference to    *)
(* its packaged_task.                                                        *)
JoinAndDestroy ==
  /\ phase = "joining"
  /\ \A w \in Workers : stage[w] = "exited"
  /\ handlers' = <<>>
  /\ future' = [t \in Tasks |-> IF InQueue(t) THEN "broken" ELSE future[t]]
  /\ phase' = "destroyed"
  /\ UNCHANGED <<numTasks, stopped, submitting, running, stage>>

(* The pool is gone: nothing more happens. *)
Gone == phase = "destroyed" /\ UNCHANGED vars

-----------------------------------------------------------------------------
WorkerStep(w) == \/ StartTask(w)
                 \/ Return(w)
                 \/ SetValue(w)
                 \/ Throw(w)
                 \/ LeaveRun(w)

Next == \/ \E th \in Threads, t \in Tasks : SubmitCount(th, t)
        \/ \E th \in Threads : SubmitPost(th)
        \/ \E w \in Workers : WorkerStep(w)
        \/ BeginDestroy
        \/ JoinAndDestroy
        \/ Gone

(* Threads are scheduled, a task's function returns or throws, and a         *)
(* destructor once begun goes on; nothing obliges a client to submit or the  *)
(* owner to destroy the pool.                                                *)
Fairness == /\ \A th \in Threads : WF_vars(SubmitPost(th))
            /\ \A w \in Workers : WF_vars(WorkerStep(w))
            /\ WF_vars(JoinAndDestroy)

Spec == Init /\ [][Next]_vars

FairSpec == Spec /\ Fairness

-----------------------------------------------------------------------------
(* Properties.                                                               *)

\* The types; numTasks \in Nat says that the unsigned m_num_tasks never wraps.
TypeOK ==
  /\ numTasks \in Nat
  /\ handlers \in Seq(Tasks)
  /\ stopped \in BOOLEAN
  /\ submitting \in [Threads -> Tasks \cup {NoTask}]
  /\ running \in [Workers -> Tasks \cup {NoTask}]
  /\ stage \in [Workers -> Stages]
  /\ future \in [Tasks -> Shared]
  /\ phase \in Phases

IsSubmitted(t) == \E th \in Threads : submitting[th] = t
IsRunning(t)   == \E w \in Workers : running[w] = t

(* A packaged_task may be called only once (a second call throws              *)
(* promise_already_satisfied out of io_service::run).  At any time a pending  *)
(* task is in exactly one place (a submit(), the queue, a worker) and no      *)
(* other task is in any, so however the threads interleave in submit() and    *)
(* in run() no handler is called twice, and none is lost.                     *)
TaskOwnership ==
  /\ \A t \in Tasks : future[t] = "pending" <=> IsSubmitted(t) \/ InQueue(t) \/ IsRunning(t)
  /\ \A t \in Tasks : ~(IsSubmitted(t) /\ InQueue(t))
  /\ \A t \in Tasks : ~(IsSubmitted(t) /\ IsRunning(t))
  /\ \A t \in Tasks : ~(InQueue(t) /\ IsRunning(t))
  /\ \A a, b \in Threads : a # b /\ submitting[a] # NoTask => submitting[a] # submitting[b]
  /\ \A v, w \in Workers : v # w /\ running[v] # NoTask => running[v] # running[w]
  /\ \A i, j \in 1..Len(handlers) : i # j => handlers[i] # handlers[j]

\* The worker that runs t has already decremented for it.
PastDecrement(t) == \E w \in Workers : running[w] = t /\ stage[w] = "counted"

\* The tasks that are in m_num_tasks.
Counted == {t \in Tasks : \/ future[t] = "pending" /\ ~PastDecrement(t)
                          \/ future[t] \in {"exception", "broken"}}

(* m_num_tasks counts the tasks that are not finished, and besides them       *)
(* exactly the tasks that threw (wrap_task is left before --m_num_tasks) or   *)
(* that the destructor abandoned: no interleaving of the atomic increments    *)
(* and decrements of submit() and wrap_task loses or repeats one.             *)
CountIsExact == numTasks = Cardinality(Counted)

(* A caller that reads getNumTasks() = 0 may conclude that nothing is being   *)
(* submitted, queued or executed: ++m_num_tasks precedes the post, and the    *)
(* decrement follows f().                                                     *)
IdleCountMeansIdle ==
  numTasks = 0 => /\ handlers = <<>>
                  /\ \A th \in Threads : submitting[th] = NoTask
                  /\ \A w \in Workers : stage[w] # "calling"

(* After ~ThreadPool no thread can touch the pool's members, and no holder of *)
(* a future waits for a task that nobody will run.                            *)
DestroyedPoolIsQuiet ==
  phase = "destroyed" => /\ \A w \in Workers : stage[w] = "exited"
                         /\ \A th \in Threads : submitting[th] = NoTask
                         /\ handlers = <<>>
                         /\ \A t \in Tasks : future[t] # "pending"

(* future.get() on the result of any submit() returns, whether the task ran,  *)
(* threw, or was abandoned by the destructor.                                 *)
EveryFutureSettles == \A t \in Tasks : future[t] = "pending" ~> future[t] # "pending"

(* ~ThreadPool terminates even with handlers still queued: stop() makes every *)
(* run() return although m_work keeps the io_service busy.                    *)
DestructorTerminates == phase = "joining" ~> phase = "destroyed"

(* The pool implements what its futures promise. *)
FutureStatus == [t \in Tasks |-> IF IsRunning(t) THEN "running" ELSE future[t]]

Abstract == INSTANCE TaskFutures WITH status <- FutureStatus,
                                      closed <- (phase = "destroyed")

ImplementsTaskFutures == Abstract!Spec

(* threadpool.h:70 says of wrap_task "Wrap a task so that the available count *)
(* can be decreased": when every task submitted to a live pool has finished,  *)
(* the count is back to zero.                                                 *)
CountDecreasedForFinishedTasks ==
  (phase = "alive" /\ \A t \in Tasks : future[t] # "pending") => numTasks = 0

=============================================================================
