---------------------------- MODULE TaskFutures ----------------------------
(***************************************************************************)
(* What a ThreadPool promises to whoever holds the std::future that        *)
(* submit() returned, with no queue, no counter and no threads: a          *)
(* submitted task is called at most once; its future settles exactly once, *)
(* with the value or the exception of that call; and a task the pool never *)
(* called is broken only when the pool is gone, when no call is in         *)
(* progress.  ThreadPool.tla is shown to implement this specification.     *)
(***************************************************************************)

CONSTANT Tasks          \* the tasks that may be submitted

VARIABLES status,       \* what is known of each task and its future
          closed        \* the pool has been destroyed

vars == <<status, closed>>

Status == {"none", "pending", "running", "value", "exception", "broken"}

TypeOK == /\ status \in [Tasks -> Status]
          /\ closed \in BOOLEAN

Init == /\ status = [t \in Tasks |-> "none"]
        /\ closed = FALSE

(* submit() hands out the future of t. *)
Submit(t) ==
  /\ ~closed
  /\ status[t] = "none"
  /\ status' = [status EXCEPT ![t] = "pending"]
  /\ UNCHANGED closed

(* A worker calls t. *)
Begin(t) ==
  /\ ~closed
  /\ status[t] = "pending"
  /\ status' = [status EXCEPT ![t] = "running"]
  /\ UNCHANGED closed

(* The call ends and its result is in the future. *)
Deliver(t) ==
  /\ status[t] = "running"
  /\ \E result \in {"value", "exception"} :
       status' = [status EXCEPT ![t] = result]
  /\ UNCHANGED closed

(* The pool goes away: what was never called is broken. *)
Abandon ==
  /\ ~closed
  /\ \A t \in Tasks : status[t] # "running"
  /\ status' = [t \in Tasks |-> IF status[t] = "pending" THEN "broken" ELSE status[t]]
  /\ closed' = TRUE

Next == \/ \E t \in Tasks : Submit(t) \/ Begin(t) \/ Deliver(t)
        \/ Abandon

Safety == Init /\ [][Next]_vars

(* A submitted task moves on: it is called, or abandoned, and its call ends. *)
Progress(t) == \/ Begin(t)
               \/ Deliver(t)
               \/ status[t] = "pending" /\ Abandon

(* No future is left pending for ever. *)
Spec == Safety /\ \A t \in Tasks : WF_vars(Progress(t))

=============================================================================
