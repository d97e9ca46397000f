--------------------------- MODULE MCEventSystem ---------------------------
(* EventSystem on a small instance. *)
EXTENDS EventSystem

\* Two registrations, so that a SpecEvent is replaced; three functors, so that
\* the handles of three values wrap; two raises, so that their batches can collide.
SmallCalls == [register |-> 2, subscribe |-> 3, unsubscribe |-> 1, raise |-> 2]
=============================================================================
