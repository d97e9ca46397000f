------------------------------ MODULE EventBus ------------------------------
(***************************************************************************)
(* What an EventSystem promises, with no flags, no iterators and no calls  *)
(* in progress: registering, subscribing, unsubscribing and raising happen *)
(* at one instant each; a raise queues one delivery for every functor that *)
(* is subscribed at that instant, in the order of subscription and with no *)
(* delivery of another raise in between; deliveries begin in the order in  *)
(* which they were queued, and every one of them begins.                   *)
(***************************************************************************)
EXTENDS Naturals, Sequences, Removal

CONSTANTS Events,       \* the event traits
          Handles,      \* what subscribing may return
          NoHandle      \* the one that means: not subscribed

VARIABLES subs,         \* per event, the handles of its functors in order of subscription
          granted,      \* per event, the handles given out since it was registered
          queue         \* the deliveries <<event, handle>> still to be begun

vars == <<subs, granted, queue>>

Init == /\ subs = [e \in Events |-> <<>>]
        /\ granted = [e \in Events |-> {}]
        /\ queue = <<>>

(* A new registration forgets the functors and the handles of the old one. *)
Register(e) ==
  /\ subs' = [subs EXCEPT ![e] = <<>>]
  /\ granted' = [granted EXCEPT ![e] = {}]
  /\ UNCHANGED queue

(* The handle is one that no earlier functor of this registration had, while *)
(* there is such a one.                                                      *)
Exhausted(e) == Handles \ {NoHandle} \subseteq granted[e]

Subscribe(e) ==
  /\ \E h \in Handles :
       /\ Exhausted(e) \/ h \notin granted[e] \cup {NoHandle}
       /\ subs' = [subs EXCEPT ![e] = Append(@, h)]
       /\ granted' = [granted EXCEPT ![e] = @ \cup {h}]
  /\ UNCHANGED queue

Unsubscribe(e, h) ==
  /\ subs' = [subs EXCEPT ![e] = Without(@, h)]
  /\ UNCHANGED <<granted, queue>>

Raise(e) ==
  /\ queue' = queue \o [i \in 1..Len(subs[e]) |-> <<e, subs[e][i]>>]
  /\ UNCHANGED <<subs, granted>>

Deliver ==
  /\ queue # <<>>
  /\ queue' = Tail(queue)
  /\ UNCHANGED <<subs, granted>>

Next == \/ \E e \in Events : Register(e) \/ Subscribe(e) \/ Raise(e)
        \/ \E e \in Events, h \in Handles : Unsubscribe(e, h)
        \/ Deliver

Spec == Init /\ [][Next]_vars /\ WF_vars(Deliver)

=============================================================================
