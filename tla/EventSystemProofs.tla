-------------------------- MODULE EventSystemProofs --------------------------
(***************************************************************************)
(* Theorems of EventSystem.tla, for every set of clients, workers, tasks   *)
(* and events: the flags exclude, handles identify, raiseEvent returns     *)
(* what it should, and every step is one of EventBus or changes nothing    *)
(* there.  The pool keeps the inductive invariant of ThreadPoolProofs.tla. *)
(***************************************************************************)
EXTENDS EventSystem, Integers, SequenceTheorems, FiniteSetTheorems, WellFoundedInduction, TLAPS

PoolProofs == INSTANCE ThreadPoolProofs

-----------------------------------------------------------------------------
(* Sequences: what Removal leaves of one, by induction over its length, and  *)
(* how a queue in two parts is served.  An induction here is over a set of   *)
(* numbers (SetInduction, from the well-foundedness of <), and a recursive   *)
(* function enters it by its equations, one argument at a time (Loop), which *)
(* is the form that the provers can instantiate.                             *)

(* A set with 0 that is closed under successor has every natural number.     *)
LEMMA SetInduction ==
  ASSUME NEW S, 0 \in S, \A n \in Nat : n \in S => n + 1 \in S
  PROVE  Nat \subseteq S
<1> DEFINE T == Nat \ S
           R == OpToRel(<, Nat)
<1> SUFFICES ASSUME T # {} PROVE FALSE
  OBVIOUS
<1>1. IsWellFoundedOn(R, Nat)
  BY NatLessThanWellFounded
<1>2. \A x, y \in Nat : x < y => <<x, y>> \in R
  BY DEF OpToRel
<1>3. PICK x \in T : \A y \in T : <<y, x>> \notin R
  <2>1. T \subseteq Nat
    OBVIOUS
  <2> HIDE DEF R, T
  <2> QED BY <1>1, <2>1, WFMin
<1>4. x \in Nat /\ x \notin S /\ x # 0
  OBVIOUS
<1>5. x - 1 \in Nat /\ x - 1 < x /\ x = (x - 1) + 1
  BY <1>4
<1>6. <<x - 1, x>> \in R
  BY <1>2, <1>4, <1>5
<1>7. x - 1 \in S
  BY <1>3, <1>5, <1>6
<1> QED BY <1>4, <1>5, <1>7

(* f is what the recursion from base with step computes. *)
Recursion(V, base, L, step, f) ==
  /\ f \in [0..L -> V]
  /\ f[0] = base
  /\ \A n \in 1..L : f[n] = step[n][f[n - 1]]

(* Such a function exists for every base, step and length.                   *)
LEMMA RecursionExists ==
  ASSUME NEW V, NEW base \in V, NEW L \in Nat, NEW step \in [1..L -> [V -> V]]
  PROVE  \E f : Recursion(V, base, L, step, f)
<1> DEFINE S == {m \in Nat : m <= L => \E f : Recursion(V, base, m, step, f)}
<1>1. 0 \in S
  <2> DEFINE f == [n \in 0..0 |-> base]
  <2>1. Recursion(V, base, 0, step, f)
    BY DEF Recursion
  <2> QED BY <2>1
<1>2. ASSUME NEW m \in Nat, m \in S PROVE m + 1 \in S
  <2> SUFFICES ASSUME m + 1 <= L PROVE \E g : Recursion(V, base, m + 1, step, g)
    OBVIOUS
  <2>1. PICK f : Recursion(V, base, m, step, f)
    BY <1>2
  <2> DEFINE g == [n \in 0..(m + 1) |-> IF n <= m THEN f[n] ELSE step[n][f[m]]]
  <2>2. g \in [0..(m + 1) -> V]
    <3>1. step[m + 1] \in [V -> V] /\ f[m] \in V
      BY <2>1 DEF Recursion
    <3> QED BY <2>1, <3>1 DEF Recursion
  <2>3. g[0] = base
    BY <2>1 DEF Recursion
  <2>4. ASSUME NEW n \in 1..(m + 1)
        PROVE  g[n] = step[n][g[n - 1]]
    <3>1. CASE n <= m
      BY <2>1, <3>1 DEF Recursion
    <3>2. CASE n = m + 1
      BY <3>2
    <3> QED BY <3>1, <3>2
  <2> QED BY <2>2, <2>3, <2>4 DEF Recursion
<1>3. L \in S
  <2> HIDE DEF S
  <2> QED BY <1>1, <1>2, SetInduction
<1> QED BY <1>3

-----------------------------------------------------------------------------
(* The loop of Without: left[n] is what the first n elements leave.          *)
Loop(s, x, left) ==
  /\ left[0] = <<>>
  /\ \A n \in 1..Len(s) :
       left[n] = IF s[n] = x THEN left[n - 1] ELSE Append(left[n - 1], s[n])

(* Every stage of the loop is a sequence over the same set.                   *)
LEMMA LoopType ==
  ASSUME NEW S, NEW s \in Seq(S), NEW x, NEW left, Loop(s, x, left)
  PROVE  \A m \in 0..Len(s) : left[m] \in Seq(S)
<1> DEFINE T == {m \in Nat : m <= Len(s) => left[m] \in Seq(S)}
<1>1. 0 \in T
  <2>1. left[0] = <<>> /\ <<>> \in Seq(S)
    BY DEF Loop
  <2> QED BY <2>1
<1>2. ASSUME NEW m \in Nat, m \in T PROVE m + 1 \in T
  <2> SUFFICES ASSUME m + 1 <= Len(s) PROVE left[m + 1] \in Seq(S)
    OBVIOUS
  <2>1. m + 1 \in 1..Len(s) /\ left[m] \in Seq(S) /\ (m + 1) - 1 = m /\ s[m + 1] \in S
    BY <1>2
  <2>2. left[m + 1] = IF s[m + 1] = x THEN left[m] ELSE Append(left[m], s[m + 1])
    BY <2>1 DEF Loop
  <2> QED BY <2>1, <2>2
<1>3. Nat \subseteq T
  <2> HIDE DEF T
  <2> QED BY <1>1, <1>2, SetInduction
<1> QED BY <1>3

(* The loop has a solution ...                                                *)
LEMMA LoopExists ==
  ASSUME NEW S, NEW s \in Seq(S), NEW x
  PROVE  \E left \in [0..Len(s) -> Seq(S)] : Loop(s, x, left)
<1> DEFINE step == [n \in 1..Len(s) |-> [v \in Seq(S) |-> IF s[n] = x THEN v ELSE Append(v, s[n])]]
<1>1. Len(s) \in Nat /\ <<>> \in Seq(S)
  OBVIOUS
<1>2. step \in [1..Len(s) -> [Seq(S) -> Seq(S)]]
  <2>1. \A n \in 1..Len(s), v \in Seq(S) : s[n] \in S /\ Append(v, s[n]) \in Seq(S)
    OBVIOUS
  <2> QED BY <2>1
<1>3. PICK f : Recursion(Seq(S), <<>>, Len(s), step, f)
  <2> HIDE DEF step
  <2> QED BY <1>1, <1>2, RecursionExists
<1>4. ASSUME NEW n \in 1..Len(s)
      PROVE  f[n] = IF s[n] = x THEN f[n - 1] ELSE Append(f[n - 1], s[n])
  <2>1. f[n - 1] \in Seq(S) /\ f[n] = step[n][f[n - 1]]
    <3>1. n - 1 \in 0..Len(s)
      BY <1>1
    <3> HIDE DEF step
    <3> QED BY <1>3, <3>1 DEF Recursion
  <2> QED BY <2>1
<1>5. f \in [0..Len(s) -> Seq(S)] /\ f[0] = <<>>
  <2> HIDE DEF step
  <2> QED BY <1>3 DEF Recursion
<1>6. Loop(s, x, f)
  BY <1>4, <1>5 DEF Loop
<1> QED BY <1>5, <1>6

(* ... and what solves the equation that Without chooses by is one.           *)
LEMMA FunctionEquation ==
  ASSUME NEW s, NEW x, NEW left, Len(s) \in Nat,
         left = [n \in 0..Len(s) |-> IF n = 0 THEN <<>>
                                     ELSE IF s[n] = x THEN left[n - 1]
                                     ELSE Append(left[n - 1], s[n])]
  PROVE  Loop(s, x, left)
<1>1. left[0] = <<>>
  OBVIOUS
<1>2. ASSUME NEW n \in 1..Len(s)
      PROVE  left[n] = IF s[n] = x THEN left[n - 1] ELSE Append(left[n - 1], s[n])
  <2>1. n \in 0..Len(s) /\ n # 0
    OBVIOUS
  <2> QED BY <2>1, Zenon
<1> QED BY <1>1, <1>2 DEF Loop

(* Without is the last stage of its loop.                                     *)
LEMMA WithoutLoop ==
  ASSUME NEW S, NEW s \in Seq(S), NEW x
  PROVE  \E left : Loop(s, x, left) /\ Without(s, x) = left[Len(s)]
<1> DEFINE body(g) == [n \in 0..Len(s) |-> IF n = 0 THEN <<>>
                                           ELSE IF s[n] = x THEN g[n - 1]
                                           ELSE Append(g[n - 1], s[n])]
           left == CHOOSE g : g = body(g)
<1>1. PICK f \in [0..Len(s) -> Seq(S)] : Loop(s, x, f)
  BY LoopExists
<1>2. f = body(f)
  <2>1. f = [n \in 0..Len(s) |-> f[n]]
    OBVIOUS
  <2>2. ASSUME NEW n \in 0..Len(s)
        PROVE  f[n] = IF n = 0 THEN <<>> ELSE IF s[n] = x THEN f[n - 1] ELSE Append(f[n - 1], s[n])
    <3>1. CASE n = 0
      BY <1>1, <3>1 DEF Loop
    <3>2. CASE n # 0
      <4>1. n \in 1..Len(s)
        BY <3>2
      <4> QED BY <1>1, <3>2, <4>1, Zenon DEF Loop
    <3> QED BY <3>1, <3>2
  <2> QED BY <2>1, <2>2, Zenon
<1>3. left = body(left)
  <2> HIDE DEF body
  <2> QED BY <1>2
<1>4. Loop(s, x, left)
  <2>1. Len(s) \in Nat
    OBVIOUS
  <2> HIDE DEF left
  <2> QED BY <1>3, <2>1, FunctionEquation, Zenon
<1> QED BY <1>4 DEF Without

Increasing(s) == \A i, j \in 1..Len(s) : i < j => s[i] < s[j]

\* Every element of r is one of the first m of s, and is not x.
From(r, s, m, x) == \A i \in 1..Len(r) : r[i] # x /\ \E j \in 1..m : r[i] = s[j]

(* No stage has an x, or an element that the sequence has not.                *)
LEMMA LoopFrom ==
  ASSUME NEW S, NEW s \in Seq(S), NEW x, NEW left, Loop(s, x, left)
  PROVE  \A m \in 0..Len(s) : From(left[m], s, m, x)
<1> DEFINE T == {m \in Nat : m <= Len(s) => From(left[m], s, m, x)}
<1>1. 0 \in T
  BY DEF Loop, From
<1>2. ASSUME NEW m \in Nat, m \in T PROVE m + 1 \in T
  <2> SUFFICES ASSUME m + 1 <= Len(s) PROVE From(left[m + 1], s, m + 1, x)
    OBVIOUS
  <2>1. m + 1 \in 1..Len(s) /\ m \in 0..Len(s) /\ (m + 1) - 1 = m
    OBVIOUS
  <2>2. left[m] \in Seq(S) /\ From(left[m], s, m, x) /\ s[m + 1] \in S
    BY <1>2, <2>1, LoopType
  <2>3. left[m + 1] = IF s[m + 1] = x THEN left[m] ELSE Append(left[m], s[m + 1])
    BY <2>1 DEF Loop
  <2>4. CASE s[m + 1] = x
    BY <2>1, <2>2, <2>3, <2>4 DEF From
  <2>5. CASE s[m + 1] # x
    BY <2>1, <2>2, <2>3, <2>5 DEF From
  <2> QED BY <2>4, <2>5
<1>3. Nat \subseteq T
  <2> HIDE DEF T
  <2> QED BY <1>1, <1>2, SetInduction
<1> QED BY <1>3

(* What is left are elements of the sequence, and x is not among them. *)
LEMMA WithoutType ==
  ASSUME NEW S, NEW s \in Seq(S), NEW x
  PROVE  /\ Without(s, x) \in Seq(S)
         /\ From(Without(s, x), s, Len(s), x)
<1>1. Len(s) \in 0..Len(s)
  OBVIOUS
<1>2. PICK left : Loop(s, x, left) /\ Without(s, x) = left[Len(s)]
  BY WithoutLoop
<1> QED BY <1>1, <1>2, LoopType, LoopFrom

(* A sequence stays increasing when something greater is appended.           *)
LEMMA IncreasingAppend ==
  ASSUME NEW r \in Seq(Int), NEW y \in Int, Increasing(r), \A i \in 1..Len(r) : r[i] < y
  PROVE  Increasing(Append(r, y))
BY DEF Increasing

(* A counter's next value, appended to an increasing list of its values.     *)
LEMMA NextNumber ==
  ASSUME NEW s \in Seq(Int), NEW n \in Nat, Increasing(s), \A i \in 1..Len(s) : s[i] \in 1..n
  PROVE  /\ Increasing(Append(s, n + 1))
         /\ \A i \in 1..Len(Append(s, n + 1)) : Append(s, n + 1)[i] \in 1..(n + 1)
<1>1. \A i \in 1..Len(s) : s[i] < n + 1
  OBVIOUS
<1>2. Increasing(Append(s, n + 1))
  BY <1>1, IncreasingAppend
<1>3. \A i \in 1..Len(Append(s, n + 1)) : Append(s, n + 1)[i] \in 1..(n + 1)
  OBVIOUS
<1> QED BY <1>2, <1>3

(* Removal leaves the elements in the order they had. *)
LEMMA WithoutOrder ==
  ASSUME NEW s \in Seq(Int), NEW x, Increasing(s)
  PROVE  Increasing(Without(s, x))
<1>1. PICK left : Loop(s, x, left) /\ Without(s, x) = left[Len(s)]
  BY WithoutLoop
<1> DEFINE T == {m \in Nat : m <= Len(s) => Increasing(left[m])}
<1>2. 0 \in T
  BY <1>1 DEF Loop, Increasing
<1>3. ASSUME NEW m \in Nat, m \in T PROVE m + 1 \in T
  <2> SUFFICES ASSUME m + 1 <= Len(s) PROVE Increasing(left[m + 1])
    OBVIOUS
  <2>1. m + 1 \in 1..Len(s) /\ m \in 0..Len(s) /\ (m + 1) - 1 = m
    OBVIOUS
  <2>2. left[m] \in Seq(Int) /\ Increasing(left[m]) /\ From(left[m], s, m, x) /\ s[m + 1] \in Int
    BY <1>1, <1>3, <2>1, LoopType, LoopFrom
  <2>3. left[m + 1] = IF s[m + 1] = x THEN left[m] ELSE Append(left[m], s[m + 1])
    BY <1>1, <2>1 DEF Loop
  <2>4. \A j \in 1..m : s[j] < s[m + 1]
    BY <2>1 DEF Increasing
  <2>5. \A i \in 1..Len(left[m]) : left[m][i] < s[m + 1]
    BY <2>2, <2>4 DEF From
  <2>6. Increasing(Append(left[m], s[m + 1]))
    BY <2>2, <2>5, IncreasingAppend
  <2> QED BY <2>2, <2>3, <2>6
<1>4. Len(s) \in T
  <2>1. Len(s) \in Nat
    OBVIOUS
  <2> HIDE DEF T
  <2> QED BY <1>2, <1>3, <2>1, SetInduction
<1> QED BY <1>1, <1>4

-----------------------------------------------------------------------------
(* Queues.                                                                   *)

(* Taking the first element of two queues in a row takes it from the first.  *)
LEMMA TailOfConcat ==
  ASSUME NEW S, NEW p \in Seq(S), NEW q \in Seq(S), p # <<>>
  PROVE  p \o q # <<>> /\ Tail(p \o q) = Tail(p) \o q
<1>1. /\ p \o q \in Seq(S) /\ Len(p \o q) = Len(p) + Len(q)
      /\ \A i \in 1..(Len(p) + Len(q)) : (p \o q)[i] = IF i <= Len(p) THEN p[i] ELSE q[i - Len(p)]
  BY ConcatProperties
<1>2. Len(p) \in Nat \ {0} /\ Len(q) \in Nat
  BY EmptySeq, LenProperties
<1>3. p \o q # <<>>
  BY <1>1, <1>2, EmptySeq
<1>4. /\ Tail(p) \in Seq(S) /\ Len(Tail(p)) = Len(p) - 1
      /\ \A i \in 1..Len(Tail(p)) : Tail(p)[i] = p[i + 1]
  BY HeadTailProperties
<1>5. /\ Tail(p \o q) \in Seq(S) /\ Len(Tail(p \o q)) = Len(p) + Len(q) - 1
      /\ \A i \in 1..Len(Tail(p \o q)) : Tail(p \o q)[i] = (p \o q)[i + 1]
  BY <1>1, <1>3, HeadTailProperties
<1>6. /\ Tail(p) \o q \in Seq(S) /\ Len(Tail(p) \o q) = Len(Tail(p)) + Len(q)
      /\ \A i \in 1..(Len(Tail(p)) + Len(q)) :
           (Tail(p) \o q)[i] = IF i <= Len(Tail(p)) THEN Tail(p)[i] ELSE q[i - Len(Tail(p))]
  BY <1>4, ConcatProperties
<1>7. ASSUME NEW i \in 1..Len(Tail(p \o q)) PROVE Tail(p \o q)[i] = (Tail(p) \o q)[i]
  <2>1. i + 1 \in 1..(Len(p) + Len(q)) /\ i \in 1..(Len(Tail(p)) + Len(q))
    BY <1>2, <1>4, <1>5
  <2>2. Tail(p \o q)[i] = IF i + 1 <= Len(p) THEN p[i + 1] ELSE q[i + 1 - Len(p)]
    BY <1>1, <1>5, <2>1
  <2>3. (Tail(p) \o q)[i] = IF i <= Len(Tail(p)) THEN Tail(p)[i] ELSE q[i - Len(Tail(p))]
    BY <1>6, <2>1
  <2>4. CASE i <= Len(Tail(p))
    <3>1. i + 1 <= Len(p) /\ i \in 1..Len(Tail(p))
      BY <1>2, <1>4, <2>4
    <3> QED BY <1>4, <2>2, <2>3, <2>4, <3>1
  <2>5. CASE ~(i <= Len(Tail(p)))
    <3>1. ~(i + 1 <= Len(p)) /\ i + 1 - Len(p) = i - Len(Tail(p))
      BY <1>2, <1>4, <2>5
    <3> QED BY <2>2, <2>3, <2>5, <3>1
  <2> QED BY <2>4, <2>5
<1>8. Len(Tail(p \o q)) = Len(Tail(p) \o q)
  BY <1>2, <1>4, <1>5, <1>6
<1> QED BY <1>3, <1>5, <1>6, <1>7, <1>8, SeqEqual

(* Moving the first element of a queue to the end of the one before it       *)
(* changes nothing for who sees both in a row.                               *)
LEMMA MoveOver ==
  ASSUME NEW S, NEW p \in Seq(S), NEW q \in Seq(S), q # <<>>
  PROVE  Append(p, q[1]) \o Tail(q) = p \o q
<1>1. Len(p) \in Nat /\ Len(q) \in Nat \ {0} /\ q[1] \in S
  BY EmptySeq, LenProperties
<1>2. /\ p \o q \in Seq(S) /\ Len(p \o q) = Len(p) + Len(q)
      /\ \A i \in 1..(Len(p) + Len(q)) : (p \o q)[i] = IF i <= Len(p) THEN p[i] ELSE q[i - Len(p)]
  BY ConcatProperties
<1>3. /\ Tail(q) \in Seq(S) /\ Len(Tail(q)) = Len(q) - 1
      /\ \A i \in 1..Len(Tail(q)) : Tail(q)[i] = q[i + 1]
  BY HeadTailProperties
<1> DEFINE r == Append(p, q[1])
<1>4. /\ r \in Seq(S) /\ Len(r) = Len(p) + 1 /\ r[Len(p) + 1] = q[1]
      /\ \A i \in 1..Len(p) : r[i] = p[i]
  BY <1>1
<1> HIDE DEF r
<1>5. /\ r \o Tail(q) \in Seq(S) /\ Len(r \o Tail(q)) = Len(r) + Len(Tail(q))
      /\ \A i \in 1..(Len(r) + Len(Tail(q))) :
           (r \o Tail(q))[i] = IF i <= Len(r) THEN r[i] ELSE Tail(q)[i - Len(r)]
  BY <1>3, <1>4, ConcatProperties
<1>6. Len(r \o Tail(q)) = Len(p \o q)
  BY <1>1, <1>2, <1>3, <1>4, <1>5
<1>7. ASSUME NEW i \in 1..Len(p \o q) PROVE (r \o Tail(q))[i] = (p \o q)[i]
  <2>1. /\ (p \o q)[i] = IF i <= Len(p) THEN p[i] ELSE q[i - Len(p)]
        /\ (r \o Tail(q))[i] = IF i <= Len(r) THEN r[i] ELSE Tail(q)[i - Len(r)]
    BY <1>1, <1>2, <1>3, <1>4, <1>5
  <2>2. CASE i <= Len(p)
    <3>1. i \in 1..Len(p) /\ i <= Len(r)
      BY <1>1, <1>4, <2>2
    <3> QED BY <1>4, <2>1, <2>2, <3>1
  <2>3. CASE i = Len(p) + 1
    <3>1. ~(i <= Len(p)) /\ i <= Len(r) /\ i - Len(p) = 1
      BY <1>1, <1>4, <2>3
    <3> QED BY <1>4, <2>1, <2>3, <3>1
  <2>4. CASE i > Len(p) + 1
    <3>1. i \in Nat /\ i <= Len(p) + Len(q)
      BY <1>1, <1>2
    <3>2. ~(i <= Len(p)) /\ ~(i <= Len(r))
      BY <1>1, <1>4, <2>4, <3>1
    <3>3. i - Len(r) \in 1..Len(Tail(q))
      BY <1>1, <1>3, <1>4, <2>4, <3>1
    <3>4. (i - Len(r)) + 1 = i - Len(p)
      BY <1>1, <1>4, <3>1
    <3>5. Tail(q)[i - Len(r)] = q[(i - Len(r)) + 1]
      BY <1>3, <3>3, Zenon
    <3>6. (p \o q)[i] = q[i - Len(p)]
      BY <2>1, <3>2, Zenon
    <3>7. (r \o Tail(q))[i] = Tail(q)[i - Len(r)]
      BY <2>1, <3>2, Zenon
    <3> QED BY <3>4, <3>5, <3>6, <3>7, Zenon
  <2>5. i \in Nat
    BY <1>1, <1>2
  <2>6. i <= Len(p) \/ i = Len(p) + 1 \/ i > Len(p) + 1
    BY <1>1, <2>5
  <2> QED BY <2>2, <2>3, <2>4, <2>6, Zenon
<1>8. r \o Tail(q) = p \o q
  BY <1>2, <1>5, <1>6, <1>7, SeqEqual
<1> QED BY <1>8 DEF r

-----------------------------------------------------------------------------
(* The inductive invariant.                                                  *)

(* The types of what EventSystem adds to the pool. *)
Types ==
  /\ accessFlag \in BOOLEAN
  /\ made \in [Events -> Nat]
  /\ specFlag \in [Events -> BOOLEAN]
  /\ delegates \in [Events -> Seq(Handles)]
  /\ nextID \in [Events -> Handles]
  /\ bindings \in [Events -> Nat]
  /\ at \in [Threads -> {"out", "spin", "locked", "working"}]
  /\ request \in [Threads -> Requests \cup {NoRequest}]
  /\ spec \in [Threads -> Nat]
  /\ cursor \in [Threads -> Nat \ {0}]
  /\ results \in [Threads -> Seq(Tasks)]
  /\ bound \in [Tasks -> (Events \X Handles) \cup {NoDelegate}]
  /\ calls \in [Ops -> Nat]

(* A thread inside a call has a request, with arguments that it may have. *)
CallsAreSensible ==
  \A th \in Threads : at[th] # "out" => request[th] \in Requests /\ Sensible(request[th])

(* Until it wraps, the counter counts the functors bound in the SpecEvent.   *)
CounterFollows == \A e \in Events : bindings[e] < HandleMod => nextID[e] = bindings[e]

(* Where th is in call()'s loop: the tasks of the functors up to the cursor  *)
(* are in res, the last of them perhaps not posted yet, each with its        *)
(* functor, and none can be taken for another functor any more.              *)
InLoopOf(th, list, e) ==
  /\ cursor[th] <= Len(list) + 1
  /\ submitting[th] = NoTask => Len(results[th]) = cursor[th] - 1
  /\ submitting[th] # NoTask => /\ cursor[th] <= Len(list)
                                /\ Len(results[th]) = cursor[th]
                                /\ results[th][cursor[th]] = submitting[th]
  /\ \A i \in 1..Len(results[th]) : /\ bound[results[th][i]] = <<e, list[i]>>
                                    /\ future[results[th][i]] # "none"

RaiseLoop ==
  \A th \in Threads :
    /\ Working(th, "raise") => InLoopOf(th, delegates[request[th].event], request[th].event)
    /\ ~Working(th, "raise") => /\ submitting[th] = NoTask
                                /\ cursor[th] = 1
                                /\ results[th] = <<>>

IInv == /\ PoolProofs!IInv
        /\ Types /\ CallsAreSensible
        /\ FlagsExclude /\ SpecEventInUseIsAlive
        /\ HandlesIdentify /\ CounterFollows
        /\ RaiseLoop

-----------------------------------------------------------------------------
(* The pool below the EventSystem: its assumption, and its lemmas for the    *)
(* actions of it that are part of the EventSystem's.                         *)

LEMMA PoolAssumption ==
  Clients \cap Workers = {} /\ PoolProofs!IsFiniteSet(Tasks) /\ NoTask \notin Tasks
<1>1. PoolProofs!IsFiniteSet(Tasks)
  BY EventSystemAssumption DEF IsFiniteSet, PoolProofs!IsFiniteSet
<1> QED BY <1>1, EventSystemAssumption

(* What the pool's invariant says that the EventSystem's steps rest on. *)
LEMMA PoolFacts ==
  ASSUME PoolProofs!IInv
  PROVE  /\ Pool!TypeOK
         /\ handlers \in Seq(Tasks)
         /\ submitting \in [Threads -> Tasks \cup {NoTask}]
         /\ running \in [Workers -> Tasks \cup {NoTask}]
         /\ future \in [Tasks -> {"none", "pending", "value", "exception", "broken"}]
         /\ \A i \in 1..Len(handlers) : future[handlers[i]] = "pending"
<1>1. PoolProofs!TypeOK
  BY PoolAssumption, PoolProofs!IInvTypeOK
<1>2. Pool!TypeOK
  BY <1>1 DEF PoolProofs!TypeOK, Pool!TypeOK, PoolProofs!Threads, Pool!Threads,
              PoolProofs!Stages, Pool!Stages, PoolProofs!Shared, Pool!Shared,
              PoolProofs!Phases, Pool!Phases
<1>3. ASSUME NEW i \in 1..Len(handlers) PROVE future[handlers[i]] = "pending"
  <2>1. handlers[i] \in Tasks
    BY <1>2 DEF Pool!TypeOK
  <2>2. PoolProofs!InQueue(handlers[i])
    BY DEF PoolProofs!InQueue
  <2> QED BY <2>1, <2>2 DEF PoolProofs!IInv, PoolProofs!TaskOwnership
<1> QED BY <1>2, <1>3 DEF Pool!TypeOK, Pool!Threads, Pool!Shared, Threads

LEMMA PoolInit ==
  ASSUME Pool!Init
  PROVE  PoolProofs!IInv
<1>1. PoolProofs!Init
  BY DEF Pool!Init, PoolProofs!Init, Pool!Threads, PoolProofs!Threads
<1> QED BY <1>1, PoolAssumption, PoolProofs!InitIInv

LEMMA PoolSubmits ==
  ASSUME PoolProofs!IInv, NEW th \in Threads
  PROVE  /\ \A t \in Tasks : Pool!SubmitCount(th, t) => PoolProofs!IInv'
         /\ Pool!SubmitPost(th) => PoolProofs!IInv'
<1>0. th \in PoolProofs!Threads
  BY DEF Threads, PoolProofs!Threads
<1>1. ASSUME NEW t \in Tasks, Pool!SubmitCount(th, t) PROVE PoolProofs!IInv'
  <2>1. PoolProofs!SubmitCount(th, t)
    BY <1>1 DEF Pool!SubmitCount, PoolProofs!SubmitCount, Pool!MaySubmit, PoolProofs!MaySubmit
  <2> QED BY <1>0, <2>1, PoolAssumption, PoolProofs!SubmitCountIInv
<1>2. ASSUME Pool!SubmitPost(th) PROVE PoolProofs!IInv'
  <2>1. PoolProofs!SubmitPost(th)
    BY <1>2 DEF Pool!SubmitPost, PoolProofs!SubmitPost
  <2> QED BY <1>0, <2>1, PoolAssumption, PoolProofs!SubmitPostIInv
<1> QED BY <1>1, <1>2

LEMMA PoolRuns ==
  ASSUME PoolProofs!IInv, NEW w \in Workers
  PROVE  /\ Pool!StartTask(w) => PoolProofs!IInv'
         /\ Pool!SetValue(w)  => PoolProofs!IInv'
         /\ Pool!Return(w)    => PoolProofs!IInv'
         /\ Pool!Throw(w)     => PoolProofs!IInv'
<1>1. ASSUME Pool!StartTask(w) PROVE PoolProofs!IInv'
  <2>1. PoolProofs!StartTask(w)
    BY <1>1 DEF Pool!StartTask, PoolProofs!StartTask
  <2> QED BY <2>1, PoolAssumption, PoolProofs!StartTaskIInv
<1>2. ASSUME Pool!SetValue(w) PROVE PoolProofs!IInv'
  <2>1. PoolProofs!SetValue(w)
    BY <1>2 DEF Pool!SetValue, PoolProofs!SetValue, Pool!Settle, PoolProofs!Settle
  <2> QED BY <2>1, PoolAssumption, PoolProofs!SetValueIInv
<1>3. ASSUME Pool!Return(w) PROVE PoolProofs!IInv'
  <2>1. PoolProofs!Return(w)
    BY <1>3 DEF Pool!Return, PoolProofs!Return, Pool!InCall, PoolProofs!InCall
  <2> QED BY <2>1, PoolAssumption, PoolProofs!ReturnIInv
<1>4. ASSUME Pool!Throw(w) PROVE PoolProofs!IInv'
  <2>1. PoolProofs!Throw(w)
    BY <1>4 DEF Pool!Throw, PoolProofs!Throw, Pool!InCall, PoolProofs!InCall, Pool!Settle, PoolProofs!Settle
  <2> QED BY <2>1, PoolAssumption, PoolProofs!ThrowIInv
<1> QED BY <1>1, <1>2, <1>3, <1>4

LEMMA PoolRests ==
  ASSUME PoolProofs!IInv, UNCHANGED poolVars
  PROVE  PoolProofs!IInv'
<1>1. UNCHANGED PoolProofs!vars
  BY DEF poolVars, PoolProofs!vars
<1> QED BY <1>1, PoolAssumption, PoolProofs!StutterIInv

-----------------------------------------------------------------------------
(* Each step preserves the inductive invariant.                              *)

LEMMA ConstantFacts ==
  /\ HandleMod \in Nat \ {0}
  /\ MaxCalls \in [Ops -> Nat]
  /\ Ops = {"register", "subscribe", "unsubscribe", "raise"}
  /\ 0 \in Handles
BY EventSystemAssumption DEF Ops, Handles

LEMMA InitIInv == Init => IInv
<1> SUFFICES ASSUME Init PROVE IInv
  OBVIOUS
<1>1. PoolProofs!IInv
  BY PoolInit DEF Init
<1>2. Types
  <2>1. delegates \in [Events -> Seq(Handles)] /\ results \in [Threads -> Seq(Tasks)]
    BY DEF Init
  <2>2. /\ nextID \in [Events -> Handles] /\ made \in [Events -> Nat] /\ specFlag \in [Events -> BOOLEAN]
        /\ bindings \in [Events -> Nat]
    BY ConstantFacts DEF Init
  <2>3. calls \in [Ops -> Nat] /\ cursor \in [Threads -> Nat \ {0}] /\ spec \in [Threads -> Nat]
    BY DEF Init
  <2> QED BY <2>1, <2>2, <2>3 DEF Init, Types
<1>3. CallsAreSensible /\ FlagsExclude /\ SpecEventInUseIsAlive /\ HandlesIdentify
  BY DEF Init, CallsAreSensible, FlagsExclude, Holds, SpecEventInUseIsAlive, HandlesIdentify
<1>4. CounterFollows
  BY DEF Init, CounterFollows
<1>5. RaiseLoop
  BY DEF Init, Pool!Init, Pool!Threads, Threads, RaiseLoop, Working
<1> QED BY <1>1, <1>2, <1>3, <1>4, <1>5 DEF IInv

(* Returning from a call leaves everything typed and nothing of the call. *)
LEMMA ReturnTypes ==
  ASSUME Types, CallsAreSensible, NEW th \in Threads, ReturnFromCall(th)
  PROVE  /\ accessFlag' \in BOOLEAN
         /\ at' \in [Threads -> {"out", "spin", "locked", "working"}]
         /\ request' \in [Threads -> Requests \cup {NoRequest}]
         /\ spec' \in [Threads -> Nat]
         /\ cursor' \in [Threads -> Nat \ {0}]
         /\ results' \in [Threads -> Seq(Tasks)]
         /\ CallsAreSensible'
<1>1. accessFlag' \in BOOLEAN /\ at' \in [Threads -> {"out", "spin", "locked", "working"}]
  BY DEF Types, ReturnFromCall
<1>2. request' \in [Threads -> Requests \cup {NoRequest}]
  BY DEF Types, ReturnFromCall
<1>3. spec' \in [Threads -> Nat] /\ cursor' \in [Threads -> Nat \ {0}]
  BY DEF Types, ReturnFromCall
<1>4. results' \in [Threads -> Seq(Tasks)]
  BY DEF Types, ReturnFromCall
<1>5. CallsAreSensible'
  BY DEF Types, CallsAreSensible, Sensible, ReturnFromCall
<1> QED BY <1>1, <1>2, <1>3, <1>4, <1>5

LEMMA CallIInv ==
  ASSUME IInv, NEW th \in Threads, NEW r \in Requests, Call(th, r)
  PROVE  IInv'
<1> USE DEF IInv
<1>1. PoolProofs!IInv'
  BY PoolRests DEF Call
<1>2. Types' /\ CallsAreSensible'
  <2>1. UNCHANGED <<accessFlag, made, specFlag, delegates, nextID, bindings, spec, cursor, results, bound>>
    BY DEF eventVars, Call
  <2>2. at' \in [Threads -> {"out", "spin", "locked", "working"}]
    BY DEF Types, Call
  <2>3. request' \in [Threads -> Requests \cup {NoRequest}]
    BY DEF Types, Call
  <2>4. calls' \in [Ops -> Nat]
    <3>1. r.op \in Ops
      BY DEF Requests
    <3> QED BY <3>1 DEF Types, Call
  <2>5. Types'
    BY <2>1, <2>2, <2>3, <2>4 DEF Types
  <2>6. CallsAreSensible'
    BY DEF Types, CallsAreSensible, Call
  <2> QED BY <2>5, <2>6
<1>3. FlagsExclude' /\ SpecEventInUseIsAlive'
  BY DEF Types, FlagsExclude, Holds, SpecEventInUseIsAlive, eventVars, Call
<1>4. HandlesIdentify'
  BY DEF HandlesIdentify, eventVars, Call
<1>5. CounterFollows'
  BY DEF CounterFollows, eventVars, Call
<1>6. RaiseLoop'
  BY DEF Types, RaiseLoop, InLoopOf, Working, poolVars, eventVars, Call
<1> QED BY <1>1, <1>2, <1>3, <1>4, <1>5, <1>6

LEMMA LockSystemIInv ==
  ASSUME IInv, NEW th \in Threads, LockSystem(th)
  PROVE  IInv'
<1> USE DEF IInv
<1>1. PoolProofs!IInv'
  BY PoolRests DEF LockSystem
<1>2. Types' /\ CallsAreSensible'
  BY ConstantFacts DEF Types, CallsAreSensible, Requests, callVars, LockSystem
<1>3. FlagsExclude'
  BY DEF Types, CallsAreSensible, Requests, FlagsExclude, Holds, LockSystem
<1>4. SpecEventInUseIsAlive'
  BY DEF Types, CallsAreSensible, Requests, FlagsExclude, Holds, SpecEventInUseIsAlive, LockSystem
<1>5. HandlesIdentify'
  BY DEF HandlesIdentify, LockSystem
<1>6. CounterFollows'
  BY DEF CounterFollows, LockSystem
<1>7. RaiseLoop'
  BY DEF Types, FlagsExclude, Holds, RaiseLoop, InLoopOf, Working, poolVars, LockSystem
<1> QED BY <1>1, <1>2, <1>3, <1>4, <1>5, <1>6, <1>7

LEMMA RegisterIInv ==
  ASSUME IInv, NEW th \in Threads, Register(th)
  PROVE  IInv'
<1> USE DEF IInv
<1>1. PoolProofs!IInv'
  BY PoolRests DEF Register
<1>2. Types' /\ CallsAreSensible'
  <2>1. ReturnFromCall(th)
    BY DEF Register
  <2>2. /\ made' \in [Events -> Nat] /\ specFlag' \in [Events -> BOOLEAN]
        /\ delegates' \in [Events -> Seq(Handles)] /\ nextID' \in [Events -> Handles]
        /\ bindings' \in [Events -> Nat]
    <3>0. PICK e \in Events : e = request[th].event
      BY DEF CallsAreSensible, Requests, Register
    <3>1. /\ made \in [Events -> Nat] /\ specFlag \in [Events -> BOOLEAN]
          /\ delegates \in [Events -> Seq(Handles)] /\ nextID \in [Events -> Handles]
      BY DEF Types
    <3>2. made' = [made EXCEPT ![e] = @ + 1] /\ specFlag' = [specFlag EXCEPT ![e] = FALSE]
      BY <3>0 DEF NewSpecEvent, Register
    <3>3. delegates' = [delegates EXCEPT ![e] = <<>>] /\ nextID' = [nextID EXCEPT ![e] = 0]
      BY <3>0 DEF NewSpecEvent, Register
    <3>4. made' \in [Events -> Nat] /\ specFlag' \in [Events -> BOOLEAN]
      BY <3>1, <3>2
    <3>5. delegates' \in [Events -> Seq(Handles)]
      <4>1. <<>> \in Seq(Handles)
        OBVIOUS
      <4> QED BY <3>1, <3>3, <4>1
    <3>6. nextID' \in [Events -> Handles]
      BY <3>1, <3>3, ConstantFacts
    <3>7. bindings' \in [Events -> Nat]
      BY <3>0 DEF Types, NewSpecEvent, Register
    <3> QED BY <3>4, <3>5, <3>6, <3>7
  <2> QED BY <2>1, <2>2, ReturnTypes DEF Types, Register
<1>3. FlagsExclude'
  BY DEF Types, CallsAreSensible, Requests, FlagsExclude, Holds, NewSpecEvent, ReturnFromCall, Register
<1>4. SpecEventInUseIsAlive'
  BY DEF Types, CallsAreSensible, Requests, FlagsExclude, Holds, SpecEventInUseIsAlive, NewSpecEvent, ReturnFromCall, Register
<1>5. HandlesIdentify'
  BY DEF Types, HandlesIdentify, NewSpecEvent, Register
<1>6. CounterFollows'
  BY DEF Types, CounterFollows, NewSpecEvent, Register
<1>7. RaiseLoop'
  BY DEF Types, FlagsExclude, Holds, RaiseLoop, InLoopOf, Working, poolVars, ReturnFromCall, NewSpecEvent, Register
<1> QED BY <1>1, <1>2, <1>3, <1>4, <1>5, <1>6, <1>7

LEMMA FindNothingIInv ==
  ASSUME IInv, NEW th \in Threads, FindNothing(th)
  PROVE  IInv'
<1> USE DEF IInv
<1>1. PoolProofs!IInv'
  BY PoolRests DEF FindNothing
<1>2. Types' /\ CallsAreSensible'
  <2>1. ReturnFromCall(th)
    BY DEF FindNothing
  <2>2. /\ made' \in [Events -> Nat] /\ specFlag' \in [Events -> BOOLEAN]
        /\ delegates' \in [Events -> Seq(Handles)] /\ nextID' \in [Events -> Handles]
        /\ bindings' \in [Events -> Nat]
    BY ConstantFacts DEF Types, FindNothing
  <2> QED BY <2>1, <2>2, ReturnTypes DEF Types, FindNothing
<1>3. FlagsExclude'
  BY DEF Types, CallsAreSensible, Requests, FlagsExclude, Holds, ReturnFromCall, FindNothing
<1>4. SpecEventInUseIsAlive'
  BY DEF Types, CallsAreSensible, Requests, FlagsExclude, Holds, SpecEventInUseIsAlive, ReturnFromCall, FindNothing
<1>5. HandlesIdentify'
  BY DEF HandlesIdentify, FindNothing
<1>6. CounterFollows'
  BY DEF CounterFollows, FindNothing
<1>7. RaiseLoop'
  BY DEF Types, FlagsExclude, Holds, RaiseLoop, InLoopOf, Working, poolVars, ReturnFromCall, FindNothing
<1> QED BY <1>1, <1>2, <1>3, <1>4, <1>5, <1>6, <1>7

LEMMA LockSpecIInv ==
  ASSUME IInv, NEW th \in Threads, LockSpec(th)
  PROVE  IInv'
<1> USE DEF IInv
<1>1. PoolProofs!IInv'
  BY PoolRests DEF LockSpec
<1>2. Types' /\ CallsAreSensible'
  BY ConstantFacts DEF Types, CallsAreSensible, Requests, callVars, LockSpec
<1>3. FlagsExclude'
  BY DEF Types, CallsAreSensible, Requests, FlagsExclude, Holds, LockSpec
<1>4. SpecEventInUseIsAlive'
  BY DEF Types, CallsAreSensible, Requests, FlagsExclude, Holds, SpecEventInUseIsAlive, LockSpec
<1>5. HandlesIdentify'
  BY DEF HandlesIdentify, LockSpec
<1>6. CounterFollows'
  BY DEF CounterFollows, LockSpec
<1>7. RaiseLoop'
  BY DEF Types, FlagsExclude, Holds, RaiseLoop, InLoopOf, Working, poolVars, LockSpec
<1> QED BY <1>1, <1>2, <1>3, <1>4, <1>5, <1>6, <1>7

(* The request of a thread at work, and the handle that bind gives out: the  *)
(* counter's next value, until it wraps.                                     *)
LEMMA BindHandle ==
  ASSUME IInv, NEW th \in Threads, Bind(th), NEW e, e = request[th].event
  PROVE  \E h \in Handles :
           /\ e \in Events
           /\ nextID[e] \in Nat /\ bindings[e] \in Nat
           /\ bindings[e] < HandleMod => nextID[e] = bindings[e]
           /\ bindings[e] + 1 < HandleMod => h = nextID[e] + 1
           /\ bindings[e] + 1 = HandleMod => h = 0
           /\ nextID' = [nextID EXCEPT ![e] = h]
           /\ bindings' = [bindings EXCEPT ![e] = bindings[e] + 1]
           /\ delegates' = [delegates EXCEPT ![e] = Append(delegates[e], h)]
<1> USE DEF IInv
<1>1. e \in Events
  BY DEF CallsAreSensible, Requests, Bind, Working
<1>2. PICK n \in Nat : n = nextID[e]
  BY <1>1, ConstantFacts DEF Types, Handles
<1>3. PICK M \in Nat \ {0} : M = HandleMod
  BY ConstantFacts
<1>4. PICK h : h = (n + 1) % M
  OBVIOUS
<1>5. h \in Handles
  <2>1. h \in 0..(M - 1)
    BY <1>4
  <2> QED BY <1>3, <2>1 DEF Handles
<1>6. bindings[e] \in Nat /\ (bindings[e] < HandleMod => n = bindings[e])
  BY <1>1, <1>2 DEF Types, CounterFollows
<1>7. ASSUME bindings[e] + 1 < HandleMod PROVE h = n + 1
  <2>1. n + 1 < M /\ n + 1 \in Nat
    BY <1>3, <1>6, <1>7
  <2> QED BY <1>4, <2>1
<1>8. ASSUME bindings[e] + 1 = HandleMod PROVE h = 0
  <2>1. n + 1 = M
    BY <1>3, <1>6, <1>8
  <2>2. M % M = 0
    OBVIOUS
  <2> QED BY <1>4, <2>1, <2>2
<1>9. /\ nextID' = [nextID EXCEPT ![e] = h]
      /\ bindings' = [bindings EXCEPT ![e] = bindings[e] + 1]
      /\ delegates' = [delegates EXCEPT ![e] = Append(delegates[e], h)]
  BY <1>2, <1>3, <1>4 DEF Bind
<1> QED BY <1>1, <1>2, <1>5, <1>6, <1>7, <1>8, <1>9

(* HandlesIdentify says that the lists of handles are increasing. *)
LEMMA HandlesAreIncreasing ==
  HandlesIdentify <=> \A e \in Events : bindings[e] < HandleMod =>
                                        /\ Increasing(delegates[e])
                                        /\ \A i \in 1..Len(delegates[e]) : delegates[e][i] \in 1..nextID[e]
BY DEF HandlesIdentify, Increasing

(* A list of handles is a sequence of numbers. *)
LEMMA HandleLists ==
  ASSUME NEW s \in Seq(Handles)
  PROVE  s \in Seq(Int)
<1>1. \A i \in 1..Len(s) : s[i] \in Int
  <2>1. \A i \in 1..Len(s) : s[i] \in Handles
    OBVIOUS
  <2>2. Handles \subseteq Int
    BY ConstantFacts DEF Handles
  <2> QED BY <2>1, <2>2
<1> QED BY <1>1

LEMMA BindIInv ==
  ASSUME IInv, NEW th \in Threads, Bind(th)
  PROVE  IInv'
<1> USE DEF IInv
<1>0. PICK e : e = request[th].event
  OBVIOUS
<1>1. PICK h \in Handles :
           /\ e \in Events
           /\ nextID[e] \in Nat /\ bindings[e] \in Nat
           /\ bindings[e] < HandleMod => nextID[e] = bindings[e]
           /\ bindings[e] + 1 < HandleMod => h = nextID[e] + 1
           /\ bindings[e] + 1 = HandleMod => h = 0
           /\ nextID' = [nextID EXCEPT ![e] = h]
           /\ bindings' = [bindings EXCEPT ![e] = bindings[e] + 1]
           /\ delegates' = [delegates EXCEPT ![e] = Append(delegates[e], h)]
  BY <1>0, BindHandle
<1>2. PoolProofs!IInv'
  BY PoolRests DEF Bind
<1>3. Types' /\ CallsAreSensible'
  <2>1. ReturnFromCall(th)
    BY DEF Bind, Leave
  <2>2. made' \in [Events -> Nat] /\ specFlag' \in [Events -> BOOLEAN]
    BY DEF Types, Leave, Bind
  <2>3. delegates' \in [Events -> Seq(Handles)]
    BY <1>1 DEF Types
  <2>4. nextID' \in [Events -> Handles] /\ bindings' \in [Events -> Nat]
    BY <1>1 DEF Types
  <2> QED BY <2>1, <2>2, <2>3, <2>4, ReturnTypes DEF Types, Bind
<1>4. FlagsExclude'
  BY DEF Types, CallsAreSensible, Requests, FlagsExclude, Holds, Working, Leave, ReturnFromCall, Bind
<1>5. SpecEventInUseIsAlive'
  BY DEF Types, FlagsExclude, Holds, SpecEventInUseIsAlive, Working, Leave, ReturnFromCall, Bind
<1>6. HandlesIdentify'
  <2>1. ASSUME NEW d \in Events, bindings'[d] < HandleMod
        PROVE  Increasing(delegates'[d]) /\ \A i \in 1..Len(delegates'[d]) : delegates'[d][i] \in 1..nextID'[d]
    <3>1. CASE d # e
      BY <1>1, <2>1, <3>1, HandlesAreIncreasing DEF Types
    <3>2. CASE d = e
      <4>0. /\ bindings[e] + 1 < HandleMod /\ bindings[e] < HandleMod
            /\ h = nextID[e] + 1
        <5>1. bindings'[e] = bindings[e] + 1
          BY <1>1 DEF Types
        <5>2. bindings[e] + 1 < HandleMod
          BY <2>1, <3>2, <5>1
        <5>3. bindings[e] < HandleMod
          BY <1>1, <5>2, ConstantFacts
        <5> QED BY <1>1, <5>2, <5>3
      <4>1. /\ delegates[e] \in Seq(Int) /\ Increasing(delegates[e]) /\ h \in Int
            /\ \A i \in 1..Len(delegates[e]) : delegates[e][i] \in 1..nextID[e]
        <5>1. delegates[e] \in Seq(Handles)
          BY <1>1 DEF Types
        <5>2. h \in Int
          BY <1>1, <4>0
        <5> QED BY <1>1, <4>0, <5>1, <5>2, HandleLists, HandlesAreIncreasing
      <4>2. delegates'[e] = Append(delegates[e], h) /\ nextID'[e] = h
        BY <1>1 DEF Types
      <4>3. /\ Increasing(Append(delegates[e], h))
            /\ \A i \in 1..Len(Append(delegates[e], h)) : Append(delegates[e], h)[i] \in 1..h
        BY <1>1, <4>0, <4>1, NextNumber, Zenon
      <4> QED BY <3>2, <4>2, <4>3
    <3> QED BY <3>1, <3>2
  <2> QED BY <2>1 DEF HandlesIdentify, Increasing
<1>7. CounterFollows'
  <2>1. ASSUME NEW d \in Events, bindings'[d] < HandleMod
        PROVE  nextID'[d] = bindings'[d]
    <3>1. CASE d # e
      BY <1>1, <2>1, <3>1 DEF Types, CounterFollows
    <3>2. CASE d = e
      <4>1. bindings'[e] = bindings[e] + 1 /\ nextID'[e] = h
        BY <1>1 DEF Types
      <4>2. bindings[e] + 1 < HandleMod /\ bindings[e] < HandleMod
        BY <1>1, <2>1, <3>2, <4>1, ConstantFacts
      <4> QED BY <1>1, <3>2, <4>1, <4>2
    <3> QED BY <3>1, <3>2
  <2> QED BY <2>1 DEF CounterFollows
<1>8. RaiseLoop'
  BY DEF Types, FlagsExclude, Holds, RaiseLoop, InLoopOf, Working, poolVars, Leave, ReturnFromCall, Bind
<1> QED BY <1>2, <1>3, <1>4, <1>5, <1>6, <1>7, <1>8

LEMMA UnbindIInv ==
  ASSUME IInv, NEW th \in Threads, Unbind(th)
  PROVE  IInv'
<1> USE DEF IInv
<1> DEFINE e == request[th].event
           left == Without(delegates[e], request[th].handle)
<1>0. e \in Events
  BY DEF CallsAreSensible, Requests, Unbind, Working
<1>1. PoolProofs!IInv'
  BY PoolRests DEF Unbind
<1>2. /\ left \in Seq(Handles)
      /\ bindings[e] < HandleMod => /\ Increasing(left)
                                   /\ \A i \in 1..Len(left) : left[i] \in 1..nextID[e]
  <2>1. delegates[e] \in Seq(Handles) /\ delegates[e] \in Seq(Int)
    BY <1>0, HandleLists DEF Types
  <2>2. bindings[e] < HandleMod =>
          Increasing(delegates[e]) /\ \A i \in 1..Len(delegates[e]) : delegates[e][i] \in 1..nextID[e]
    BY <1>0, HandlesAreIncreasing
  <2>3. left \in Seq(Handles) /\ From(left, delegates[e], Len(delegates[e]), request[th].handle)
    BY <2>1, WithoutType
  <2>4. Increasing(delegates[e]) => Increasing(left)
    BY <2>1, WithoutOrder
  <2> HIDE DEF left
  <2> QED BY <2>2, <2>3, <2>4 DEF From
<1>3. delegates' = [delegates EXCEPT ![e] = left] /\ nextID' = nextID /\ bindings' = bindings
      /\ made' = made /\ calls' = calls
  BY DEF Unbind
<1> HIDE DEF left
<1>4. Types' /\ CallsAreSensible'
  <2>1. ReturnFromCall(th)
    BY DEF Unbind, Leave
  <2>2. specFlag' \in [Events -> BOOLEAN] /\ delegates' \in [Events -> Seq(Handles)]
    BY <1>0, <1>2, <1>3 DEF Types, Leave, Unbind
  <2> QED BY <1>3, <2>1, <2>2, ReturnTypes DEF Types, Unbind
<1>5. FlagsExclude'
  BY DEF Types, CallsAreSensible, Requests, FlagsExclude, Holds, Working, Leave, ReturnFromCall, Unbind
<1>6. SpecEventInUseIsAlive'
  BY DEF Types, FlagsExclude, Holds, SpecEventInUseIsAlive, Working, Leave, ReturnFromCall, Unbind
<1>7. HandlesIdentify'
  <2>1. ASSUME NEW d \in Events, bindings'[d] < HandleMod
        PROVE  Increasing(delegates'[d]) /\ \A i \in 1..Len(delegates'[d]) : delegates'[d][i] \in 1..nextID'[d]
    BY <1>0, <1>2, <1>3, <2>1, HandlesAreIncreasing DEF Types
  <2> QED BY <2>1 DEF HandlesIdentify, Increasing
<1>8. CounterFollows'
  BY DEF CounterFollows, Unbind
<1>9. RaiseLoop'
  BY DEF Types, FlagsExclude, Holds, RaiseLoop, InLoopOf, Working, poolVars, Leave, ReturnFromCall, Unbind
<1> QED BY <1>1, <1>4, <1>5, <1>6, <1>7, <1>8, <1>9

(* call()'s loop takes a task that was not submitted before, so the functors *)
(* bound in earlier tasks stay.                                              *)
LEMMA SubmitDelegateLoop ==
  ASSUME IInv, NEW th \in Threads, SubmitDelegate(th), NEW e, e = request[th].event
  PROVE  \E t \in Tasks :
           /\ future[t] = "none" /\ Pool!SubmitCount(th, t)
           /\ e \in Events
           /\ submitting[th] = NoTask /\ submitting' = [submitting EXCEPT ![th] = t]
           /\ future' = [future EXCEPT ![t] = "pending"]
           /\ cursor[th] \in 1..Len(delegates[e])
           /\ Len(results[th]) = cursor[th] - 1
           /\ bound' = [bound EXCEPT ![t] = <<e, delegates[e][cursor[th]]>>]
           /\ results' = [results EXCEPT ![th] = Append(results[th], t)]
           /\ \A i \in 1..Len(results[th]) : results[th][i] # t
<1> USE DEF IInv
<1>1. PICK t \in Tasks : t = FreshTask /\ future[t] = "none"
  BY DEF SubmitDelegate, FreshTask
<1>2. /\ Pool!SubmitCount(th, t)
      /\ bound' = [bound EXCEPT ![t] = <<e, delegates[e][cursor[th]]>>]
      /\ results' = [results EXCEPT ![th] = Append(results[th], t)]
  BY <1>1 DEF SubmitDelegate
<1>3. /\ submitting[th] = NoTask /\ submitting' = [submitting EXCEPT ![th] = t]
      /\ future' = [future EXCEPT ![t] = "pending"]
  BY <1>2 DEF Pool!SubmitCount, Pool!MaySubmit
<1>4. e \in Events
  BY DEF CallsAreSensible, Requests, SubmitDelegate, Working
<1>5. InLoopOf(th, delegates[e], e)
  BY DEF RaiseLoop, SubmitDelegate
<1>6. cursor[th] \in 1..Len(delegates[e]) /\ Len(results[th]) = cursor[th] - 1
  <2>1. cursor[th] \in Nat \ {0} /\ delegates[e] \in Seq(Handles)
    BY <1>4 DEF Types
  <2>2. cursor[th] <= Len(delegates[e])
    BY DEF SubmitDelegate
  <2> QED BY <1>3, <1>5, <2>1, <2>2 DEF InLoopOf
<1>7. \A i \in 1..Len(results[th]) : results[th][i] # t
  BY <1>1, <1>5 DEF InLoopOf
<1> QED BY <1>1, <1>2, <1>3, <1>4, <1>6, <1>7

LEMMA SubmitDelegateIInv ==
  ASSUME IInv, NEW th \in Threads, SubmitDelegate(th)
  PROVE  IInv'
<1> USE DEF IInv
<1>0. PICK e : e = request[th].event
  OBVIOUS
<1>1. PICK t \in Tasks :
           /\ future[t] = "none" /\ Pool!SubmitCount(th, t)
           /\ e \in Events
           /\ submitting[th] = NoTask /\ submitting' = [submitting EXCEPT ![th] = t]
           /\ future' = [future EXCEPT ![t] = "pending"]
           /\ cursor[th] \in 1..Len(delegates[e])
           /\ Len(results[th]) = cursor[th] - 1
           /\ bound' = [bound EXCEPT ![t] = <<e, delegates[e][cursor[th]]>>]
           /\ results' = [results EXCEPT ![th] = Append(results[th], t)]
           /\ \A i \in 1..Len(results[th]) : results[th][i] # t
  BY <1>0, SubmitDelegateLoop
<1>2. PoolProofs!IInv'
  BY <1>1, PoolSubmits
<1>3. /\ UNCHANGED eventVars
      /\ at' = at /\ request' = request /\ spec' = spec /\ cursor' = cursor /\ calls' = calls
  BY DEF SubmitDelegate
<1>4. Types'
  <2>1. delegates[e] \in Seq(Handles) /\ results \in [Threads -> Seq(Tasks)]
        /\ bound \in [Tasks -> (Events \X Handles) \cup {NoDelegate}]
    BY <1>1 DEF Types
  <2>2. delegates[e][cursor[th]] \in Handles
    BY <1>1, <2>1
  <2>3. bound' \in [Tasks -> (Events \X Handles) \cup {NoDelegate}]
    BY <1>1, <2>1, <2>2
  <2>4. Append(results[th], t) \in Seq(Tasks)
    BY <2>1
  <2>5. results' \in [Threads -> Seq(Tasks)]
    BY <1>1, <2>1, <2>4
  <2> QED BY <1>3, <2>3, <2>5 DEF Types, eventVars
<1>5. CallsAreSensible' /\ FlagsExclude' /\ SpecEventInUseIsAlive' /\ HandlesIdentify'
  BY <1>3 DEF CallsAreSensible, FlagsExclude, Holds, SpecEventInUseIsAlive, HandlesIdentify, eventVars
<1>6. CounterFollows'
  BY <1>3 DEF CounterFollows, eventVars
<1>7. RaiseLoop'
  <2>1. /\ submitting \in [Threads -> Tasks \cup {NoTask}] /\ NoTask \notin Tasks
        /\ future \in [Tasks -> {"none", "pending", "value", "exception", "broken"}]
        /\ results \in [Threads -> Seq(Tasks)] /\ cursor[th] \in Nat \ {0}
        /\ bound \in [Tasks -> (Events \X Handles) \cup {NoDelegate}]
    BY PoolFacts, EventSystemAssumption DEF Types
  <2>2. ASSUME NEW a \in Threads, a # th
        PROVE  ~Working(a, "raise") /\ submitting'[a] = NoTask /\ cursor'[a] = 1 /\ results'[a] = <<>>
    <3>1. ~Working(a, "raise")
      BY <2>2 DEF FlagsExclude, Holds, Working, SubmitDelegate
    <3> QED BY <1>1, <1>3, <2>1, <2>2, <3>1 DEF RaiseLoop
  <2>3. InLoopOf(th, delegates[e], e)'
    <3>1. /\ InLoopOf(th, delegates[e], e)
          /\ results'[th] = Append(results[th], t)
          /\ submitting'[th] = t /\ t # NoTask
          /\ Len(results'[th]) = cursor[th]
          /\ results'[th][cursor[th]] = t
      BY <1>0, <1>1, <2>1 DEF RaiseLoop, SubmitDelegate
    <3>2. ASSUME NEW i \in 1..Len(results'[th])
          PROVE  bound'[results'[th][i]] = <<e, delegates[e][i]>> /\ future'[results'[th][i]] # "none"
      <4>1. CASE i = cursor[th]
        BY <1>1, <2>1, <3>1, <4>1
      <4>2. CASE i # cursor[th]
        <5>1. i \in 1..Len(results[th]) /\ results'[th][i] = results[th][i] /\ results[th][i] \in Tasks
              /\ results[th][i] # t
          BY <1>1, <2>1, <3>1, <4>2
        <5>2. bound'[results[th][i]] = bound[results[th][i]] /\ future'[results[th][i]] = future[results[th][i]]
          BY <1>1, <2>1, <5>1
        <5> QED BY <3>1, <5>1, <5>2 DEF InLoopOf
      <4> QED BY <4>1, <4>2
    <3> QED BY <1>0, <1>1, <1>3, <2>1, <3>1, <3>2 DEF InLoopOf, eventVars
  <2>4. Working(th, "raise") /\ (\A a \in Threads : Working(a, "raise")' <=> Working(a, "raise"))
    BY <1>3 DEF SubmitDelegate, Working
  <2> QED BY <1>0, <1>3, <2>2, <2>3, <2>4 DEF RaiseLoop, eventVars
<1> QED BY <1>2, <1>4, <1>5, <1>6, <1>7

LEMMA PostDelegateIInv ==
  ASSUME IInv, NEW th \in Threads, PostDelegate(th)
  PROVE  IInv'
<1> USE DEF IInv
<1>1. PoolProofs!IInv'
  BY PoolSubmits DEF PostDelegate
<1>2. /\ UNCHANGED <<eventVars, at, request, spec, results, bound, calls>>
      /\ cursor' = [cursor EXCEPT ![th] = @ + 1]
      /\ submitting[th] # NoTask /\ submitting' = [submitting EXCEPT ![th] = NoTask] /\ future' = future
      /\ Working(th, "raise")
  BY DEF PostDelegate, Pool!SubmitPost
<1>3. Types'
  <2>1. cursor' \in [Threads -> Nat \ {0}]
    BY <1>2 DEF Types
  <2> QED BY <1>2, <2>1 DEF Types, eventVars
<1>4. CallsAreSensible' /\ FlagsExclude' /\ SpecEventInUseIsAlive' /\ HandlesIdentify'
  BY <1>2 DEF CallsAreSensible, FlagsExclude, Holds, SpecEventInUseIsAlive, HandlesIdentify, eventVars
<1>5. CounterFollows'
  BY <1>2 DEF CounterFollows, eventVars
<1>6. RaiseLoop'
  <2>1. submitting \in [Threads -> Tasks \cup {NoTask}]
    BY PoolFacts
  <2>2. ASSUME NEW a \in Threads, a # th
        PROVE  ~Working(a, "raise") /\ submitting'[a] = NoTask /\ cursor'[a] = 1 /\ results'[a] = <<>>
    <3>1. ~Working(a, "raise")
      BY <1>2, <2>2 DEF FlagsExclude, Holds, Working
    <3> QED BY <1>2, <2>1, <2>2, <3>1 DEF RaiseLoop, Types
  <2>3. ASSUME NEW e, e = request[th].event
        PROVE  InLoopOf(th, delegates[e], e)'
    <3>1. InLoopOf(th, delegates[e], e)
      BY <1>2, <2>3 DEF RaiseLoop
    <3>2. e \in Events /\ delegates[e] \in Seq(Handles) /\ cursor[th] \in Nat \ {0}
      BY <1>2, <2>3 DEF CallsAreSensible, Requests, Working, Types
    <3>3. cursor'[th] = cursor[th] + 1 /\ submitting'[th] = NoTask /\ results' = results
          /\ bound' = bound /\ delegates' = delegates
      BY <1>2, <2>1 DEF Types, eventVars
    <3>4. /\ cursor[th] <= Len(delegates[e]) /\ Len(results[th]) = cursor[th]
          /\ \A i \in 1..Len(results[th]) : /\ bound[results[th][i]] = <<e, delegates[e][i]>>
                                            /\ future[results[th][i]] # "none"
      BY <1>2, <3>1 DEF InLoopOf
    <3>5. cursor'[th] <= Len(delegates[e]) + 1 /\ Len(results[th]) = cursor'[th] - 1
      <4>1. Len(delegates[e]) \in Nat
        BY <3>2
      <4> QED BY <3>2, <3>3, <3>4, <4>1
    <3> QED BY <1>2, <3>3, <3>4, <3>5 DEF InLoopOf
  <2>4. \A a \in Threads : Working(a, "raise")' <=> Working(a, "raise")
    BY <1>2 DEF Working
  <2> QED BY <1>2, <2>2, <2>3, <2>4 DEF RaiseLoop, eventVars
<1> QED BY <1>1, <1>3, <1>4, <1>5, <1>6

LEMMA EndRaiseIInv ==
  ASSUME IInv, NEW th \in Threads, EndRaise(th)
  PROVE  IInv'
<1> USE DEF IInv
<1>1. PoolProofs!IInv'
  BY PoolRests DEF EndRaise
<1>2. Types' /\ CallsAreSensible'
  <2>1. ReturnFromCall(th)
    BY DEF EndRaise, Leave
  <2>2. specFlag' \in [Events -> BOOLEAN]
    BY DEF Types, Leave, EndRaise
  <2> QED BY <2>1, <2>2, ReturnTypes DEF Types, EndRaise
<1>3. FlagsExclude'
  BY DEF Types, CallsAreSensible, Requests, FlagsExclude, Holds, Working, Leave, ReturnFromCall, EndRaise
<1>4. SpecEventInUseIsAlive'
  BY DEF Types, FlagsExclude, Holds, SpecEventInUseIsAlive, Working, Leave, ReturnFromCall, EndRaise
<1>5. HandlesIdentify'
  BY DEF HandlesIdentify, EndRaise
<1>6. CounterFollows'
  BY DEF CounterFollows, EndRaise
<1>7. RaiseLoop'
  BY DEF Types, FlagsExclude, Holds, RaiseLoop, InLoopOf, Working, poolVars, Leave, ReturnFromCall, EndRaise
<1> QED BY <1>1, <1>2, <1>3, <1>4, <1>5, <1>6, <1>7

LEMMA RunStepIInv ==
  ASSUME IInv, NEW w \in Workers, RunStep(w)
  PROVE  IInv'
<1> USE DEF IInv
<1>1. PoolProofs!IInv'
  BY PoolRuns DEF RunStep
<1>2. UNCHANGED <<eventVars, callVars, bound, calls>>
  BY DEF RunStep
<1>3. /\ Types' /\ CallsAreSensible' /\ FlagsExclude' /\ SpecEventInUseIsAlive' /\ HandlesIdentify'
      /\ CounterFollows'
  BY <1>2 DEF Types, CallsAreSensible, FlagsExclude, Holds, SpecEventInUseIsAlive, HandlesIdentify,
              CounterFollows, eventVars, callVars
<1>4. /\ submitting' = submitting
      /\ \A t \in Tasks : future[t] # "none" => future'[t] # "none"
  <2>1. future \in [Tasks -> {"none", "pending", "value", "exception", "broken"}]
    BY PoolFacts
  <2> QED BY <2>1 DEF RunStep, Pool!StartTask, Pool!Return, Pool!Throw, Pool!SetValue, Pool!Settle
<1>5. RaiseLoop'
  <2>1. ASSUME NEW th \in Threads, NEW list, NEW e, InLoopOf(th, list, e)
        PROVE  InLoopOf(th, list, e)'
    <3>1. results[th] \in Seq(Tasks)
      BY DEF Types
    <3> QED BY <1>2, <1>4, <2>1, <3>1 DEF InLoopOf, callVars
  <2>2. \A th \in Threads : Working(th, "raise")' <=> Working(th, "raise")
    BY <1>2 DEF Working, callVars
  <2> QED BY <1>2, <1>4, <2>1, <2>2 DEF RaiseLoop, eventVars, callVars
<1> QED BY <1>1, <1>3, <1>5

LEMMA StutterIInv ==
  ASSUME IInv, UNCHANGED vars
  PROVE  IInv'
<1> USE DEF IInv
<1>1. PoolProofs!IInv'
  BY PoolRests DEF vars
<1>2. /\ Types' /\ CallsAreSensible' /\ FlagsExclude' /\ SpecEventInUseIsAlive' /\ HandlesIdentify'
      /\ CounterFollows'
  BY DEF Types, CallsAreSensible, FlagsExclude, Holds, SpecEventInUseIsAlive, HandlesIdentify,
         CounterFollows, eventVars, callVars, vars
<1>3. RaiseLoop'
  BY DEF RaiseLoop, InLoopOf, Working, poolVars, eventVars, callVars, vars
<1> QED BY <1>1, <1>2, <1>3

LEMMA NextIInv ==
  ASSUME IInv, Next
  PROVE  IInv'
<1>1. ASSUME NEW th \in Threads, HolderStep(th) PROVE IInv'
  BY <1>1, RegisterIInv, FindNothingIInv, LockSpecIInv, BindIInv, UnbindIInv, SubmitDelegateIInv,
     PostDelegateIInv, EndRaiseIInv DEF HolderStep
<1>2. ASSUME AtRest PROVE IInv'
  BY <1>2, StutterIInv DEF AtRest
<1> QED BY <1>1, <1>2, CallIInv, LockSystemIInv, RunStepIInv DEF Next

(* In every reachable state the pool below keeps its invariant, the flags    *)
(* exclude, the counters are bounded, and call()'s loop is where it says.    *)
THEOREM InductiveInvariant == Spec => []IInv
<1>1. Init => IInv
  BY InitIInv
<1>2. IInv /\ [Next]_vars => IInv'
  BY NextIInv, StutterIInv
<1> QED BY <1>1, <1>2, PTL DEF Spec

(* What EventSystem keeps is of the types it declares; the handle counter    *)
(* stays within its 32 bits.                                                 *)
THEOREM TypeCorrect == Spec => []TypeOK
<1>1. IInv => TypeOK
  <2> SUFFICES ASSUME IInv PROVE TypeOK
    OBVIOUS
  <2>1. Pool!TypeOK
    BY PoolFacts DEF IInv
  <2> QED BY <2>1 DEF IInv, Types, TypeOK
<1> QED BY <1>1, InductiveInvariant, PTL

(* However many threads and functors call at once, at most one thread is     *)
(* inside the EventSystem, and the flags say so.                             *)
THEOREM FlagsCorrect == Spec => []FlagsExclude
<1>1. IInv => FlagsExclude
  BY DEF IInv
<1> QED BY <1>1, InductiveInvariant, PTL

(* No registration destroys the SpecEvent that a thread works on.            *)
THEOREM InUseCorrect == Spec => []SpecEventInUseIsAlive
<1>1. IInv => SpecEventInUseIsAlive
  BY DEF IInv
<1> QED BY <1>1, InductiveInvariant, PTL

(* A handle names one functor of its SpecEvent among the first 2^32 - 1 that *)
(* are bound in it, however many SpecEvents there were before and however    *)
(* many calls are made.                                                      *)
THEOREM HandlesCorrect == Spec => []HandlesIdentify
<1>1. IInv => HandlesIdentify
  BY DEF IInv
<1> QED BY <1>1, InductiveInvariant, PTL

-----------------------------------------------------------------------------
(* Only the end of call() takes a thread out of a raise.                     *)

LEMMA OnlyEndRaiseLeaves ==
  ASSUME IInv, Next, NEW th \in Threads, Working(th, "raise"), at'[th] = "out"
  PROVE  EndRaise(th)
<1> USE DEF IInv
<1>0. at \in [Threads -> {"out", "spin", "locked", "working"}] /\ at[th] = "working" /\ request[th].op = "raise"
  BY DEF Types, Working
<1>1. ASSUME NEW a \in Threads, NEW r \in Requests, Call(a, r) PROVE FALSE
  BY <1>0, <1>1 DEF Call
<1>2. ASSUME NEW a \in Threads, LockSystem(a) PROVE FALSE
  BY <1>0, <1>2 DEF LockSystem
<1>3. ASSUME NEW a \in Threads, Register(a) \/ FindNothing(a) \/ LockSpec(a) PROVE FALSE
  BY <1>0, <1>3 DEF Register, FindNothing, LockSpec, ReturnFromCall
<1>4. ASSUME NEW a \in Threads, Bind(a) \/ Unbind(a) PROVE FALSE
  BY <1>0, <1>4 DEF Bind, Unbind, Working, Leave, ReturnFromCall
<1>5. ASSUME NEW a \in Threads, SubmitDelegate(a) \/ PostDelegate(a) PROVE FALSE
  BY <1>0, <1>5 DEF SubmitDelegate, PostDelegate
<1>6. ASSUME NEW a \in Threads, EndRaise(a) PROVE a = th
  BY <1>0, <1>6 DEF EndRaise, Leave, ReturnFromCall
<1>7. ASSUME NEW w \in Workers, RunStep(w) PROVE FALSE
  BY <1>0, <1>7 DEF RunStep, callVars
<1>8. ASSUME AtRest PROVE FALSE
  BY <1>0, <1>8 DEF AtRest
<1> QED BY <1>1, <1>2, <1>3, <1>4, <1>5, <1>6, <1>7, <1>8 DEF Next, HolderStep

(* raiseEvent returns one future per functor, in their order, whatever the   *)
(* workers and the other threads do meanwhile.                               *)
THEOREM RaiseCorrect == Spec => RaiseReturnsOneFuturePerFunctor
<1> DEFINE Complete(th) == LET e == request[th].event IN
             /\ Len(results[th]) = Len(delegates[e])
             /\ \A i \in 1..Len(delegates[e]) : bound[results[th][i]] = <<e, delegates[e][i]>>
           Raises == \A th \in Threads : Working(th, "raise") /\ at'[th] = "out" => Complete(th)
<1>1. IInv /\ [Next]_vars => [Raises]_vars
  <2> SUFFICES ASSUME IInv, Next, NEW th \in Threads, Working(th, "raise"), at'[th] = "out"
               PROVE  Complete(th)
    OBVIOUS
  <2> USE DEF IInv
  <2>1. EndRaise(th)
    BY OnlyEndRaiseLeaves
  <2> DEFINE e == request[th].event
  <2>2. InLoopOf(th, delegates[e], e) /\ submitting[th] = NoTask /\ cursor[th] > Len(delegates[e])
    BY <2>1 DEF RaiseLoop, EndRaise
  <2>3. Len(delegates[e]) \in Nat /\ cursor[th] \in Nat
    BY DEF CallsAreSensible, Requests, Working, Types
  <2>4. Len(results[th]) = Len(delegates[e])
    BY <2>2, <2>3 DEF InLoopOf
  <2> QED BY <2>2, <2>4 DEF InLoopOf
<1> HIDE DEF Complete
<1>2. Spec => [][Raises]_vars
  <2> HIDE DEF Raises
  <2> QED BY <1>1, InductiveInvariant, PTL DEF Spec
<1> QED BY <1>2 DEF RaiseReturnsOneFuturePerFunctor, Complete

-----------------------------------------------------------------------------
(* The EventSystem implements the EventBus.                                  *)

Queue == IF Raising = {} THEN Posted ELSE Posted \o InLoop(CHOOSE th \in Raising : TRUE)

Deliveries == (Events \X Handles) \cup {NoDelegate}

(* The queues of the implementation are sequences of deliveries.             *)
QueuesAreTyped == /\ Posted \in Seq(Deliveries) /\ Len(Posted) = Len(handlers)
                  /\ \A th \in Threads : InLoop(th) \in Seq(Deliveries)

LEMMA QueueTypes == IInv => QueuesAreTyped
<1> SUFFICES ASSUME IInv PROVE QueuesAreTyped
  OBVIOUS
<1> USE DEF IInv
<1>1. handlers \in Seq(Tasks) /\ bound \in [Tasks -> Deliveries]
  BY PoolFacts DEF Types, Deliveries
<1>2. Posted \in Seq(Deliveries) /\ Len(Posted) = Len(handlers)
  BY <1>1 DEF Posted
<1>3. ASSUME NEW th \in Threads PROVE InLoop(th) \in Seq(Deliveries)
  <2>1. CASE ~Working(th, "raise")
    BY <2>1 DEF InLoop
  <2>2. CASE Working(th, "raise")
    <3> DEFINE e == request[th].event
    <3>1. e \in Events /\ delegates[e] \in Seq(Handles) /\ cursor[th] \in Nat \ {0}
      BY <2>2 DEF CallsAreSensible, Requests, Working, Types
    <3>2. cursor[th] <= Len(delegates[e]) + 1
      BY <2>2 DEF RaiseLoop, InLoopOf
    <3>3. Len(delegates[e]) - cursor[th] + 1 \in Nat
      BY <3>1, <3>2
    <3>4. \A i \in 1..(Len(delegates[e]) - cursor[th] + 1) : <<e, delegates[e][cursor[th] + i - 1]>> \in Deliveries
      <4> TAKE i \in 1..(Len(delegates[e]) - cursor[th] + 1)
      <4>1. Len(delegates[e]) \in Nat /\ i \in Nat /\ i <= Len(delegates[e]) - cursor[th] + 1 /\ i >= 1
        BY <3>1, <3>3
      <4>2. cursor[th] + i - 1 \in 1..Len(delegates[e])
        BY <3>1, <4>1
      <4>3. delegates[e][cursor[th] + i - 1] \in Handles
        BY <3>1, <4>2, ElementOfSeq
      <4> QED BY <3>1, <4>3 DEF Deliveries
    <3>5. InLoop(th) = [i \in 1..(Len(delegates[e]) - cursor[th] + 1) |-> <<e, delegates[e][cursor[th] + i - 1]>>]
      BY <2>2 DEF InLoop
    <3> HIDE DEF e
    <3> QED BY <3>3, <3>4, <3>5
  <2> QED BY <2>1, <2>2
<1> QED BY <1>2, <1>3 DEF QueuesAreTyped

(* The deliveries still to be begun: those posted, then those of the thread  *)
(* that is in call()'s loop, if there is one.                                *)
QueueSplits == /\ \A th \in Threads : Working(th, "raise") => Queue = Posted \o InLoop(th)
               /\ (\A th \in Threads : ~Working(th, "raise")) => Queue = Posted

LEMMA QueueOfRaise == IInv => QueueSplits
<1> SUFFICES ASSUME IInv PROVE QueueSplits
  OBVIOUS
<1>1. \A a, b \in Threads : Working(a, "raise") /\ Working(b, "raise") => a = b
  BY DEF IInv, FlagsExclude, Holds, Working
<1>2. \A th \in Threads : InLoop(th) # <<>> => Working(th, "raise")
  BY DEF InLoop
<1>3. ASSUME NEW th \in Threads, Working(th, "raise") PROVE Queue = Posted \o InLoop(th)
  <2>1. CASE InLoop(th) = <<>>
    <3>1. Raising = {}
      BY <1>1, <1>2, <1>3, <2>1 DEF Raising
    <3>2. Posted \o <<>> = Posted
      BY QueueTypes, ConcatEmptySeq DEF QueuesAreTyped
    <3> QED BY <2>1, <3>1, <3>2 DEF Queue
  <2>2. CASE InLoop(th) # <<>>
    <3>1. Raising = {th}
      BY <1>1, <1>2, <1>3, <2>2 DEF Raising
    <3> QED BY <3>1 DEF Queue
  <2> QED BY <2>1, <2>2
<1>4. ASSUME \A th \in Threads : ~Working(th, "raise") PROVE Queue = Posted
  BY <1>2, <1>4 DEF Raising, Queue
<1> QED BY <1>3, <1>4 DEF QueueSplits

(* The same after a step. *)
LEMMA QueueNext == IInv' => QueuesAreTyped' /\ QueueSplits'
BY QueueTypes, QueueOfRaise, PTL

Granted == [e \in Events |-> IF bindings[e] < HandleMod THEN 1..bindings[e] ELSE Handles]

(* The variables and the steps of the EventBus under the refinement. *)
LEMMA BusRests ==
  delegates' = delegates /\ bindings' = bindings /\ Queue' = Queue => UNCHANGED Bus!vars
BY DEF Bus!vars, Queue

LEMMA BusRegisters ==
  ASSUME NEW e, Queue' = Queue,
         delegates' = [delegates EXCEPT ![e] = <<>>], Granted' = [Granted EXCEPT ![e] = {}]
  PROVE  Bus!Register(e)
BY DEF Bus!Register, Queue, Granted

LEMMA BusSubscribes ==
  ASSUME NEW e, NEW h \in Handles, Bus!Exhausted(e) \/ h \notin Granted[e] \cup {0}, Queue' = Queue,
         delegates' = [delegates EXCEPT ![e] = Append(delegates[e], h)],
         Granted' = [Granted EXCEPT ![e] = Granted[e] \cup {h}]
  PROVE  Bus!Subscribe(e)
BY DEF Bus!Subscribe, Bus!Exhausted, Queue, Granted

LEMMA BusUnsubscribes ==
  ASSUME NEW e, NEW h, Queue' = Queue, bindings' = bindings,
         delegates' = [delegates EXCEPT ![e] = Without(delegates[e], h)]
  PROVE  Bus!Unsubscribe(e, h)
<1>1. Bus!Without(delegates[e], h) = Without(delegates[e], h)
  BY Zenon DEF Bus!Without, Without
<1> QED BY <1>1 DEF Bus!Unsubscribe, Queue

LEMMA BusRaises ==
  ASSUME NEW e, delegates' = delegates, bindings' = bindings,
         Queue' = Queue \o [i \in 1..Len(delegates[e]) |-> <<e, delegates[e][i]>>]
  PROVE  Bus!Raise(e)
BY DEF Bus!Raise, Queue

LEMMA BusDelivers ==
  delegates' = delegates /\ bindings' = bindings /\ Queue # <<>> /\ Queue' = Tail(Queue) => Bus!Deliver
BY DEF Bus!Deliver, Queue

(* While a thread is inside a call of another kind, no raise is under way. *)
LEMMA NoOtherRaise ==
  ASSUME IInv, NEW th \in Threads, Holds(th), ~Working(th, "raise")
  PROVE  \A a \in Threads : ~Working(a, "raise")
BY DEF IInv, FlagsExclude, Holds, Working

(* The queue stays when no raise and no delivery begins or goes on. *)
LEMMA QueueKept ==
  ASSUME IInv, IInv', Posted' = Posted,
         \A a \in Threads : Working(a, "raise")' <=> Working(a, "raise"),
         \A a \in Threads : Working(a, "raise") => InLoop(a)' = InLoop(a)
  PROVE  Queue' = Queue
<1>1. CASE \E a \in Threads : Working(a, "raise")
  <2>1. PICK a \in Threads : Working(a, "raise")
    BY <1>1
  <2>2. Working(a, "raise")' /\ InLoop(a)' = InLoop(a)
    BY <2>1
  <2>3. Queue = Posted \o InLoop(a)
    BY <2>1, QueueOfRaise DEF QueueSplits
  <2>4. Queue' = Posted' \o InLoop(a)'
    BY <2>2, QueueNext DEF QueueSplits
  <2> QED BY <2>2, <2>3, <2>4
<1>2. CASE \A a \in Threads : ~Working(a, "raise")
  BY <1>2, QueueOfRaise, QueueNext DEF QueueSplits
<1> QED BY <1>1, <1>2

LEMMA CallAndLockBus ==
  ASSUME IInv, IInv', NEW th \in Threads,
         LockSystem(th) \/ FindNothing(th) \/ \E r \in Requests : Call(th, r)
  PROVE  UNCHANGED Bus!vars
<1>1. /\ UNCHANGED <<delegates, bindings, handlers, bound, cursor>> \/ FindNothing(th)
      /\ UNCHANGED <<delegates, bindings, handlers, bound>>
  BY DEF LockSystem, FindNothing, Call, poolVars, eventVars
<1>2. ~Working(th, "raise") /\ ~Working(th, "raise")'
  BY DEF IInv, Types, LockSystem, FindNothing, Call, Working, ReturnFromCall
<1>3. ASSUME NEW a \in Threads, a # th
      PROVE  at'[a] = at[a] /\ request'[a] = request[a] /\ cursor'[a] = cursor[a]
  BY <1>3 DEF IInv, Types, LockSystem, FindNothing, Call, ReturnFromCall
<1>4. Queue' = Queue
  <2>1. Posted' = Posted
    BY <1>1 DEF Posted
  <2>2. \A a \in Threads : Working(a, "raise")' <=> Working(a, "raise")
    BY <1>2, <1>3 DEF Working
  <2>3. \A a \in Threads : Working(a, "raise") => InLoop(a)' = InLoop(a)
    BY <1>1, <1>2, <1>3, <2>2 DEF InLoop
  <2> QED BY <2>1, <2>2, <2>3, QueueKept
<1> QED BY <1>1, <1>4, BusRests

(* What Register, Bind, Unbind and EndRaise do: the holder leaves. *)
LEMMA LeaverKeepsQueue ==
  ASSUME IInv, IInv', NEW th \in Threads, Holds(th), ~Working(th, "raise"), ReturnFromCall(th),
         handlers' = handlers, bound' = bound
  PROVE  Queue' = Queue
<1>1. \A a \in Threads : ~Working(a, "raise")
  BY NoOtherRaise
<1>2. \A a \in Threads : ~Working(a, "raise")'
  BY <1>1 DEF IInv, Types, Working, ReturnFromCall
<1>3. Posted' = Posted
  BY DEF Posted
<1> QED BY <1>1, <1>2, <1>3, QueueKept

LEMMA RegisterBus ==
  ASSUME IInv, IInv', NEW th \in Threads, Register(th)
  PROVE  \E e \in Events : Bus!Register(e)
<1> DEFINE e == request[th].event
<1>1. e \in Events /\ Holds(th) /\ ~Working(th, "raise") /\ ReturnFromCall(th)
  BY DEF IInv, CallsAreSensible, Requests, Register, Holds, Working
<1>2. Queue' = Queue
  BY <1>1, LeaverKeepsQueue DEF Register, poolVars
<1>3. delegates' = [delegates EXCEPT ![e] = <<>>] /\ bindings' = [bindings EXCEPT ![e] = 0]
  BY DEF Register, NewSpecEvent
<1>4. Granted' = [Granted EXCEPT ![e] = {}]
  <2>1. bindings \in [Events -> Nat]
    BY DEF IInv, Types
  <2>2. 0 < HandleMod /\ 1..0 = {}
    BY ConstantFacts
  <2>3. \A d \in Events : (IF bindings'[d] < HandleMod THEN 1..bindings'[d] ELSE Handles)
                          = IF d = e THEN {} ELSE Granted[d]
    BY <1>1, <1>3, <2>1, <2>2 DEF Granted
  <2> HIDE DEF e
  <2> QED BY <2>3 DEF Granted
<1> QED BY <1>1, <1>2, <1>3, <1>4, BusRegisters

LEMMA BindBus ==
  ASSUME IInv, IInv', NEW th \in Threads, Bind(th)
  PROVE  \E e \in Events : Bus!Subscribe(e)
<1>0. PICK e : e = request[th].event
  OBVIOUS
<1>1. PICK h \in Handles :
           /\ e \in Events
           /\ nextID[e] \in Nat /\ bindings[e] \in Nat
           /\ bindings[e] < HandleMod => nextID[e] = bindings[e]
           /\ bindings[e] + 1 < HandleMod => h = nextID[e] + 1
           /\ bindings[e] + 1 = HandleMod => h = 0
           /\ nextID' = [nextID EXCEPT ![e] = h]
           /\ bindings' = [bindings EXCEPT ![e] = bindings[e] + 1]
           /\ delegates' = [delegates EXCEPT ![e] = Append(delegates[e], h)]
  BY <1>0, BindHandle
<1>2. Holds(th) /\ ~Working(th, "raise") /\ ReturnFromCall(th)
  BY DEF Bind, Leave, Holds, Working
<1>3. Queue' = Queue
  BY <1>2, LeaverKeepsQueue DEF Bind, poolVars
<1>4. PICK n \in Nat : n = bindings[e]
  BY <1>1
<1>5. PICK M \in Nat \ {0} : M = HandleMod
  BY ConstantFacts
<1>6. /\ Granted[e] = IF n < M THEN 1..n ELSE Handles
      /\ Handles = 0..(M - 1)
      /\ Bus!Exhausted(e) <=> Handles \ {0} \subseteq Granted[e]
  BY <1>1, <1>4, <1>5 DEF Granted, Handles, Bus!Exhausted
<1>7. Bus!Exhausted(e) \/ h \notin Granted[e] \cup {0}
  <2>1. CASE n + 1 < M
    <3>1. h = n + 1 /\ Granted[e] = 1..n
      BY <1>1, <1>4, <1>5, <1>6, <2>1
    <3> QED BY <3>1
  <2>2. CASE ~(n + 1 < M)
    <3>1. Handles \ {0} \subseteq Granted[e]
      BY <1>6, <2>2
    <3> QED BY <1>6, <3>1
  <2> QED BY <2>1, <2>2
<1>8. (IF n + 1 < M THEN 1..(n + 1) ELSE Handles) = Granted[e] \cup {h}
  <2>1. CASE n + 1 < M
    <3>1. h = n + 1 /\ Granted[e] = 1..n
      BY <1>1, <1>4, <1>5, <1>6, <2>1
    <3>2. 1..(n + 1) = (1..n) \cup {n + 1}
      OBVIOUS
    <3> QED BY <2>1, <3>1, <3>2
  <2>2. CASE n + 1 = M
    <3>1. h = 0 /\ Granted[e] = 1..(M - 1)
      BY <1>1, <1>4, <1>5, <1>6, <2>2
    <3>2. 0..(M - 1) = (1..(M - 1)) \cup {0}
      OBVIOUS
    <3> QED BY <1>6, <2>2, <3>1, <3>2
  <2>3. CASE n + 1 > M
    <3>1. ~(n < M) /\ ~(n + 1 < M)
      BY <2>3
    <3> QED BY <1>6, <3>1
  <2> QED BY <2>1, <2>2, <2>3
<1>9. Granted' = [Granted EXCEPT ![e] = Granted[e] \cup {h}]
  <2>1. \A c \in Events : (IF bindings'[c] < HandleMod THEN 1..bindings'[c] ELSE Handles)
                          = IF c = e THEN Granted[e] \cup {h} ELSE Granted[c]
    <3> TAKE c \in Events
    <3>1. CASE c = e
      <4>1. bindings'[e] = n + 1
        BY <1>1, <1>4 DEF IInv, Types
      <4> QED BY <1>5, <1>8, <3>1, <4>1
    <3>2. CASE c # e
      BY <1>1, <3>2 DEF Granted, IInv, Types
    <3> QED BY <3>1, <3>2
  <2> QED BY <1>1, <2>1 DEF Granted
<1> QED BY <1>1, <1>3, <1>7, <1>9, BusSubscribes

LEMMA UnbindBus ==
  ASSUME IInv, IInv', NEW th \in Threads, Unbind(th)
  PROVE  \E e \in Events, h \in Handles : Bus!Unsubscribe(e, h)
<1> DEFINE e == request[th].event
           h == request[th].handle
<1>1. /\ Holds(th) /\ ~Working(th, "raise") /\ ReturnFromCall(th)
      /\ e \in Events /\ h \in Handles
  BY DEF IInv, CallsAreSensible, Requests, Unbind, Leave, Holds, Working
<1>2. Queue' = Queue
  BY <1>1, LeaverKeepsQueue DEF Unbind, poolVars
<1>3. delegates' = [delegates EXCEPT ![e] = Without(delegates[e], h)] /\ bindings' = bindings
  BY DEF Unbind
<1> QED BY <1>1, <1>2, <1>3, BusUnsubscribes

LEMMA LockSpecBus ==
  ASSUME IInv, IInv', NEW th \in Threads, LockSpec(th)
  PROVE  UNCHANGED Bus!vars \/ \E e \in Events : Bus!Raise(e)
<1> DEFINE e == request[th].event
<1>1. /\ delegates' = delegates /\ bindings' = bindings /\ handlers' = handlers /\ bound' = bound
      /\ request' = request /\ cursor' = cursor
      /\ at[th] = "locked" /\ at' = [at EXCEPT ![th] = "working"]
  BY DEF LockSpec, poolVars
<1>2. /\ \A a \in Threads : ~Working(a, "raise")
      /\ \A a \in Threads : a # th => ~Working(a, "raise")'
      /\ Working(th, "raise")' <=> request[th].op = "raise"
  <2>1. \A a \in Threads : ~Working(a, "raise")
    BY <1>1, NoOtherRaise DEF Holds, Working
  <2> QED BY <1>1, <2>1 DEF Working, IInv, Types
<1>3. Posted' = Posted /\ Queue = Posted
  BY <1>1, <1>2, QueueOfRaise DEF Posted, QueueSplits
<1>4. CASE request[th].op # "raise"
  <2>1. Queue' = Posted'
    BY <1>2, <1>4, QueueNext DEF QueueSplits
  <2> QED BY <1>1, <1>3, <2>1, BusRests
<1>5. CASE request[th].op = "raise"
  <2>1. Queue' = Posted' \o InLoop(th)'
    BY <1>2, <1>5, QueueNext DEF QueueSplits
  <2>2. e \in Events /\ cursor[th] = 1 /\ Len(delegates[e]) \in Nat
    BY <1>1, <1>2 DEF IInv, CallsAreSensible, Requests, RaiseLoop, Types
  <2>3. InLoop(th)' = [i \in 1..Len(delegates[e]) |-> <<e, delegates[e][i]>>]
    <3>1. InLoop(th)' = [i \in 1..(Len(delegates[e]) - cursor[th] + 1) |-> <<e, delegates[e][cursor[th] + i - 1]>>]
      BY <1>1, <1>2, <1>5 DEF InLoop
    <3>2. Len(delegates[e]) - cursor[th] + 1 = Len(delegates[e])
      BY <2>2
    <3>3. \A i \in 1..Len(delegates[e]) : cursor[th] + i - 1 = i
      BY <2>2
    <3> HIDE DEF e
    <3> QED BY <3>1, <3>2, <3>3
  <2> QED BY <1>1, <1>3, <2>1, <2>2, <2>3, BusRaises
<1> QED BY <1>4, <1>5

(* A task that was not submitted is not in the queue, so what is bound in it *)
(* for the functor at the cursor changes no delivery.                        *)
LEMMA SubmitDelegateBus ==
  ASSUME IInv, IInv', NEW th \in Threads, SubmitDelegate(th)
  PROVE  UNCHANGED Bus!vars
<1>0. PICK e : e = request[th].event
  OBVIOUS
<1>1. PICK t \in Tasks :
        /\ future[t] = "none"
        /\ bound' = [bound EXCEPT ![t] = <<e, delegates[e][cursor[th]]>>]
  BY <1>0, SubmitDelegateLoop
<1>2. /\ UNCHANGED <<eventVars, at, request, cursor>>
      /\ handlers' = handlers
  BY DEF SubmitDelegate, Pool!SubmitCount
<1>3. /\ handlers \in Seq(Tasks) /\ bound \in [Tasks -> Deliveries]
      /\ \A i \in 1..Len(handlers) : future[handlers[i]] = "pending"
  BY PoolFacts DEF IInv, Types, Deliveries
<1>4. \A i \in 1..Len(handlers) : bound'[handlers[i]] = bound[handlers[i]]
  BY <1>1, <1>3
<1>5. Posted' = Posted
  BY <1>2, <1>4 DEF Posted
<1>6. \A a \in Threads : /\ Working(a, "raise")' <=> Working(a, "raise")
                         /\ InLoop(a)' = InLoop(a)
  BY <1>2 DEF Working, InLoop, eventVars
<1>7. Queue' = Queue
  BY <1>5, <1>6, QueueKept
<1> QED BY <1>2, <1>7, BusRests DEF eventVars

(* Posting moves one delivery from the loop to the queue of the pool. *)
LEMMA PostDelegateBus ==
  ASSUME IInv, IInv', NEW th \in Threads, PostDelegate(th)
  PROVE  UNCHANGED Bus!vars
<1>0. PICK e : e = request[th].event
  OBVIOUS
<1>1. /\ UNCHANGED <<eventVars, at, request, bound>> /\ Working(th, "raise") /\ submitting[th] # NoTask
      /\ cursor' = [cursor EXCEPT ![th] = @ + 1] /\ handlers' = Append(handlers, submitting[th])
  BY DEF PostDelegate, Pool!SubmitPost
<1>2. /\ handlers \in Seq(Tasks) /\ bound \in [Tasks -> Deliveries] /\ submitting[th] \in Tasks
      /\ e \in Events /\ delegates[e] \in Seq(Handles) /\ cursor[th] \in Nat \ {0}
      /\ cursor'[th] = cursor[th] + 1
  <2>1. handlers \in Seq(Tasks) /\ submitting[th] \in Tasks
    BY <1>1, PoolFacts DEF IInv
  <2>2. bound \in [Tasks -> Deliveries] /\ cursor[th] \in Nat \ {0} /\ cursor'[th] = cursor[th] + 1
    BY <1>1 DEF IInv, Types, Deliveries
  <2>3. e \in Events
    BY <1>0, <1>1 DEF IInv, CallsAreSensible, Requests, Working
  <2> QED BY <2>1, <2>2, <2>3 DEF IInv, Types
<1>3. /\ cursor[th] <= Len(delegates[e]) /\ bound[submitting[th]] = <<e, delegates[e][cursor[th]]>>
  <2>1. InLoopOf(th, delegates[e], e)
    BY <1>0, <1>1 DEF IInv, RaiseLoop
  <2>2. submitting[th] # NoTask
    BY <1>1
  <2>3. /\ cursor[th] <= Len(delegates[e])
        /\ Len(results[th]) = cursor[th]
        /\ results[th][cursor[th]] = submitting[th]
    BY <2>1, <2>2, Zenon DEF InLoopOf
  <2>4. cursor[th] \in 1..Len(results[th])
    BY <1>2, <2>3
  <2>5. bound[results[th][cursor[th]]] = <<e, delegates[e][cursor[th]]>>
    BY <2>1, <2>4, Zenon DEF InLoopOf
  <2> QED BY <2>3, <2>5
<1>4. /\ Posted \in Seq(Deliveries) /\ InLoop(th) \in Seq(Deliveries)
      /\ Posted' \in Seq(Deliveries) /\ InLoop(th)' \in Seq(Deliveries)
  BY QueueTypes, QueueNext DEF QueuesAreTyped
<1>5. Queue = Posted \o InLoop(th) /\ Queue' = Posted' \o InLoop(th)'
  <2>1. Working(th, "raise")'
    BY <1>1 DEF Working
  <2> QED BY <1>1, <2>1, QueueOfRaise, QueueNext DEF QueueSplits
<1>6. Len(delegates[e]) \in Nat
  BY <1>2
<1>7. /\ Len(InLoop(th)) = Len(delegates[e]) - cursor[th] + 1
      /\ \A i \in 1..Len(InLoop(th)) : InLoop(th)[i] = <<e, delegates[e][cursor[th] + i - 1]>>
  <2>1. InLoop(th) = [i \in 1..(Len(delegates[e]) - cursor[th] + 1) |-> <<e, delegates[e][cursor[th] + i - 1]>>]
    BY <1>0, <1>1 DEF InLoop
  <2>2. Len(delegates[e]) - cursor[th] + 1 \in Nat
    BY <1>2, <1>3, <1>6
  <2> QED BY <2>1, <2>2
<1>8. /\ Len(InLoop(th)') = Len(delegates[e]) - cursor[th]
      /\ \A i \in 1..Len(InLoop(th)') : InLoop(th)'[i] = <<e, delegates[e][cursor[th] + 1 + i - 1]>>
  <2>1. InLoop(th)' = [i \in 1..(Len(delegates[e]) - (cursor[th] + 1) + 1) |->
                         <<e, delegates[e][cursor[th] + 1 + i - 1]>>]
    BY <1>0, <1>1, <1>2 DEF InLoop, Working, eventVars
  <2>2. /\ Len(delegates[e]) - (cursor[th] + 1) + 1 = Len(delegates[e]) - cursor[th]
        /\ Len(delegates[e]) - cursor[th] \in Nat
    <3>1. cursor[th] \in Nat /\ cursor[th] <= Len(delegates[e])
      BY <1>2, <1>3
    <3> QED BY <1>6, <3>1
  <2>3. PICK n \in Nat : n = Len(delegates[e]) - cursor[th]
    BY <2>2
  <2>4. InLoop(th)' = [i \in 1..n |-> <<e, delegates[e][cursor[th] + 1 + i - 1]>>]
    BY <2>1, <2>2, <2>3, Zenon
  <2> QED BY <2>3, <2>4
<1>9. InLoop(th) # <<>> /\ InLoop(th)[1] = bound[submitting[th]]
  <2>1. Len(InLoop(th)) \in Nat \ {0} /\ cursor[th] + 1 - 1 = cursor[th]
    BY <1>2, <1>3, <1>6, <1>7
  <2> QED BY <1>3, <1>4, <1>7, <2>1
<1>10. InLoop(th)' = Tail(InLoop(th))
  <2>1. /\ Tail(InLoop(th)) \in Seq(Deliveries) /\ Len(Tail(InLoop(th))) = Len(InLoop(th)) - 1
        /\ \A i \in 1..Len(Tail(InLoop(th))) : Tail(InLoop(th))[i] = InLoop(th)[i + 1]
    BY <1>4, <1>9, HeadTailProperties
  <2>2. Len(InLoop(th)') = Len(Tail(InLoop(th)))
    BY <1>2, <1>6, <1>7, <1>8, <2>1
  <2>3. ASSUME NEW i \in 1..Len(InLoop(th)') PROVE InLoop(th)'[i] = Tail(InLoop(th))[i]
    <3>1. i \in 1..Len(Tail(InLoop(th))) /\ i + 1 \in 1..Len(InLoop(th))
      BY <1>2, <1>6, <1>7, <1>8, <2>2
    <3>2. cursor[th] + (i + 1) - 1 = cursor[th] + 1 + i - 1
      <4>1. PICK c \in Nat : c = cursor[th]
        BY <1>2
      <4>2. PICK k \in Nat : k = i
        BY <3>1
      <4>3. c + (k + 1) - 1 = c + 1 + k - 1
        OBVIOUS
      <4> QED BY <4>1, <4>2, <4>3
    <3>3. InLoop(th)[i + 1] = <<e, delegates[e][cursor[th] + (i + 1) - 1]>>
      BY <1>7, <3>1
    <3>4. InLoop(th)'[i] = <<e, delegates[e][cursor[th] + 1 + i - 1]>>
      BY <1>8
    <3>5. Tail(InLoop(th))[i] = InLoop(th)[i + 1]
      BY <2>1, <3>1
    <3> QED BY <3>2, <3>3, <3>4, <3>5, Zenon
  <2> QED BY <1>4, <2>1, <2>2, <2>3, SeqEqual
<1>11. Posted' = Append(Posted, bound[submitting[th]])
  <2>1. Posted' = [i \in 1..(Len(handlers) + 1) |-> bound[Append(handlers, submitting[th])[i]]]
    BY <1>1, <1>2 DEF Posted
  <2>2. Len(handlers) \in Nat /\ bound[submitting[th]] \in Deliveries
    BY <1>2
  <2>3. Len(Posted) = Len(handlers) /\ \A i \in 1..Len(handlers) : Posted[i] = bound[handlers[i]]
    BY <2>2 DEF Posted
  <2>4. /\ Append(Posted, bound[submitting[th]]) \in Seq(Deliveries)
        /\ Len(Append(Posted, bound[submitting[th]])) = Len(handlers) + 1
        /\ Append(Posted, bound[submitting[th]])[Len(handlers) + 1] = bound[submitting[th]]
        /\ \A i \in 1..Len(handlers) : Append(Posted, bound[submitting[th]])[i] = bound[handlers[i]]
    BY <1>4, <2>2, <2>3
  <2>5. /\ Append(handlers, submitting[th])[Len(handlers) + 1] = submitting[th]
        /\ \A i \in 1..Len(handlers) : Append(handlers, submitting[th])[i] = handlers[i]
    BY <1>2, <2>2
  <2>6. Len(Posted') = Len(handlers) + 1
    BY <2>1, <2>2
  <2>7. ASSUME NEW i \in 1..Len(Posted') PROVE Posted'[i] = Append(Posted, bound[submitting[th]])[i]
    <3>1. i \in 1..Len(handlers) \/ i = Len(handlers) + 1
      BY <2>2, <2>6
    <3>2. Posted'[i] = bound[Append(handlers, submitting[th])[i]]
      BY <2>1, <2>6
    <3> QED BY <2>4, <2>5, <3>1, <3>2, Zenon
  <2> QED BY <1>4, <2>4, <2>6, <2>7, SeqEqual
<1>12. Queue' = Queue
  <2>1. Append(Posted, InLoop(th)[1]) \o Tail(InLoop(th)) = Posted \o InLoop(th)
    BY <1>4, <1>9, MoveOver
  <2> QED BY <1>5, <1>9, <1>10, <1>11, <2>1, Zenon
<1> QED BY <1>1, <1>12, BusRests DEF eventVars

(* When the loop is through, nothing of the raise is left to be posted. *)
LEMMA EndRaiseBus ==
  ASSUME IInv, IInv', NEW th \in Threads, EndRaise(th)
  PROVE  UNCHANGED Bus!vars
<1>0. PICK e : e = request[th].event
  OBVIOUS
<1>1. /\ delegates' = delegates /\ bindings' = bindings /\ handlers' = handlers /\ bound' = bound
      /\ Working(th, "raise") /\ cursor[th] > Len(delegates[e]) /\ ReturnFromCall(th)
  BY <1>0 DEF EndRaise, Leave, poolVars
<1>2. /\ e \in Events /\ Len(delegates[e]) \in Nat /\ cursor[th] \in Nat
  BY <1>0, <1>1 DEF IInv, Types, CallsAreSensible, Requests, Working
<1>3. InLoop(th) = <<>>
  <2>1. InLoop(th) = [i \in 1..(Len(delegates[e]) - cursor[th] + 1) |-> <<e, delegates[e][cursor[th] + i - 1]>>]
    BY <1>0, <1>1 DEF InLoop
  <2>2. 1..(Len(delegates[e]) - cursor[th] + 1) = {}
    BY <1>1, <1>2
  <2> QED BY <2>1, <2>2
<1>4. \A a \in Threads : ~Working(a, "raise")'
  BY <1>1 DEF IInv, Types, FlagsExclude, Holds, Working, ReturnFromCall
<1>5. Posted' = Posted
  BY <1>1 DEF Posted
<1>6. Queue' = Posted'
  BY <1>4, QueueNext DEF QueueSplits
<1>7. Queue = Posted \o <<>> /\ Posted \o <<>> = Posted
  BY <1>1, <1>3, QueueOfRaise, QueueTypes, ConcatEmptySeq DEF QueueSplits, QueuesAreTyped
<1> QED BY <1>1, <1>5, <1>6, <1>7, BusRests

(* A worker that dequeues a task begins the first delivery.                  *)
LEMMA RunStepBus ==
  ASSUME IInv, IInv', NEW w \in Workers, RunStep(w)
  PROVE  UNCHANGED Bus!vars \/ Bus!Deliver
<1>1. /\ delegates' = delegates /\ bindings' = bindings /\ bound' = bound
      /\ \A a \in Threads : /\ Working(a, "raise")' <=> Working(a, "raise")
                            /\ InLoop(a)' = InLoop(a)
  BY DEF RunStep, eventVars, callVars, Working, InLoop
<1>2. CASE Pool!StartTask(w)
  <2>1. handlers # <<>> /\ handlers' = Tail(handlers) /\ handlers \in Seq(Tasks)
    BY <1>2, PoolFacts DEF Pool!StartTask, IInv
  <2>2. /\ Posted \in Seq(Deliveries) /\ Posted' \in Seq(Deliveries)
        /\ \A th \in Threads : InLoop(th) \in Seq(Deliveries)
    BY QueueTypes, QueueNext DEF QueuesAreTyped
  <2>3. Posted # <<>> /\ Posted' = Tail(Posted)
    <3>1. /\ Len(handlers) \in Nat \ {0} /\ Len(Tail(handlers)) = Len(handlers) - 1
          /\ \A i \in 1..Len(Tail(handlers)) : Tail(handlers)[i] = handlers[i + 1]
      BY <2>1, EmptySeq, HeadTailProperties
    <3>2. Len(Posted) = Len(handlers) /\ \A i \in 1..Len(handlers) : Posted[i] = bound[handlers[i]]
      BY <3>1 DEF Posted
    <3>3. Posted # <<>>
      BY <2>2, <3>1, <3>2, EmptySeq
    <3>4. /\ Tail(Posted) \in Seq(Deliveries) /\ Len(Tail(Posted)) = Len(handlers) - 1
          /\ \A i \in 1..Len(Tail(Posted)) : Tail(Posted)[i] = Posted[i + 1]
      BY <2>2, <3>2, <3>3, HeadTailProperties
    <3>5. Posted' = [i \in 1..Len(Tail(handlers)) |-> bound[Tail(handlers)[i]]]
      BY <1>1, <2>1 DEF Posted
    <3>6. Len(Posted') = Len(handlers) - 1
      BY <3>1, <3>5
    <3>7. ASSUME NEW i \in 1..Len(Posted') PROVE Posted'[i] = Tail(Posted)[i]
      <4>1. i \in 1..Len(Tail(handlers)) /\ i \in 1..Len(Tail(Posted)) /\ i + 1 \in 1..Len(handlers)
        BY <3>1, <3>4, <3>6
      <4>2. Posted'[i] = bound[Tail(handlers)[i]]
        BY <3>5, <4>1
      <4> QED BY <3>1, <3>2, <3>4, <4>1, <4>2, Zenon
    <3> QED BY <2>2, <3>3, <3>4, <3>6, <3>7, SeqEqual
  <2>4. Queue # <<>> /\ Queue' = Tail(Queue)
    <3>1. CASE \E a \in Threads : Working(a, "raise")
      <4>1. PICK a \in Threads : Working(a, "raise")
        BY <3>1
      <4>2. Queue = Posted \o InLoop(a) /\ Queue' = Posted' \o InLoop(a)
        BY <1>1, <4>1, QueueOfRaise, QueueNext DEF QueueSplits
      <4>3. Posted \o InLoop(a) # <<>> /\ Tail(Posted \o InLoop(a)) = Tail(Posted) \o InLoop(a)
        BY <2>2, <2>3, TailOfConcat
      <4> QED BY <2>3, <4>2, <4>3, Zenon
    <3>2. CASE \A a \in Threads : ~Working(a, "raise")
      BY <1>1, <2>3, <3>2, QueueOfRaise, QueueNext DEF QueueSplits
    <3> QED BY <3>1, <3>2
  <2> QED BY <1>1, <2>4, BusDelivers
<1>3. CASE ~Pool!StartTask(w)
  <2>1. handlers' = handlers
    BY <1>3 DEF RunStep, Pool!Return, Pool!Throw, Pool!SetValue, Pool!Settle
  <2>2. Posted' = Posted
    BY <1>1, <2>1 DEF Posted
  <2>3. Queue' = Queue
    BY <1>1, <2>2, QueueKept
  <2> QED BY <1>1, <2>3, BusRests
<1> QED BY <1>2, <1>3

LEMMA StutterBus ==
  ASSUME IInv, IInv', UNCHANGED vars
  PROVE  UNCHANGED Bus!vars
<1>1. /\ delegates' = delegates /\ bindings' = bindings /\ Posted' = Posted
      /\ \A a \in Threads : /\ Working(a, "raise")' <=> Working(a, "raise")
                            /\ InLoop(a)' = InLoop(a)
  BY DEF vars, poolVars, eventVars, callVars, Posted, InLoop, Working
<1>2. Queue' = Queue
  BY <1>1, QueueKept
<1> QED BY <1>1, <1>2, BusRests

LEMMA NextBus ==
  ASSUME IInv, IInv', Next
  PROVE  [Bus!Next]_Bus!vars
<1>1. ASSUME NEW th \in Threads, HolderStep(th) PROVE Bus!Next \/ UNCHANGED Bus!vars
  <2>1. CASE Register(th) \/ Bind(th) \/ Unbind(th)
    BY <2>1, RegisterBus, BindBus, UnbindBus DEF Bus!Next
  <2>2. CASE FindNothing(th) \/ SubmitDelegate(th) \/ PostDelegate(th) \/ EndRaise(th)
    BY <2>2, CallAndLockBus, SubmitDelegateBus, PostDelegateBus, EndRaiseBus
  <2>3. CASE LockSpec(th)
    BY <2>3, LockSpecBus DEF Bus!Next
  <2> QED BY <1>1, <2>1, <2>2, <2>3 DEF HolderStep
<1>2. ASSUME NEW w \in Workers, RunStep(w) PROVE Bus!Next \/ UNCHANGED Bus!vars
  BY <1>2, RunStepBus DEF Bus!Next
<1>3. ASSUME NEW th \in Threads, LockSystem(th) \/ \E r \in Requests : Call(th, r)
      PROVE  UNCHANGED Bus!vars
  BY <1>3, CallAndLockBus
<1>4. ASSUME AtRest PROVE UNCHANGED Bus!vars
  BY <1>4, StutterBus DEF AtRest
<1> QED BY <1>1, <1>2, <1>3, <1>4 DEF Next

(* The EventSystem implements the EventBus, its fairness apart: every call   *)
(* takes effect at one instant, a raise queues one delivery per functor with *)
(* none of another raise between them, and deliveries begin in that order.   *)
THEOREM ImplementsBus == Spec => Bus!Init /\ [][Bus!Next]_Bus!vars
<1>1. Init => Bus!Init
  <2> SUFFICES ASSUME Init PROVE Bus!Init
    OBVIOUS
  <2>1. \A th \in Threads : InLoop(th) = <<>>
    BY DEF Init, InLoop, Working
  <2>2. Raising = {} /\ Posted = <<>>
    BY <2>1 DEF Init, Pool!Init, Raising, Posted
  <2>3. \A e \in Events : (IF bindings[e] < HandleMod THEN 1..bindings[e] ELSE Handles) = {}
    BY ConstantFacts DEF Init
  <2> QED BY <2>2, <2>3 DEF Init, Bus!Init
<1>2. IInv /\ IInv' /\ [Next]_vars => [Bus!Next]_Bus!vars
  BY NextBus, StutterBus
<1> QED BY <1>1, <1>2, InductiveInvariant, PTL DEF Spec


=============================================================================
