-------------------------- MODULE FileSystemProofs --------------------------
(***************************************************************************)
(* Theorems of FileSystem.tla, for any finite sets of files and archives,  *)
(* any contents and sizes, any number of calls and of times the process    *)
(* ends: the index reads back, every file is found, and the two calls that *)
(* write an archive unit by unit implement ArchiveStore.                   *)
(***************************************************************************)
EXTENDS FileSystem, SequenceTheorems, FiniteSetTheorems, WellFoundedInduction, TLAPS

-----------------------------------------------------------------------------
(* Numbers and sequences.                                                    *)

(* Every set of natural numbers that is not empty has a least element.       *)
LEMMA LeastExists ==
  ASSUME NEW T \in SUBSET Nat, T # {}
  PROVE  \E x \in T : \A y \in T : x <= y
<1> DEFINE R == OpToRel(<, Nat)
<1>1. IsWellFoundedOn(R, Nat)
  BY NatLessThanWellFounded
<1>2. \A x, y \in Nat : x < y => <<x, y>> \in R
  BY DEF OpToRel
<1>3. PICK x \in T : \A y \in T : <<y, x>> \notin R
  <2> HIDE DEF R
  <2> QED BY <1>1, WFMin
<1>4. ASSUME NEW y \in T PROVE x <= y
  <2>1. ~(y < x)
    BY <1>2, <1>3
  <2> QED BY <2>1
<1> QED BY <1>4

(* A set with 0 that is closed under successor has every natural number.     *)
LEMMA SetInduction ==
  ASSUME NEW S, 0 \in S, \A n \in Nat : n \in S => n + 1 \in S
  PROVE  Nat \subseteq S
<1> SUFFICES ASSUME Nat \ S # {} PROVE FALSE
  OBVIOUS
<1>1. PICK x \in Nat \ S : \A y \in Nat \ S : x <= y
  BY LeastExists
<1>2. x # 0 /\ x - 1 \in Nat /\ x = (x - 1) + 1 /\ ~(x <= x - 1)
  BY <1>1
<1>3. x - 1 \in S
  BY <1>1, <1>2
<1> QED BY <1>1, <1>2, <1>3

(* One with an upper bound has a greatest.                                    *)
LEMMA GreatestExists ==
  ASSUME NEW T \in SUBSET Nat, T # {}, NEW b \in Nat, \A y \in T : y <= b
  PROVE  \E x \in T : \A y \in T : x >= y
<1> DEFINE distances == {b - y : y \in T}
<1>1. distances \in SUBSET Nat /\ distances # {}
  <2>1. \A y \in T : b - y \in Nat
    OBVIOUS
  <2> QED BY <2>1
<1>2. PICK d \in distances : \A e \in distances : d <= e
  <2> HIDE DEF distances
  <2> QED BY <1>1, LeastExists
<1>3. PICK x \in T : d = b - x
  OBVIOUS
<1>4. ASSUME NEW y \in T PROVE x >= y
  <2>1. b - x <= b - y
    BY <1>2, <1>3
  <2> QED BY <2>1
<1> QED BY <1>4

(* ... and Min finds the least.                                               *)
LEMMA MinOfSet ==
  ASSUME NEW T \in SUBSET Nat, T # {}
  PROVE  Min(T) \in T /\ \A y \in T : Min(T) <= y
BY LeastExists DEF Min

(* Any maximum is Max.                                                        *)
LEMMA MaxOfSet ==
  ASSUME NEW T \in SUBSET Nat, NEW x \in T, \A y \in T : x >= y
  PROVE  Max(T) = x
<1>1. Max(T) \in T /\ \A y \in T : Max(T) >= y
  BY DEF Max
<1>2. Max(T) >= x /\ x >= Max(T) /\ Max(T) \in Nat
  BY <1>1
<1> QED BY <1>2

-----------------------------------------------------------------------------
(* FlattenSeq, which is how the code's loops put units and entries in a row. *)

(* f is what FlattenSeq computes for the first n of parts.                    *)
Flattens(f, parts, n) ==
  \A i \in 1..n : f[i] = IF i = 1 THEN parts[i] ELSE f[i - 1] \o parts[i]

(* There is such an f for any number of parts ...                             *)
LEMMA FlattensExists ==
  ASSUME NEW parts
  PROVE  \A n \in Nat : \E f : Flattens(f, parts, n)
<1> DEFINE S == {n \in Nat : \E f : Flattens(f, parts, n)}
<1>1. 0 \in S
  BY DEF Flattens
<1>2. ASSUME NEW n \in Nat, n \in S PROVE n + 1 \in S
  <2>1. PICK f : Flattens(f, parts, n)
    BY <1>2
  <2> DEFINE g == [i \in 1..(n + 1) |-> IF i <= n THEN f[i]
                                        ELSE IF i = 1 THEN parts[i] ELSE f[i - 1] \o parts[i]]
  <2>2. ASSUME NEW i \in 1..(n + 1)
        PROVE  g[i] = IF i = 1 THEN parts[i] ELSE g[i - 1] \o parts[i]
    <3>1. g[i] = IF i <= n THEN f[i] ELSE IF i = 1 THEN parts[i] ELSE f[i - 1] \o parts[i]
      OBVIOUS
    <3>2. i # 1 => g[i - 1] = f[i - 1]
      OBVIOUS
    <3>3. CASE i <= n
      <4>1. i \in 1..n
        BY <3>3
      <4>2. f[i] = IF i = 1 THEN parts[i] ELSE f[i - 1] \o parts[i]
        BY <2>1, <4>1, Zenon DEF Flattens
      <4> HIDE DEF g
      <4> QED BY <3>1, <3>2, <3>3, <4>2, Zenon
    <3>4. CASE ~(i <= n)
      <4> HIDE DEF g
      <4> QED BY <3>1, <3>2, <3>4, Zenon
    <3> QED BY <3>3, <3>4
  <2>3. Flattens(g, parts, n + 1)
    <3> HIDE DEF g
    <3> QED BY <2>2, Zenon DEF Flattens
  <2> QED BY <2>3
<1>3. Nat \subseteq S
  <2> HIDE DEF S
  <2> QED BY <1>1, <1>2, SetInduction
<1> QED BY <1>3

(* ... and no second one.                                                     *)
LEMMA FlattensUnique ==
  ASSUME NEW parts, NEW n \in Nat, NEW f, NEW g, Flattens(f, parts, n), Flattens(g, parts, n)
  PROVE  \A i \in 1..n : f[i] = g[i]
<1> DEFINE S == {i \in Nat : i \in 1..n => f[i] = g[i]}
<1>1. 0 \in S
  OBVIOUS
<1>2. ASSUME NEW m \in Nat, m \in S PROVE m + 1 \in S
  <2> SUFFICES ASSUME m + 1 \in 1..n PROVE f[m + 1] = g[m + 1]
    OBVIOUS
  <2>0. (m + 1) - 1 = m
    OBVIOUS
  <2>1. /\ f[m + 1] = IF m + 1 = 1 THEN parts[m + 1] ELSE f[m] \o parts[m + 1]
        /\ g[m + 1] = IF m + 1 = 1 THEN parts[m + 1] ELSE g[m] \o parts[m + 1]
    BY <2>0, Zenon DEF Flattens
  <2>2. m + 1 # 1 => f[m] = g[m]
    BY <1>2
  <2> QED BY <2>1, <2>2, Zenon
<1>3. Nat \subseteq S
  <2> HIDE DEF S
  <2> QED BY <1>1, <1>2, SetInduction
<1> QED BY <1>3

(* FlattenSeq is the last of its stages.                                      *)
LEMMA FlattenSeqFlattens ==
  ASSUME NEW parts, NEW n \in Nat \ {0}, Len(parts) = n
  PROVE  \E f : Flattens(f, parts, n) /\ FlattenSeq(parts) = f[n]
<1> DEFINE body(g) == [i \in 1..Len(parts) |-> IF i = 1 THEN parts[i] ELSE g[i - 1] \o parts[i]]
           flatten == CHOOSE g : g = body(g)
<1>1. PICK h : Flattens(h, parts, n)
  BY FlattensExists
<1> DEFINE f == [i \in 1..n |-> h[i]]
<1>2. \A i \in 1..n : f[i] = h[i] /\ (i # 1 => f[i - 1] = h[i - 1])
  OBVIOUS
<1>3. f = body(f)
  <2>1. ASSUME NEW i \in 1..n
        PROVE  h[i] = IF i = 1 THEN parts[i] ELSE f[i - 1] \o parts[i]
    <3>1. h[i] = IF i = 1 THEN parts[i] ELSE h[i - 1] \o parts[i]
      BY <1>1, Zenon DEF Flattens
    <3> HIDE DEF f
    <3> QED BY <1>2, <3>1, Zenon
  <2> QED BY <2>1, Zenon
<1>4. flatten = body(flatten)
  <2> HIDE DEF body, f
  <2> QED BY <1>3, Zenon
<1>5. Flattens(flatten, parts, n)
  <2> HIDE DEF flatten
  <2> SUFFICES ASSUME NEW i \in 1..n
               PROVE  flatten[i] = IF i = 1 THEN parts[i] ELSE flatten[i - 1] \o parts[i]
    BY DEF Flattens
  <2>1. body(flatten)[i] = IF i = 1 THEN parts[i] ELSE flatten[i - 1] \o parts[i]
    BY Zenon
  <2> HIDE DEF body
  <2> QED BY <1>4, <2>1, Zenon
<1>6. FlattenSeq(parts) = flatten[n]
  <2>1. Len(parts) # 0
    OBVIOUS
  <2> QED BY <2>1, Zenon DEF FlattenSeq
<1> HIDE DEF flatten
<1> QED BY <1>5, <1>6

\* The concatenation of the first n of parts.
Flat(parts, n) == FlattenSeq([i \in 1..n |-> parts[i]])

(* Of no parts it is empty.                                                   *)
LEMMA FlatZero == ASSUME NEW parts PROVE Flat(parts, 0) = <<>>
<1> DEFINE none == [i \in 1..0 |-> parts[i]]
<1>1. Len(none) = 0 /\ none = <<>>
  OBVIOUS
<1> QED BY <1>1, Zenon DEF Flat, FlattenSeq

(* One part more is put behind those before it.                              *)
LEMMA FlatStep ==
  ASSUME NEW S, NEW parts, NEW n \in Nat, \A i \in 1..(n + 1) : parts[i] \in Seq(S)
  PROVE  /\ Flat(parts, 0) = <<>>
         /\ Flat(parts, n) \in Seq(S)
              => Flat(parts, n + 1) = Flat(parts, n) \o parts[n + 1]
<1> DEFINE first(m) == [i \in 1..m |-> parts[i]]
<1>1. \A m \in Nat : Len(first(m)) = m
  OBVIOUS
<1>2. Flat(parts, 0) = <<>>
  BY FlatZero
<1>3. ASSUME NEW m \in Nat \ {0}
      PROVE  \E f : Flattens(f, parts, m) /\ Flat(parts, m) = f[m]
  <2>1. PICK f : Flattens(f, first(m), m) /\ FlattenSeq(first(m)) = f[m]
    <3>1. Len(first(m)) = m
      BY <1>1
    <3> HIDE DEF first
    <3> QED BY <3>1, FlattenSeqFlattens
  <2>2. \A i \in 1..m : first(m)[i] = parts[i]
    OBVIOUS
  <2>3. Flattens(f, parts, m)
    <3> HIDE DEF first
    <3> QED BY <2>1, <2>2, Zenon DEF Flattens
  <2> QED BY <2>1, <2>3, Zenon DEF Flat
<1>4. ASSUME Flat(parts, n) \in Seq(S)
      PROVE  Flat(parts, n + 1) = Flat(parts, n) \o parts[n + 1]
  <2>1. PICK g : Flattens(g, parts, n + 1) /\ Flat(parts, n + 1) = g[n + 1]
    BY <1>3
  <2>2. n + 1 \in 1..(n + 1) /\ (n + 1) - 1 = n
    OBVIOUS
  <2>3. g[n + 1] = IF n + 1 = 1 THEN parts[n + 1] ELSE g[n] \o parts[n + 1]
    BY <2>1, <2>2, Zenon DEF Flattens
  <2>4. CASE n = 0
    <3>1. Flat(parts, 1) = parts[1] /\ parts[1] \in Seq(S)
      BY <2>1, <2>3, <2>4
    <3> QED BY <1>2, <2>4, <3>1, ConcatEmptySeq
  <2>5. CASE n # 0
    <3>1. PICK f : Flattens(f, parts, n) /\ Flat(parts, n) = f[n]
      BY <1>3, <2>5
    <3>2. Flattens(g, parts, n)
      BY <2>1 DEF Flattens
    <3>3. f[n] = g[n]
      <4>1. n \in 1..n
        BY <2>5
      <4> QED BY <3>1, <3>2, <4>1, FlattensUnique
    <3>4. n + 1 # 1
      BY <2>5
    <3> QED BY <2>1, <2>3, <3>1, <3>3, <3>4, Zenon
  <2> QED BY <2>4, <2>5
<1> QED BY <1>2, <1>4

(* The concatenation consists of the parts, one after the other.              *)
PartsOf(parts, n, S) ==
  /\ Flat(parts, n) \in Seq(S)
  /\ \A i \in 1..n : /\ Len(Flat(parts, i - 1)) \in Nat
                      /\ Len(Flat(parts, i - 1)) + Len(parts[i]) <= Len(Flat(parts, n))
  /\ \A i \in 1..n : \A j \in 1..Len(parts[i]) :
       Flat(parts, n)[Len(Flat(parts, i - 1)) + j] = parts[i][j]
  /\ \A k \in 1..Len(Flat(parts, n)) : \E i \in 1..n : \E j \in 1..Len(parts[i]) :
       k = Len(Flat(parts, i - 1)) + j

(* So it is for every number of parts, by induction.                          *)
LEMMA FlattenParts ==
  ASSUME NEW S, NEW N \in Nat, NEW parts, \A i \in 1..N : parts[i] \in Seq(S)
  PROVE  \A n \in 0..N : PartsOf(parts, n, S)
<1> DEFINE T == {n \in Nat : n <= N => PartsOf(parts, n, S)}
<1>1. 0 \in T
  <2>1. Flat(parts, 0) = <<>>
    BY FlatZero
  <2>2. Len(<<>>) = 0 /\ <<>> \in Seq(S) /\ 1..0 = {}
    OBVIOUS
  <2>3. PartsOf(parts, 0, S)
    BY <2>1, <2>2, Zenon DEF PartsOf
  <2> QED BY <2>3
<1>2. ASSUME NEW n \in Nat, n \in T PROVE n + 1 \in T
  <2> SUFFICES ASSUME n + 1 <= N PROVE PartsOf(parts, n + 1, S)
    OBVIOUS
  <2> DEFINE a == Flat(parts, n)
             c == Flat(parts, n + 1)
             p == parts[n + 1]
             start(i) == Len(Flat(parts, i - 1))
  <2>1. PartsOf(parts, n, S) /\ p \in Seq(S) /\ n + 1 \in 1..N /\ (n + 1) - 1 = n
    BY <1>2
  <2>2. a \in Seq(S) /\ c = a \o p
    <3>1. \A i \in 1..(n + 1) : parts[i] \in Seq(S)
      OBVIOUS
    <3> QED BY <2>1, <3>1, FlatStep DEF PartsOf
  <2>3. PICK la \in Nat : la = Len(a)
    BY <2>2, LenProperties
  <2>4. PICK lp \in Nat : lp = Len(p)
    BY <2>1, LenProperties
  <2>5. /\ c \in Seq(S) /\ Len(c) = la + lp
        /\ \A k \in 1..(la + lp) : c[k] = IF k <= la THEN a[k] ELSE p[k - la]
    <3> HIDE DEF a, c, p
    <3>1. /\ a \o p \in Seq(S) /\ Len(a \o p) = Len(a) + Len(p)
          /\ \A k \in 1..(Len(a) + Len(p)) :
               (a \o p)[k] = IF k <= Len(a) THEN a[k] ELSE p[k - Len(a)]
      BY <2>1, <2>2, ConcatProperties
    <3> QED BY <2>2, <2>3, <2>4, <3>1
  <2>20. Len(Flat(parts, n)) = la
    BY <2>3, Zenon
  <2>6. /\ \A i \in 1..n : start(i) \in Nat /\ start(i) + Len(parts[i]) <= la
        /\ \A i \in 1..n : \A j \in 1..Len(parts[i]) : a[start(i) + j] = parts[i][j]
        /\ \A k \in 1..la : \E i \in 1..n : \E j \in 1..Len(parts[i]) : k = start(i) + j
    BY <2>1, <2>20 DEF PartsOf
  <2>7. start(n + 1) = la
    BY <2>1, <2>3
  <2>8. \A i \in 1..(n + 1) : i \in 1..n \/ i = n + 1
    OBVIOUS
  <2>9. \A i \in 1..n : Len(parts[i]) \in Nat
    BY LenProperties
  <2> HIDE DEF a, c, p, start
  <2>10. ASSUME NEW i \in 1..(n + 1)
         PROVE  start(i) \in Nat /\ start(i) + Len(parts[i]) <= Len(c)
    <3>1. CASE i \in 1..n
      BY <2>3, <2>4, <2>5, <2>6, <2>9, <3>1
    <3>2. CASE i = n + 1
      BY <2>3, <2>4, <2>5, <2>7, <3>2 DEF p
    <3> QED BY <2>8, <3>1, <3>2
  <2>11. ASSUME NEW i \in 1..(n + 1), NEW j \in 1..Len(parts[i])
         PROVE  c[start(i) + j] = parts[i][j]
    <3>1. CASE i \in 1..n
      <4>1. PICK k \in 1..la : k = start(i) + j
        BY <2>6, <2>9, <3>1
      <4>2. c[k] = a[k]
        BY <2>3, <2>4, <2>5, <4>1
      <4> QED BY <2>6, <3>1, <4>1, <4>2
    <3>2. CASE i = n + 1
      <4>1. PICK k \in 1..(la + lp) : k = start(i) + j /\ ~(k <= la) /\ k - la = j
        BY <2>4, <2>7, <3>2 DEF p
      <4>2. c[k] = p[j]
        BY <2>5, <4>1
      <4> QED BY <3>2, <4>1, <4>2 DEF p
    <3> QED BY <2>8, <3>1, <3>2
  <2>12. ASSUME NEW k \in 1..Len(c)
         PROVE  \E i \in 1..(n + 1) : \E j \in 1..Len(parts[i]) : k = start(i) + j
    <3>1. CASE k <= la
      <4>1. k \in 1..la
        BY <2>5, <3>1
      <4>2. \A i \in 1..n : i \in 1..(n + 1)
        OBVIOUS
      <4> QED BY <2>6, <4>1, <4>2
    <3>2. CASE ~(k <= la)
      <4>1. k - la \in 1..lp /\ k = la + (k - la)
        BY <2>3, <2>4, <2>5, <3>2
      <4>2. n + 1 \in 1..(n + 1)
        OBVIOUS
      <4>3. k - la \in 1..Len(parts[n + 1])
        BY <2>4, <4>1 DEF p
      <4>4. k = start(n + 1) + (k - la)
        BY <2>7, <4>1, Zenon
      <4> QED BY <4>2, <4>3, <4>4, Zenon
    <3> QED BY <3>1, <3>2
  <2> QED BY <2>5, <2>10, <2>11, <2>12 DEF PartsOf, c, start
<1>3. Nat \subseteq T
  <2> HIDE DEF T
  <2> QED BY <1>1, <1>2, SetInduction
<1> SUFFICES ASSUME NEW n \in 0..N PROVE PartsOf(parts, n, S)
  OBVIOUS
<1>4. n \in T
  BY <1>3
<1> QED BY <1>4

-----------------------------------------------------------------------------
(* The inductive invariant.                                                  *)

File == [name : Names, content : Contents]

LocalHeaders == [is : {"local"}, name : Names, content : Contents]
DataUnits    == [is : {"data"}, name : Names, content : Contents, part : Nat]
DirRecords   == [is : {"dir"}, name : Names, content : Contents, at : Nat]
EndRecords   == [is : {"end"}, at : Nat, n : Nat]

Units == LocalHeaders \cup DataUnits \cup DirRecords \cup EndRecords

PlainEntries  == [zip : {NoArchive}, name : Files]
ZippedEntries == [zip : Archives, name : Names, at : Nat, content : Contents]

Calls == {NoOp} \cup [kind : {"write"}, file : [name : Files, content : Contents]]
                \cup [kind : {"archive"}, zip : Archives, at : Nat \ {0},
                      todo : Seq(Units), promised : Seq(File)]

Types ==
  /\ plain \in [Files -> Contents \cup {NoContent}]
  /\ present \subseteq Archives
  /\ disk \in [Archives -> Seq(Units)]
  /\ phase \in {"down", "up", "hung"}
  /\ m_files \in Seq(PlainEntries \cup ZippedEntries)
  /\ op \in Calls
  /\ loaded \subseteq File
  /\ recreated \subseteq present

(* Only a process that is up has a call in progress or an index. *)
OnlyUpWorks ==
  /\ \A z \in Archives \ present : disk[z] = <<>>
  /\ op.kind = "archive" => op.zip \in present
  /\ phase # "up" => op = NoOp
  /\ phase = "down" => m_files = <<>>

\* The units of file are in s from offset on.
Holds(s, file, offset) ==
  /\ offset \in 1..Len(s)
  /\ s[offset] = [is |-> "local", name |-> file.name, content |-> file.content]
  /\ \A k \in 1..Size[file.content] : offset + k \in 1..Len(s) /\ s[offset + k] = Data(file, k)

\* s is n files: a body up to at, n directory records for what is in it, the end record.
IsArchive(s, at, n) ==
  /\ at \in Nat \ {0} /\ n \in Nat \ {0}
  /\ Len(s) = at + n
  /\ s[at + n] = EndUnit(at, n)
  /\ \A i \in 1..(at - 1) : s[i].is \in {"local", "data"}
  /\ \A i \in 1..n : s[at + i - 1] \in DirRecords /\ Holds(s, s[at + i - 1], s[at + i - 1].at)

Listed(s, at, n) ==
  [i \in 1..n |-> [name |-> s[at + i - 1].name, content |-> s[at + i - 1].content]]

\* The directory of s, if it has an end record, begins with a local header.
IsBroken(s, at) ==
  /\ at \in 1..Len(s) /\ s[at].is = "local"
  /\ \A i \in 1..Len(s) : s[i].is = "end" => s[i].at = at /\ s[i].n # 0

ArchivesAreSound ==
  \A z \in Archives : \/ disk[z] = <<>>
                      \/ \E at, n \in Nat : IsArchive(disk[z], at, n)
                      \/ \E at \in Nat : IsBroken(disk[z], at)

\* What s becomes when all of todo is written from offset on.
Result(s, offset, todo) ==
  [i \in 1..(offset - 1 + Len(todo)) |-> IF i < offset THEN s[i] ELSE todo[i - offset + 1]]

\* That is an archive with the files promised, and the last unit is its end.
Completes(s, offset, todo, promised) ==
  /\ offset - 1 <= Len(s)
  /\ Len(s) <= offset - 1 + Len(todo)
  /\ \E at, n \in Nat : /\ IsArchive(Result(s, offset, todo), at, n)
                        /\ Listed(Result(s, offset, todo), at, n) = promised

\* Nothing is written yet; the first unit will make an archive s a broken one.
Untouched(s, offset, todo) ==
  /\ Len(todo) >= 2
  /\ todo[1].is = "local"
  /\ s = <<>> \/ \E n \in Nat : IsArchive(s, offset, n)

(* A call that writes an archive will complete it, from wherever it is; until *)
(* then the archive is what it was, or broken at a place already passed.      *)
WritingIsSound ==
  op.kind = "archive" =>
    LET s == disk[op.zip]
    IN  /\ Completes(s, op.at, op.todo, op.promised)
        /\ \/ op.todo = <<>>
           \/ Untouched(s, op.at, op.todo)
           \/ \E at \in 1..(op.at - 1) : IsBroken(s, at)

(* An entry of an archive that is not rewritten since the index was made      *)
(* leads to its data, and a call in progress writes only behind that.         *)
IndexIsSound ==
  \A i \in 1..Len(m_files) :
    LET entry == m_files[i]
    IN  entry.zip \notin recreated \cup {NoArchive} =>
          /\ Holds(disk[entry.zip], entry, entry.at)
          /\ op.kind = "archive" /\ op.zip = entry.zip
               => entry.at + Size[entry.content] < op.at

\* The index has an entry for the plain file f.
Indexed(f) == \E i \in Matches(f) : m_files[i].zip = NoArchive

(* A plain file that is not hidden has its entry, or will get it: the one     *)
(* that is being written, of a name that the index lacks.                     *)
PlainFilesAreIndexed ==
  /\ op.kind = "write" => op.file.name \in OnDisk
  /\ phase = "up" => \A f \in OnDisk : \/ f \in hidden
                                       \/ Indexed(f)
                                       \/ op.kind = "write" /\ op.file.name = f /\ ~ isExist(f)

(* A hidden file has entries of archives only; an entry of a plain file is    *)
(* one of a file on disk.                                                     *)
HiddenFilesAreShadowed ==
  /\ \A f \in hidden : isExist(f) /\ ~ Indexed(f)
  /\ \A i \in 1..Len(m_files) : m_files[i].zip = NoArchive => plain[m_files[i].name] # NoContent

(* Of the entries with a name, a plain file's comes first.                   *)
PlainFilesComeFirst ==
  \A f \in Files : Indexed(f) => m_files[Min(Matches(f))].zip = NoArchive

(* The inductive invariant of the file system. *)
IInv == /\ Types
        /\ OnlyUpWorks
        /\ ArchivesAreSound
        /\ WritingIsSound
        /\ IndexIsSound
        /\ PlainFilesAreIndexed
        /\ HiddenFilesAreShadowed
        /\ PlainFilesComeFirst

-----------------------------------------------------------------------------
(* What the readers of an archive find.                                      *)

(* The kind of a unit says which fields it has.                               *)
LEMMA UnitKinds ==
  ASSUME NEW u \in Units
  PROVE  /\ u.is \in {"local", "data", "dir", "end"}
         /\ u.is = "local" => u \in LocalHeaders
         /\ u.is = "data" => u \in DataUnits
         /\ u.is = "dir" => u \in DirRecords
         /\ u.is = "end" => u \in EndRecords
BY DEF Units, LocalHeaders, DataUnits, DirRecords, EndRecords

(* In an archive the only end record is the last unit. *)
LEMMA KindsInArchive ==
  ASSUME NEW s \in Seq(Units), NEW at, NEW n, IsArchive(s, at, n), NEW i \in 1..Len(s)
  PROVE  /\ i < at => s[i].is \in {"local", "data"}
         /\ at <= i /\ i < at + n => s[i].is = "dir"
         /\ i = at + n => s[i].is = "end"
         /\ at + n \in 2..Len(s)
<1>1. at \in Nat \ {0} /\ n \in Nat \ {0} /\ Len(s) = at + n
  BY DEF IsArchive
<1>2. CASE i < at
  <2>1. i \in 1..(at - 1)
    BY <1>1, <1>2
  <2> QED BY <1>1, <1>2, <2>1 DEF IsArchive
<1>3. CASE at <= i /\ i < at + n
  <2>1. i - at + 1 \in 1..n /\ at + (i - at + 1) - 1 = i
    BY <1>1, <1>3
  <2>2. s[i] \in DirRecords
    BY <2>1 DEF IsArchive
  <2> QED BY <1>1, <1>3, <2>2 DEF DirRecords
<1>4. CASE i = at + n
  <2>1. s[i].is = "end"
    BY <1>4 DEF IsArchive, EndUnit
  <2> QED BY <1>1, <1>4, <2>1
<1> QED BY <1>1, <1>2, <1>3, <1>4

(* A file whose units are there is read.                                      *)
LEMMA ReadsBack ==
  ASSUME NEW z \in Archives, NEW file, NEW offset, file.content \in Contents,
         Holds(disk[z], file, offset)
  PROVE  ReadAt(z, offset) = file.content
<1> DEFINE header == [is |-> "local", name |-> file.name, content |-> file.content]
<1>1. /\ offset \in 1..Len(disk[z]) /\ disk[z][offset] = header
      /\ \A k \in 1..Size[file.content] :
           offset + k \in 1..Len(disk[z]) /\ disk[z][offset + k] = Data(file, k)
  BY DEF Holds
<1>2. header.is = "local" /\ header.content = file.content
      /\ \A k \in 1..Size[file.content] : Data(header, k) = Data(file, k)
  BY DEF Data
<1>3. \A k \in 1..Size[file.content] : offset + k <= Len(disk[z])
  BY <1>1
<1> HIDE DEF header
<1> QED BY <1>1, <1>2, <1>3 DEF ReadAt

(* The files of an archive: n of them.                                        *)
LEMMA ListedType ==
  ASSUME NEW s \in Seq(Units), NEW at, NEW n, IsArchive(s, at, n)
  PROVE  Listed(s, at, n) \in Seq(File) /\ Len(Listed(s, at, n)) = n
<1>1. n \in Nat
  BY DEF IsArchive
<1>2. \A i \in 1..n : [name |-> s[at + i - 1].name, content |-> s[at + i - 1].content] \in File
  BY DEF IsArchive, DirRecords, File
<1>3. /\ Listed(s, at, n) = [i \in 1..n |-> Listed(s, at, n)[i]]
      /\ \A i \in 1..n : Listed(s, at, n)[i] \in File
  BY <1>2 DEF Listed
<1> QED BY <1>1, <1>3

\* The directory of archive z is found, and lists what the archive holds.
ReadsAs(z, at, n) ==
  /\ EndAt(z) = at + n
  /\ disk[z][EndAt(z)] = EndUnit(at, n)
  /\ Directory(z) \in Seq(DirRecords)
  /\ Len(Directory(z)) = n
  /\ \A i \in 1..n : Directory(z)[i] = disk[z][at + i - 1]
  /\ Listing(z) = Listed(disk[z], at, n)

(* This is so of every whole archive.                                        *)
LEMMA ReadArchive ==
  ASSUME NEW z \in Archives, disk[z] \in Seq(Units), NEW at, NEW n, IsArchive(disk[z], at, n)
  PROVE  ReadsAs(z, at, n)
<1> DEFINE s == disk[z]
<1>1. at \in Nat \ {0} /\ n \in Nat \ {0} /\ Len(s) = at + n /\ s[at + n] = EndUnit(at, n)
  BY DEF IsArchive
<1>2. EndAt(z) = at + n
  <2> DEFINE ends == {i \in 2..Len(s) : s[i].is = "end"}
  <2>1. at + n \in ends
    BY <1>1, KindsInArchive
  <2>2. ASSUME NEW i \in ends PROVE at + n >= i
    BY <1>1, <2>2
  <2>3. ends \in SUBSET Nat /\ ends # {}
    BY <1>1, <2>1
  <2>4. Max(ends) = at + n
    <3> HIDE DEF ends
    <3> QED BY <2>1, <2>2, <2>3, MaxOfSet
  <2> QED BY <2>3, <2>4 DEF EndAt
<1>3. EndAt(z) # 0 /\ s[EndAt(z)] = EndUnit(at, n)
  BY <1>1, <1>2
<1>4. Directory(z) = SubSeq(s, at, at + n - 1)
  <2> DEFINE good == {m \in 0..n : \A i \in 1..m : IsDirUnit(z, at + i - 1)}
  <2>1. \A i \in 1..n : IsDirUnit(z, at + i - 1)
    <3> SUFFICES ASSUME NEW i \in 1..n PROVE IsDirUnit(z, at + i - 1)
      OBVIOUS
    <3>1. at + i - 1 \in 1..Len(s) /\ at <= at + i - 1 /\ at + i - 1 < at + n
      BY <1>1
    <3>2. s[at + i - 1].is = "dir"
      BY <3>1, KindsInArchive
    <3> QED BY <3>1, <3>2 DEF IsDirUnit
  <2>2. n \in good /\ good \in SUBSET Nat /\ \A m \in good : n >= m
    BY <1>1, <2>1
  <2>3. Max(good) = n
    <3> HIDE DEF good
    <3> QED BY <2>2, MaxOfSet
  <2>4. EndUnit(at, n).at = at /\ EndUnit(at, n).n = n
    BY DEF EndUnit
  <2> QED BY <1>3, <2>3, <2>4, Zenon DEF Directory
<1>5. /\ Directory(z) \in Seq(DirRecords)
      /\ Len(Directory(z)) = n
      /\ \A i \in 1..n : Directory(z)[i] = s[at + i - 1]
  <2>1. \A i \in at..(at + n - 1) : s[i] \in DirRecords
    <3> SUFFICES ASSUME NEW i \in at..(at + n - 1) PROVE s[i] \in DirRecords
      OBVIOUS
    <3>1. i - at + 1 \in 1..n /\ at + (i - at + 1) - 1 = i
      BY <1>1
    <3> QED BY <3>1 DEF IsArchive
  <2>2. PICK last \in Int : last = at + n - 1 /\ at \in Int /\ at <= last /\ last - at + 1 = n
    BY <1>1
  <2>3. /\ SubSeq(s, at, last) \in Seq(DirRecords)
        /\ Len(SubSeq(s, at, last)) = IF at <= last THEN last - at + 1 ELSE 0
        /\ \A i \in 1..(last - at + 1) : SubSeq(s, at, last)[i] = s[at + i - 1]
    BY <2>1, <2>2, SubSeqProperties
  <2> QED BY <1>4, <2>2, <2>3
<1>6. Listing(z) = Listed(s, at, n)
  <2>1. ASSUME NEW i \in 1..n
        PROVE  ReadAt(z, Directory(z)[i].at) = Directory(z)[i].content
    <3>1. Directory(z)[i] \in DirRecords /\ Holds(s, Directory(z)[i], Directory(z)[i].at)
      BY <1>5 DEF IsArchive
    <3> QED BY <3>1, ReadsBack DEF DirRecords
  <2>2. \A i \in 1..n : /\ ReadAt(z, Directory(z)[i].at) = s[at + i - 1].content
                        /\ Directory(z)[i].name = s[at + i - 1].name
    BY <1>5, <2>1
  <2>3. Listing(z) = [i \in 1..n |-> [name |-> Directory(z)[i].name,
                                      content |-> ReadAt(z, Directory(z)[i].at)]]
    BY <1>5, Zenon DEF Listing
  <2> QED BY <2>2, <2>3 DEF Listed
<1> QED BY <1>2, <1>3, <1>5, <1>6 DEF ReadsAs

(* Of an archive that is empty or broken nothing is found.                    *)
LEMMA ReadBroken ==
  ASSUME NEW z \in Archives, disk[z] \in Seq(Units),
         disk[z] = <<>> \/ \E at \in Nat : IsBroken(disk[z], at)
  PROVE  /\ Directory(z) = <<>>
         /\ Listing(z) = <<>>
         /\ EndAt(z) # 0 => disk[z][EndAt(z)].n # 0
<1> DEFINE s == disk[z]
           ends == {i \in 2..Len(s) : s[i].is = "end"}
<1>1. Len(s) \in Nat
  OBVIOUS
<1>2. EndAt(z) = 0 \/ EndAt(z) \in ends
  <2>1. CASE ends = {}
    BY <2>1 DEF EndAt
  <2>2. CASE ends # {}
    <3>1. EndAt(z) = Max(ends)
      BY <2>2 DEF EndAt
    <3>2. \E x \in ends : \A y \in ends : x >= y
      <4>1. ends \in SUBSET Nat /\ \A i \in ends : i <= Len(s)
        BY <1>1
      <4> HIDE DEF ends
      <4> QED BY <1>1, <2>2, <4>1, GreatestExists
    <3> QED BY <3>1, <3>2 DEF Max
  <2> QED BY <2>1, <2>2
<1>3. Directory(z) = <<>> /\ (EndAt(z) # 0 => s[EndAt(z)].n # 0)
  <2>1. CASE EndAt(z) = 0
    BY <2>1 DEF Directory
  <2>2. CASE EndAt(z) # 0
    <3>1. EndAt(z) \in 1..Len(s) /\ s[EndAt(z)].is = "end"
      BY <1>2, <2>2
    <3>2. s # <<>>
      BY <3>1
    <3>3. PICK at \in Nat : IsBroken(s, at)
      BY <3>2
    <3> DEFINE end == s[EndAt(z)]
    <3>4. end.at = at /\ end.n # 0 /\ at \in 1..Len(s) /\ s[at].is = "local"
      BY <3>1, <3>3 DEF IsBroken
    <3>5. end \in EndRecords
      <4>1. end \in Units
        BY <3>1
      <4> QED BY <3>1, <4>1, UnitKinds
    <3>6. end.n \in Nat
      BY <3>5 DEF EndRecords
    <3> DEFINE good == {m \in 0..end.n : \A i \in 1..m : IsDirUnit(z, end.at + i - 1)}
    <3>7. ~IsDirUnit(z, at)
      BY <3>4 DEF IsDirUnit
    <3>8. 0 \in good
      BY <3>6
    <3>9. ASSUME NEW m \in good PROVE 0 >= m
      <4>1. m # 0 => 1 \in 1..m /\ at + 1 - 1 = at
        BY <3>6
      <4>2. m \in Nat /\ \A i \in 1..m : IsDirUnit(z, at + i - 1)
        BY <3>4, <3>6
      <4>3. m = 0
        BY <3>7, <4>1, <4>2
      <4> QED BY <4>3
    <3>10. Max(good) = 0
      <4>1. good \in SUBSET Nat
        BY <3>6
      <4> HIDE DEF good
      <4> QED BY <3>8, <3>9, <4>1, MaxOfSet
    <3>11. Directory(z) = SubSeq(s, end.at, end.at + 0 - 1)
      BY <2>2, <3>10, Zenon DEF Directory
    <3>12. Directory(z) = <<>>
      <4>1. end.at \in Int /\ end.at + 0 - 1 \in Int /\ end.at + 0 - 1 < end.at
        BY <3>4
      <4> QED BY <3>11, <4>1, SubSeqEmpty
    <3> QED BY <3>4, <3>12
  <2> QED BY <2>1, <2>2
<1>4. Listing(z) = <<>>
  <2>1. Len(Directory(z)) = 0
    BY <1>3
  <2> QED BY <2>1 DEF Listing
<1> QED BY <1>3, <1>4

-----------------------------------------------------------------------------
(* The archives that the two calls write.                                    *)

(* The units of a file: its header, then its data.                           *)
LEMMA LocalUnitsType ==
  ASSUME NEW file \in File
  PROVE  /\ LocalUnits(file) \in Seq(Units)
         /\ Size[file.content] \in Nat
         /\ Len(LocalUnits(file)) = 1 + Size[file.content]
         /\ LocalUnits(file)[1] = [is |-> "local", name |-> file.name, content |-> file.content]
         /\ \A k \in 1..Size[file.content] : LocalUnits(file)[1 + k] = Data(file, k)
         /\ \A i \in 1..Len(LocalUnits(file)) : LocalUnits(file)[i].is \in {"local", "data"}
<1> DEFINE header == [is |-> "local", name |-> file.name, content |-> file.content]
           data == [k \in 1..Size[file.content] |-> Data(file, k)]
<1>1. Size[file.content] \in Nat /\ file.name \in Names /\ file.content \in Contents
  BY FileSystemAssumption DEF File
<1>2. header \in Units /\ header.is = "local"
  BY <1>1 DEF Units, LocalHeaders
<1>3. \A k \in 1..Size[file.content] : Data(file, k) \in Units /\ Data(file, k).is = "data"
  BY <1>1 DEF Data, Units, DataUnits
<1>4. /\ data \in Seq(Units) /\ Len(data) = Size[file.content]
      /\ \A k \in 1..Size[file.content] : data[k] = Data(file, k)
  BY <1>1, <1>3
<1>5. LocalUnits(file) = <<header>> \o data
  BY DEF LocalUnits
<1> HIDE DEF header, data
<1>6. <<header>> \in Seq(Units) /\ Len(<<header>>) = 1 /\ <<header>>[1] = header
  BY <1>2
<1>7. /\ <<header>> \o data \in Seq(Units)
      /\ Len(<<header>> \o data) = 1 + Size[file.content]
      /\ \A i \in 1..(1 + Size[file.content]) :
           (<<header>> \o data)[i] = IF i <= 1 THEN <<header>>[i] ELSE data[i - 1]
  BY <1>4, <1>6, ConcatProperties
<1>8. (<<header>> \o data)[1] = header
  BY <1>1, <1>6, <1>7
<1>9. ASSUME NEW k \in 1..Size[file.content]
      PROVE  (<<header>> \o data)[1 + k] = Data(file, k)
  <2>1. 1 + k \in 1..(1 + Size[file.content]) /\ ~(1 + k <= 1) /\ (1 + k) - 1 = k
    BY <1>1
  <2> QED BY <1>4, <1>7, <2>1
<1>10. ASSUME NEW i \in 1..(1 + Size[file.content])
       PROVE  (<<header>> \o data)[i].is \in {"local", "data"}
  <2>1. CASE i = 1
    BY <1>2, <1>8, <2>1
  <2>2. CASE i # 1
    <3>1. i - 1 \in 1..Size[file.content] /\ 1 + (i - 1) = i
      BY <1>1, <2>2
    <3> QED BY <1>3, <1>9, <3>1
  <2> QED BY <2>1, <2>2
<1> QED BY <1>1, <1>5, <1>7, <1>8, <1>9, <1>10 DEF header

(* A file has no other fields.                                               *)
LEMMA FileFields ==
  ASSUME NEW file \in File
  PROVE  [name |-> file.name, content |-> file.content] = file
BY DEF File

\* t is p units of files, the directory dirs of list, and the end record.
Assembled(t, p, dirs, list) ==
  /\ Len(t) = p + Len(list) + 1
  /\ t[p + Len(list) + 1] = EndUnit(p + 1, Len(list))
  /\ \A i \in 1..p : t[i].is \in {"local", "data"}
  /\ \A i \in 1..Len(list) : /\ t[p + i] = dirs[i]
                             /\ dirs[i] \in DirRecords
                             /\ Holds(t, dirs[i], dirs[i].at)
                             /\ dirs[i].name = list[i].name /\ dirs[i].content = list[i].content

(* Units, directory and end record, put together, are an archive.            *)
LEMMA AssembledIsArchive ==
  ASSUME NEW t \in Seq(Units), NEW p \in Nat, NEW dirs, NEW list \in Seq(File), list # <<>>,
         Assembled(t, p, dirs, list)
  PROVE  IsArchive(t, p + 1, Len(list)) /\ Listed(t, p + 1, Len(list)) = list
<1>0. PICK n \in Nat \ {0} : n = Len(list)
  BY EmptySeq, LenProperties
<1> DEFINE at == p + 1
<1>1. at \in Nat \ {0} /\ at - 1 = p /\ p + n + 1 = at + n /\ \A i \in 1..n : at + i - 1 = p + i
  OBVIOUS
<1>2. \A i \in 1..n : /\ t[at + i - 1] = dirs[i] /\ dirs[i] \in DirRecords
                      /\ Holds(t, dirs[i], dirs[i].at)
                      /\ dirs[i].name = list[i].name /\ dirs[i].content = list[i].content
  BY <1>0, <1>1 DEF Assembled
<1>3. /\ Len(t) = at + n /\ t[at + n] = EndUnit(at, n)
      /\ \A i \in 1..(at - 1) : t[i].is \in {"local", "data"}
  BY <1>0, <1>1 DEF Assembled
<1> HIDE DEF at
<1>4. IsArchive(t, at, n)
  BY <1>1, <1>2, <1>3 DEF IsArchive
<1>5. Listed(t, at, n) = list
  <2>1. ASSUME NEW i \in 1..n
        PROVE  [name |-> t[at + i - 1].name, content |-> t[at + i - 1].content] = list[i]
    <3>1. list[i] \in File
      BY <1>0, LenProperties
    <3> QED BY <1>2, <3>1, FileFields
  <2>2. list = [i \in 1..n |-> list[i]]
    <3>1. list \in [1..n -> File]
      BY <1>0, LenProperties
    <3> QED BY <3>1
  <2> QED BY <2>1, <2>2 DEF Listed
<1> QED BY <1>0, <1>4, <1>5 DEF at

\* c consists of a, b and e, in a row.
Row(c, a, b, e, S) ==
  /\ c \in Seq(S)
  /\ Len(c) = Len(a) + Len(b) + 1
  /\ \A i \in 1..Len(a) : c[i] = a[i]
  /\ \A i \in 1..Len(b) : c[Len(a) + i] = b[i]
  /\ c[Len(a) + Len(b) + 1] = e

(* Three pieces in a row. *)
LEMMA InARow ==
  ASSUME NEW S, NEW a \in Seq(S), NEW b \in Seq(S), NEW e \in S
  PROVE  Row(a \o b \o <<e>>, a, b, e, S)
<1> DEFINE ab == a \o b
           c == ab \o <<e>>
<1>1. PICK la \in Nat : la = Len(a)
  BY LenProperties
<1>2. PICK lb \in Nat : lb = Len(b)
  BY LenProperties
<1>3. /\ ab \in Seq(S) /\ Len(ab) = la + lb
      /\ \A i \in 1..(la + lb) : ab[i] = IF i <= la THEN a[i] ELSE b[i - la]
  BY <1>1, <1>2, ConcatProperties
<1> HIDE DEF ab
<1>4. <<e>> \in Seq(S) /\ Len(<<e>>) = 1 /\ <<e>>[1] = e
  OBVIOUS
<1>5. /\ c \in Seq(S) /\ Len(c) = la + lb + 1
      /\ \A i \in 1..(la + lb + 1) : c[i] = IF i <= la + lb THEN ab[i] ELSE <<e>>[i - (la + lb)]
  BY <1>3, <1>4, ConcatProperties
<1> HIDE DEF c
<1>6. ASSUME NEW i \in 1..la PROVE c[i] = a[i]
  BY <1>3, <1>5
<1>7. ASSUME NEW i \in 1..lb PROVE c[la + i] = b[i]
  <2>1. PICK k \in 1..(la + lb) : k = la + i /\ ~(k <= la) /\ k - la = i
    OBVIOUS
  <2>2. c[k] = ab[k] /\ ab[k] = b[i]
    BY <1>3, <1>5, <2>1
  <2> QED BY <2>1, <2>2
<1>8. c[la + lb + 1] = e
  <2>1. PICK k \in 1..(la + lb + 1) : k = la + lb + 1 /\ ~(k <= la + lb) /\ k - (la + lb) = 1
    OBVIOUS
  <2> QED BY <1>4, <1>5, <2>1
<1>9. Row(c, a, b, e, S)
  BY <1>1, <1>2, <1>5, <1>6, <1>7, <1>8 DEF Row
<1> QED BY <1>9 DEF ab, c

(* The directory record of a file.                                           *)
LEMMA DirUnitType ==
  ASSUME NEW file \in File, NEW offset \in Nat
  PROVE  /\ DirUnit(file, offset) \in DirRecords
         /\ DirUnit(file, offset).name = file.name
         /\ DirUnit(file, offset).content = file.content
         /\ DirUnit(file, offset).at = offset
         /\ \A k : Data(DirUnit(file, offset), k) = Data(file, k)
BY DEF DirUnit, DirRecords, Data, File

(* A file whose units are somewhere in t is held there.                      *)
LEMMA UnitsAreHeld ==
  ASSUME NEW t \in Seq(Units), NEW file \in File, NEW start \in Nat,
         start + Len(LocalUnits(file)) <= Len(t),
         \A j \in 1..Len(LocalUnits(file)) : t[start + j] = LocalUnits(file)[j]
  PROVE  Holds(t, DirUnit(file, start + 1), start + 1)
<1>1. PICK size \in Nat : /\ size = Size[file.content] /\ Len(LocalUnits(file)) = 1 + size
                          /\ LocalUnits(file)[1] = [is |-> "local", name |-> file.name,
                                                    content |-> file.content]
                          /\ \A k \in 1..size : LocalUnits(file)[1 + k] = Data(file, k)
  BY LocalUnitsType
<1>2. PICK len \in Nat : len = Len(t)
  BY LenProperties
<1>3. start + 1 \in 1..len /\ t[start + 1] = LocalUnits(file)[1]
  <2>1. start + (1 + size) <= len
    BY <1>1, <1>2
  <2>2. 1 \in 1..Len(LocalUnits(file))
    BY <1>1
  <2>3. t[start + 1] = LocalUnits(file)[1]
    BY <2>2
  <2> QED BY <2>1, <2>3
<1>4. ASSUME NEW k \in 1..size
      PROVE  (start + 1) + k \in 1..len /\ t[(start + 1) + k] = Data(file, k)
  <2>1. start + (1 + size) <= len
    BY <1>1, <1>2
  <2>2. 1 + k \in 1..Len(LocalUnits(file))
    BY <1>1
  <2>3. t[start + (1 + k)] = LocalUnits(file)[1 + k] /\ LocalUnits(file)[1 + k] = Data(file, k)
    BY <1>1, <2>2
  <2>4. start + (1 + k) = (start + 1) + k /\ (start + 1) + k \in 1..len
    BY <2>1
  <2> QED BY <2>3, <2>4, Zenon
<1>5. start + 1 \in Nat
  OBVIOUS
<1>6. /\ DirUnit(file, start + 1).name = file.name
      /\ DirUnit(file, start + 1).content = file.content
      /\ \A k : Data(DirUnit(file, start + 1), k) = Data(file, k)
  BY <1>5, DirUnitType
<1> QED BY <1>1, <1>2, <1>3, <1>4, <1>6 DEF Holds

(* createZIP's archive is whole.                                              *)
LEMMA NewArchiveIsWhole ==
  ASSUME NEW list \in Seq(File), list # <<>>
  PROVE  /\ NewArchive(list) \in Seq(Units)
         /\ Len(NewArchive(list)) >= 2
         /\ NewArchive(list)[1].is = "local"
         /\ \E at, n \in Nat : /\ IsArchive(NewArchive(list), at, n)
                               /\ Listed(NewArchive(list), at, n) = list
<1> DEFINE parts == [i \in 1..Len(list) |-> LocalUnits(list[i])]
           start(i) == Len(Flat(parts, i - 1))
           dirs == [i \in 1..Len(list) |-> DirUnit(list[i], start(i) + 1)]
           t == NewArchive(list)
<1>1. PICK n \in Nat \ {0} : n = Len(list)
  BY EmptySeq, LenProperties
<1>2. ASSUME NEW i \in 1..n
      PROVE  list[i] \in File /\ parts[i] = LocalUnits(list[i]) /\ parts[i] \in Seq(Units)
  <2>1. list[i] \in File
    BY <1>1
  <2> QED BY <1>1, <2>1, LocalUnitsType
<1>3. ASSUME NEW k \in 0..n
      PROVE  FlattenSeq([i \in 1..k |-> LocalUnits(list[i])]) = Flat(parts, k)
  <2>1. \A i \in 1..k : parts[i] = LocalUnits(list[i])
    BY <1>1
  <2>2. [i \in 1..k |-> LocalUnits(list[i])] = [i \in 1..k |-> parts[i]]
    <3> HIDE DEF parts
    <3> QED BY <2>1
  <2> HIDE DEF parts
  <2> QED BY <2>2, Zenon DEF Flat
<1> HIDE DEF parts
<1>4. PartsOf(parts, n, Units)
  <2>1. \A m \in 0..n : PartsOf(parts, m, Units)
    BY <1>2, FlattenParts
  <2> QED BY <2>1
<1>5. PICK body \in Seq(Units) : body = Flat(parts, n)
  BY <1>4 DEF PartsOf
<1>6. PICK p \in Nat : p = Len(body)
  BY LenProperties
<1>7. /\ \A i \in 1..n : start(i) \in Nat /\ start(i) + Len(parts[i]) <= p
      /\ \A i \in 1..n : \A j \in 1..Len(parts[i]) : body[start(i) + j] = parts[i][j]
      /\ \A k \in 1..p : \E i \in 1..n : \E j \in 1..Len(parts[i]) : k = start(i) + j
  <2>1. Len(Flat(parts, n)) = p
    BY <1>5, <1>6
  <2> QED BY <1>4, <1>5, <2>1, Zenon DEF PartsOf
<1>8. /\ dirs \in Seq(Units) /\ Len(dirs) = n
      /\ \A i \in 1..n : dirs[i] = DirUnit(list[i], start(i) + 1) /\ dirs[i] \in DirRecords
  <2>1. \A i \in 1..n : DirUnit(list[i], start(i) + 1) \in DirRecords
    <3> SUFFICES ASSUME NEW i \in 1..n PROVE DirUnit(list[i], start(i) + 1) \in DirRecords
      OBVIOUS
    <3>1. start(i) + 1 \in Nat
      BY <1>7
    <3> HIDE DEF start
    <3> QED BY <1>2, <3>1, DirUnitType
  <2> HIDE DEF start
  <2>2. DirRecords \subseteq Units
    BY DEF Units
  <2> QED BY <1>1, <2>1, <2>2
<1>9. t = body \o dirs \o <<EndUnit(p + 1, n)>>
  <2>1. FlattenSeq([i \in 1..Len(list) |-> LocalUnits(list[i])]) = body
    BY <1>1, <1>3, <1>5
  <2>2. [i \in 1..Len(list) |-> DirUnit(list[i], Len(FlattenSeq([j \in 1..(i - 1) |-> LocalUnits(list[j])])) + 1)]
          = dirs
    <3>1. \A i \in 1..Len(list) : FlattenSeq([j \in 1..(i - 1) |-> LocalUnits(list[j])]) = Flat(parts, i - 1)
      <4> SUFFICES ASSUME NEW i \in 1..n
                   PROVE  FlattenSeq([j \in 1..(i - 1) |-> LocalUnits(list[j])]) = Flat(parts, i - 1)
        BY <1>1
      <4>1. i - 1 \in 0..n
        OBVIOUS
      <4> QED BY <1>3, <4>1
    <3> QED BY <3>1
  <2> HIDE DEF dirs
  <2> QED BY <1>1, <1>6, <2>1, <2>2, Zenon DEF NewArchive
<1>10. EndUnit(p + 1, n) \in Units
  BY DEF EndUnit, Units, EndRecords
<1> HIDE DEF dirs
<1>11. /\ t \in Seq(Units) /\ Len(t) = p + n + 1 /\ t[p + n + 1] = EndUnit(p + 1, n)
       /\ \A i \in 1..p : t[i] = body[i]
       /\ \A i \in 1..n : t[p + i] = dirs[i]
  <2> DEFINE end == EndUnit(p + 1, n)
  <2> HIDE DEF end, t
  <2>1. end \in Units
    BY <1>10 DEF end
  <2>2. /\ body \o dirs \o <<end>> \in Seq(Units)
        /\ Len(body \o dirs \o <<end>>) = Len(body) + Len(dirs) + 1
        /\ \A i \in 1..Len(body) : (body \o dirs \o <<end>>)[i] = body[i]
        /\ \A i \in 1..Len(dirs) : (body \o dirs \o <<end>>)[Len(body) + i] = dirs[i]
        /\ (body \o dirs \o <<end>>)[Len(body) + Len(dirs) + 1] = end
    <3>1. body \in Seq(Units) /\ dirs \in Seq(Units)
      BY <1>8
    <3>2. Row(body \o dirs \o <<end>>, body, dirs, end, Units)
      BY <2>1, <3>1, InARow, Zenon
    <3> QED BY <3>2, Zenon DEF Row
  <2>3. t = body \o dirs \o <<end>>
    BY <1>9 DEF end
  <2>4. t[p + n + 1] = end
    BY <1>6, <1>8, <2>2, <2>3
  <2> QED BY <1>6, <1>8, <2>2, <2>3, <2>4 DEF end
<1> HIDE DEF t
<1>12. ASSUME NEW k \in 1..p PROVE t[k].is \in {"local", "data"}
  <2>1. PICK i \in 1..n : \E j \in 1..Len(parts[i]) : k = start(i) + j
    BY <1>7
  <2>2. PICK j \in 1..Len(parts[i]) : k = start(i) + j
    BY <2>1
  <2>3. t[k] = LocalUnits(list[i])[j] /\ j \in 1..Len(LocalUnits(list[i]))
    <3>1. t[k] = body[start(i) + j]
      BY <1>11, <2>2
    <3>2. body[start(i) + j] = parts[i][j]
      BY <1>7
    <3> QED BY <1>2, <3>1, <3>2
  <2> QED BY <1>2, <2>3, LocalUnitsType
<1>13. ASSUME NEW i \in 1..n PROVE Holds(t, dirs[i], dirs[i].at)
  <2>1. PICK st \in Nat : st = start(i) /\ st + Len(parts[i]) <= p
    BY <1>7
  <2>2. PICK lp \in Nat : lp = Len(parts[i])
    BY <1>2, LenProperties
  <2>3. \A j \in 1..Len(LocalUnits(list[i])) : t[st + j] = LocalUnits(list[i])[j]
    <3> SUFFICES ASSUME NEW j \in 1..Len(parts[i]) PROVE t[st + j] = parts[i][j]
      BY <1>2
    <3>1. PICK k \in 1..p : k = st + j
      <4>1. j \in 1..lp /\ st + lp <= p
        BY <2>1, <2>2
      <4> QED BY <4>1
    <3>2. body[k] = parts[i][j]
      BY <1>7, <2>1, <3>1
    <3> QED BY <1>11, <3>1, <3>2
  <2>4. st + Len(LocalUnits(list[i])) <= Len(t)
    <3>1. st + lp <= p
      BY <2>1, <2>2
    <3>2. st + lp <= p + n + 1
      BY <3>1
    <3> QED BY <1>2, <1>11, <2>2, <3>2
  <2>5. Holds(t, DirUnit(list[i], st + 1), st + 1)
    BY <1>2, <1>11, <2>3, <2>4, UnitsAreHeld
  <2>6. st + 1 \in Nat /\ DirUnit(list[i], st + 1).at = st + 1
    BY <1>2, DirUnitType
  <2> QED BY <1>8, <2>1, <2>5, <2>6
<1>14. \A i \in 1..n : dirs[i].name = list[i].name /\ dirs[i].content = list[i].content
  <2> SUFFICES ASSUME NEW i \in 1..n
               PROVE  dirs[i].name = list[i].name /\ dirs[i].content = list[i].content
    OBVIOUS
  <2>1. start(i) + 1 \in Nat
    BY <1>7
  <2> HIDE DEF start
  <2> QED BY <1>2, <1>8, <2>1, DirUnitType
<1>15. IsArchive(t, p + 1, n) /\ Listed(t, p + 1, n) = list
  <2>1. Assembled(t, p, dirs, list)
    BY <1>1, <1>8, <1>11, <1>12, <1>13, <1>14 DEF Assembled
  <2> QED BY <1>1, <1>11, <2>1, AssembledIsArchive
<1>16. t[1].is = "local" /\ Len(t) >= 2
  <2>1. 1 \in 1..n /\ 1 - 1 = 0
    OBVIOUS
  <2>2. start(1) = 0
    BY <2>1, FlatZero
  <2>3. parts[1] = LocalUnits(list[1]) /\ list[1] \in File
    BY <1>2, <2>1
  <2>4. PICK size \in Nat : Len(parts[1]) = 1 + size /\ parts[1][1].is = "local"
    <3>1. PICK file \in File : parts[1] = LocalUnits(file)
      BY <2>3
    <3>2. /\ Size[file.content] \in Nat /\ Len(LocalUnits(file)) = 1 + Size[file.content]
          /\ LocalUnits(file)[1] = [is |-> "local", name |-> file.name, content |-> file.content]
      BY LocalUnitsType
    <3> QED BY <3>1, <3>2
  <2>5. 0 + 1 = 1 /\ 1 \in 1..Len(parts[1])
    BY <2>4
  <2>6. p >= 1 /\ body[1] = parts[1][1]
    <3>1. body[0 + 1] = parts[1][1]
      BY <1>7, <2>1, <2>2, <2>5
    <3>2. 0 + Len(parts[1]) <= p
      BY <1>7, <2>1, <2>2
    <3> QED BY <2>4, <2>5, <3>1, <3>2
  <2> QED BY <1>11, <2>4, <2>6
<1>17. p + 1 \in Nat /\ n \in Nat
  OBVIOUS
<1> QED BY <1>11, <1>15, <1>16, <1>17 DEF t

(* Only what is before it counts for a file that is held in the first b units. *)
LEMMA HeldInPrefix ==
  ASSUME NEW s \in Seq(Units), NEW t \in Seq(Units), NEW file, NEW offset, NEW b \in Nat,
         Holds(s, file, offset), file.content \in Contents,
         offset + Size[file.content] <= b, b <= Len(t), \A i \in 1..b : s[i] = t[i]
  PROVE  Holds(t, file, offset)
<1>1. PICK size \in Nat : size = Size[file.content]
  BY FileSystemAssumption
<1>2. offset \in Nat \ {0} /\ offset \in 1..Len(s)
  BY DEF Holds
<1>3. PICK len \in Nat : len = Len(t)
  BY LenProperties
<1>4. offset \in 1..b /\ \A k \in 1..size : offset + k \in 1..b
  BY <1>1, <1>2
<1>5. offset \in 1..len /\ \A k \in 1..size : offset + k \in 1..len
  BY <1>3, <1>4
<1> QED BY <1>1, <1>3, <1>4, <1>5 DEF Holds

(* What an archive holds is before its directory.                             *)
LEMMA HeldInBody ==
  ASSUME NEW s \in Seq(Units), NEW at, NEW n, IsArchive(s, at, n),
         NEW file, NEW offset, Holds(s, file, offset), file.content \in Contents
  PROVE  offset + Size[file.content] <= at - 1
<1>1. PICK size \in Nat : size = Size[file.content]
  BY FileSystemAssumption
<1>2. at \in Nat \ {0} /\ n \in Nat \ {0} /\ Len(s) = at + n
  BY DEF IsArchive
<1>3. /\ offset \in 1..Len(s) /\ s[offset].is = "local"
      /\ \A k \in 1..size : offset + k \in 1..Len(s) /\ s[offset + k].is = "data"
  <2>1. /\ offset \in 1..Len(s)
        /\ s[offset] = [is |-> "local", name |-> file.name, content |-> file.content]
        /\ \A k \in 1..size : offset + k \in 1..Len(s) /\ s[offset + k] = Data(file, k)
    BY <1>1 DEF Holds
  <2>2. \A k : Data(file, k).is = "data"
    BY DEF Data
  <2> QED BY <2>1, <2>2
<1>4. offset \in Nat
  BY <1>3
<1>5. ASSUME NEW i \in 1..Len(s), s[i].is \in {"local", "data"}
      PROVE  i <= at - 1
  <2>1. s[i].is # "dir" /\ s[i].is # "end"
    BY <1>5
  <2>2. ~(at <= i /\ i < at + n) /\ i # at + n
    BY <2>1, KindsInArchive
  <2> QED BY <1>2, <2>2
<1>6. CASE size = 0
  BY <1>1, <1>3, <1>4, <1>5, <1>6
<1>7. CASE size # 0
  <2>1. size \in 1..size
    BY <1>7
  <2> QED BY <1>1, <1>3, <1>5, <2>1
<1> QED BY <1>6, <1>7

\* r is s with todo written from offset on, and nothing after it.
IsWritten(r, s, offset, todo) ==
  /\ r \in Seq(Units)
  /\ Len(r) = offset - 1 + Len(todo)
  /\ \A i \in 1..(offset - 1) : r[i] = s[i]
  /\ \A i \in 1..Len(todo) : r[offset - 1 + i] = todo[i]

(* The units of the result.                                                  *)
LEMMA ResultUnits ==
  ASSUME NEW s \in Seq(Units), NEW todo \in Seq(Units), NEW offset \in Nat \ {0},
         offset - 1 <= Len(s)
  PROVE  IsWritten(Result(s, offset, todo), s, offset, todo)
<1> DEFINE r == Result(s, offset, todo)
<1>1. PICK len \in Nat : len = Len(s)
  BY LenProperties
<1>2. PICK m \in Nat : m = Len(todo)
  BY LenProperties
<1>3. r = [i \in 1..(offset - 1 + m) |-> IF i < offset THEN s[i] ELSE todo[i - offset + 1]]
  BY <1>2 DEF Result
<1> HIDE DEF r
<1>4. ASSUME NEW i \in 1..(offset - 1 + m)
      PROVE  (IF i < offset THEN s[i] ELSE todo[i - offset + 1]) \in Units
  <2>1. CASE i < offset
    BY <1>1, <2>1, LenProperties
  <2>2. CASE ~(i < offset)
    <3>1. i - offset + 1 \in 1..m
      BY <2>2
    <3> QED BY <1>2, <2>2, <3>1, LenProperties
  <2> QED BY <2>1, <2>2
<1>5. offset - 1 + m \in Nat
  OBVIOUS
<1>6. r \in Seq(Units) /\ Len(r) = offset - 1 + m
  <2>1. PICK l \in Nat : l = offset - 1 + m
    BY <1>5
  <2>2. r \in [1..l -> Units]
    BY <1>3, <1>4, <2>1
  <2> QED BY <2>1, <2>2
<1>7. ASSUME NEW i \in 1..(offset - 1) PROVE r[i] = s[i]
  BY <1>3
<1>8. ASSUME NEW i \in 1..m PROVE r[offset - 1 + i] = todo[i]
  <2>1. PICK k \in 1..(offset - 1 + m) : k = offset - 1 + i /\ ~(k < offset) /\ k - offset + 1 = i
    OBVIOUS
  <2> QED BY <1>3, <2>1
<1>9. IsWritten(r, s, offset, todo)
  BY <1>2, <1>6, <1>7, <1>8 DEF IsWritten
<1> QED BY <1>9 DEF r

(* addFileToZIP's archive is whole, with the file at the end of the list.     *)
LEMMA AddedIsWhole ==
  ASSUME NEW s \in Seq(Units), NEW at, NEW n, IsArchive(s, at, n),
         NEW file \in File, NEW records \in Seq(DirRecords), Len(records) = n,
         \A i \in 1..n : records[i] = s[at + i - 1]
  PROVE  /\ AddedUnits(file, at, records) \in Seq(Units)
         /\ Completes(s, at, AddedUnits(file, at, records), Append(Listed(s, at, n), file))
         /\ Untouched(s, at, AddedUnits(file, at, records))
<1> DEFINE local == LocalUnits(file)
           dirs == Append(records, DirUnit(file, at))
           todo == AddedUnits(file, at, records)
           t == Result(s, at, todo)
           list == Append(Listed(s, at, n), file)
<1>1. at \in Nat \ {0} /\ n \in Nat \ {0} /\ Len(s) = at + n
  BY DEF IsArchive
<1>2. PICK size \in Nat : size = Size[file.content] /\ Len(local) = 1 + size
  BY LocalUnitsType
<1>3. /\ local \in Seq(Units) /\ local[1].is = "local"
      /\ \A i \in 1..(1 + size) : local[i].is \in {"local", "data"}
  <2>1. /\ LocalUnits(file) \in Seq(Units) /\ LocalUnits(file)[1].is = "local"
        /\ \A i \in 1..Len(LocalUnits(file)) : LocalUnits(file)[i].is \in {"local", "data"}
    <3>1. /\ LocalUnits(file) \in Seq(Units)
          /\ LocalUnits(file)[1] = [is |-> "local", name |-> file.name, content |-> file.content]
          /\ \A i \in 1..Len(LocalUnits(file)) : LocalUnits(file)[i].is \in {"local", "data"}
      BY LocalUnitsType
    <3>2. LocalUnits(file)[1].is = "local"
      BY <3>1
    <3> QED BY <3>1, <3>2
  <2> QED BY <1>2, <2>1
<1>4. /\ dirs \in Seq(DirRecords) /\ Len(dirs) = n + 1
      /\ dirs[n + 1] = DirUnit(file, at)
      /\ \A i \in 1..n : dirs[i] = s[at + i - 1]
  <2>1. DirUnit(file, at) \in DirRecords
    BY <1>1, DirUnitType
  <2> QED BY <2>1, AppendProperties
<1>5. dirs \in Seq(Units)
  <2>1. DirRecords \subseteq Units
    BY DEF Units
  <2> QED BY <1>4, <2>1
<1>6. Listed(s, at, n) \in Seq(File) /\ Len(Listed(s, at, n)) = n
  BY ListedType
<1>7. /\ list \in Seq(File) /\ list # <<>> /\ Len(list) = n + 1 /\ list[n + 1] = file
      /\ \A i \in 1..n : list[i] = Listed(s, at, n)[i]
  BY <1>6, AppendProperties
<1> DEFINE end == EndUnit(at + (1 + size), n + 1)
<1>8. end \in Units
  BY <1>1 DEF EndUnit, Units, EndRecords
<1>9. todo = local \o dirs \o <<end>>
  BY <1>2 DEF AddedUnits
<1> HIDE DEF local, dirs, todo, list, end
<1>10. /\ todo \in Seq(Units) /\ Len(todo) = size + n + 3
       /\ \A i \in 1..(1 + size) : todo[i] = local[i]
       /\ \A i \in 1..(n + 1) : todo[1 + size + i] = dirs[i]
       /\ todo[size + n + 3] = end
  <2>1. /\ local \o dirs \o <<end>> \in Seq(Units)
        /\ Len(local \o dirs \o <<end>>) = Len(local) + Len(dirs) + 1
        /\ \A i \in 1..Len(local) : (local \o dirs \o <<end>>)[i] = local[i]
        /\ \A i \in 1..Len(dirs) : (local \o dirs \o <<end>>)[Len(local) + i] = dirs[i]
        /\ (local \o dirs \o <<end>>)[Len(local) + Len(dirs) + 1] = end
    <3>1. local \in Seq(Units) /\ dirs \in Seq(Units)
      BY <1>3, <1>5
    <3>2. Row(local \o dirs \o <<end>>, local, dirs, end, Units)
      BY <1>8, <3>1, InARow, Zenon
    <3> QED BY <3>2, Zenon DEF Row
  <2>2. Len(local) + Len(dirs) + 1 = size + n + 3
    BY <1>1, <1>2, <1>4
  <2> QED BY <1>2, <1>4, <1>9, <2>1, <2>2
<1> DEFINE p == at + size
<1>11. /\ t \in Seq(Units) /\ Len(t) = at - 1 + (size + n + 3)
       /\ \A i \in 1..(at - 1) : t[i] = s[i]
       /\ \A i \in 1..(size + n + 3) : t[at - 1 + i] = todo[i]
  <2>1. at - 1 <= Len(s)
    BY <1>1
  <2>2. todo \in Seq(Units) /\ at \in Nat \ {0}
    BY <1>1, <1>10
  <2>3. /\ Result(s, at, todo) \in Seq(Units)
        /\ Len(Result(s, at, todo)) = at - 1 + Len(todo)
        /\ \A i \in 1..(at - 1) : Result(s, at, todo)[i] = s[i]
        /\ \A i \in 1..Len(todo) : Result(s, at, todo)[at - 1 + i] = todo[i]
    <3>1. IsWritten(Result(s, at, todo), s, at, todo)
      BY <2>1, <2>2, ResultUnits, Zenon
    <3> QED BY <3>1, Zenon DEF IsWritten
  <2> QED BY <1>10, <2>3
<1> HIDE DEF t
<1>12. /\ \A i \in 1..(1 + size) : t[at - 1 + i] = local[i]
       /\ \A i \in 1..(n + 1) : t[p + i] = dirs[i]
       /\ t[p + (n + 1) + 1] = end
  <2>1. ASSUME NEW i \in 1..(1 + size) PROVE t[at - 1 + i] = local[i]
    <3>1. i \in 1..(size + n + 3)
      BY <1>1
    <3> QED BY <1>10, <1>11, <3>1
  <2>2. ASSUME NEW i \in 1..(n + 1) PROVE t[p + i] = dirs[i]
    <3>1. PICK k \in 1..(size + n + 3) : k = 1 + size + i /\ at - 1 + k = p + i
      BY <1>1
    <3>2. t[at - 1 + k] = todo[k] /\ todo[k] = dirs[i]
      BY <1>10, <1>11, <3>1
    <3> QED BY <3>1, <3>2
  <2>3. t[p + (n + 1) + 1] = end
    <3>1. PICK k \in 1..(size + n + 3) : k = size + n + 3 /\ at - 1 + k = p + (n + 1) + 1
      BY <1>1
    <3>2. t[at - 1 + k] = todo[k] /\ todo[k] = end
      BY <1>10, <1>11, <3>1
    <3> QED BY <3>1, <3>2
  <2> QED BY <2>1, <2>2, <2>3
<1>13. ASSUME NEW i \in 1..p PROVE t[i].is \in {"local", "data"}
  <2>1. CASE i < at
    <3>1. i \in 1..(at - 1) /\ i \in 1..Len(s)
      BY <1>1, <2>1
    <3> QED BY <1>11, <2>1, <3>1, KindsInArchive
  <2>2. CASE ~(i < at)
    <3>1. PICK k \in 1..(1 + size) : at - 1 + k = i
      <4>1. i - (at - 1) \in 1..(1 + size) /\ at - 1 + (i - (at - 1)) = i
        BY <1>1, <2>2
      <4> QED BY <4>1
    <3> QED BY <1>3, <1>12, <3>1
  <2> QED BY <2>1, <2>2
<1>14. ASSUME NEW i \in 1..n
       PROVE  /\ Holds(t, dirs[i], dirs[i].at)
              /\ dirs[i].name = list[i].name /\ dirs[i].content = list[i].content
  <2>1. PICK d \in DirRecords : d = dirs[i] /\ d = s[at + i - 1] /\ Holds(s, d, d.at)
    BY <1>4 DEF IsArchive
  <2>2. d.content \in Contents
    BY DEF DirRecords
  <2>3. d.at + Size[d.content] <= at - 1
    BY <2>1, <2>2, HeldInBody
  <2>4. at - 1 \in Nat /\ at - 1 <= Len(t) /\ \A j \in 1..(at - 1) : s[j] = t[j]
    BY <1>1, <1>11
  <2>5. Holds(t, d, d.at)
    BY <1>11, <2>1, <2>2, <2>3, <2>4, HeldInPrefix
  <2>6. list[i] = [name |-> d.name, content |-> d.content]
    BY <1>7, <2>1 DEF Listed
  <2> QED BY <2>1, <2>5, <2>6
<1>15. /\ Holds(t, dirs[n + 1], dirs[n + 1].at)
       /\ dirs[n + 1].name = list[n + 1].name /\ dirs[n + 1].content = list[n + 1].content
  <2>1. PICK start \in Nat : start = at - 1 /\ start + 1 = at
    BY <1>1
  <2>2. start + (1 + size) <= Len(t)
    BY <1>1, <1>11, <2>1
  <2>3. Holds(t, DirUnit(file, at), at)
    <3>1. /\ Len(LocalUnits(file)) = 1 + size
          /\ \A j \in 1..(1 + size) : t[start + j] = LocalUnits(file)[j]
      BY <1>2, <1>12, <2>1 DEF local
    <3>2. Holds(t, DirUnit(file, start + 1), start + 1)
      BY <1>11, <2>2, <3>1, UnitsAreHeld
    <3> QED BY <2>1, <3>2
  <2> QED BY <1>1, <1>4, <1>7, <2>3, DirUnitType
<1>16. Assembled(t, p, dirs, list)
  <2>1. Len(t) = p + (n + 1) + 1
    BY <1>1, <1>11
  <2>2. end = EndUnit(p + 1, n + 1)
    <3>1. at + (1 + size) = p + 1
      BY <1>1
    <3> QED BY <3>1 DEF end
  <2>3. \A i \in 1..(n + 1) : i \in 1..n \/ i = n + 1
    BY <1>1
  <2>4. \A i \in 1..(n + 1) : /\ Holds(t, dirs[i], dirs[i].at)
                              /\ dirs[i].name = list[i].name /\ dirs[i].content = list[i].content
    BY <1>14, <1>15, <2>3
  <2>5. \A i \in 1..(n + 1) : dirs[i] \in DirRecords
    BY <1>4
  <2> QED BY <1>7, <1>12, <1>13, <2>1, <2>2, <2>4, <2>5 DEF Assembled
<1>17. IsArchive(t, p + 1, n + 1) /\ Listed(t, p + 1, n + 1) = list
  <2>1. p \in Nat
    BY <1>1
  <2> QED BY <1>7, <1>11, <1>16, <2>1, AssembledIsArchive
<1>18. Completes(s, at, todo, list)
  <2>1. at - 1 <= Len(s) /\ Len(s) <= at - 1 + Len(todo) /\ p + 1 \in Nat /\ n + 1 \in Nat
    BY <1>1, <1>10
  <2> QED BY <1>17, <2>1 DEF Completes, t
<1>19. Untouched(s, at, todo)
  <2>1. 1 \in 1..(1 + size) /\ size + n + 3 >= 2 /\ n \in Nat
    BY <1>1
  <2> QED BY <1>3, <1>10, <2>1 DEF Untouched
<1> QED BY <1>10, <1>18, <1>19 DEF todo, list

\* What seeking to offset and writing u makes of s.
Overwrite(s, offset, u) == SubSeq(s, 1, offset - 1) \o <<u>> \o SubSeq(s, offset + 1, Len(s))

(* All units stay what they are but the one that is written.                *)
LEMMA OverwriteUnits ==
  ASSUME NEW s \in Seq(Units), NEW offset \in Nat \ {0}, offset - 1 <= Len(s), NEW u \in Units
  PROVE  /\ Overwrite(s, offset, u) \in Seq(Units)
         /\ Len(Overwrite(s, offset, u)) = IF Len(s) < offset THEN offset ELSE Len(s)
         /\ Overwrite(s, offset, u)[offset] = u
         /\ \A i \in 1..Len(Overwrite(s, offset, u)) :
              i # offset => i \in 1..Len(s) /\ Overwrite(s, offset, u)[i] = s[i]
<1>1. PICK n \in Nat : n = Len(s) /\ \A i \in 1..n : s[i] \in Units
  BY LenProperties
<1>2. PICK p \in Nat : p = offset - 1 /\ p + 1 = offset
  OBVIOUS
<1> DEFINE a == SubSeq(s, 1, p)
           b == SubSeq(s, offset + 1, n)
           ab == a \o <<u>>
           r == ab \o b
<1>3. a \in Seq(Units) /\ Len(a) = p /\ \A i \in 1..p : a[i] = s[i]
  <2>1. \A i \in 1..p : s[i] \in Units
    BY <1>1, <1>2
  <2>2. /\ a \in Seq(Units) /\ Len(a) = IF 1 <= p THEN p - 1 + 1 ELSE 0
        /\ \A i \in 1..(p - 1 + 1) : a[i] = s[1 + i - 1]
    BY <2>1, SubSeqProperties
  <2>3. p - 1 + 1 = p /\ \A i \in 1..p : 1 + i - 1 = i
    OBVIOUS
  <2> QED BY <2>2, <2>3
<1> DEFINE m == IF offset + 1 <= n THEN n - offset ELSE 0
<1>4. b \in Seq(Units) /\ Len(b) = m /\ \A i \in 1..m : b[i] = s[offset + i]
  <2>1. \A i \in (offset + 1)..n : s[i] \in Units
    BY <1>1
  <2>2. /\ b \in Seq(Units) /\ Len(b) = IF offset + 1 <= n THEN n - (offset + 1) + 1 ELSE 0
        /\ \A i \in 1..(n - (offset + 1) + 1) : b[i] = s[(offset + 1) + i - 1]
    BY <2>1, SubSeqProperties
  <2>3. n - (offset + 1) + 1 = n - offset /\ \A i \in 1..m : (offset + 1) + i - 1 = offset + i
    OBVIOUS
  <2>4. m = IF offset + 1 <= n THEN n - (offset + 1) + 1 ELSE 0
    BY <2>3
  <2>5. \A i \in 1..m : i \in 1..(n - (offset + 1) + 1)
    OBVIOUS
  <2> HIDE DEF m, b
  <2> QED BY <2>2, <2>3, <2>4, <2>5
<1>5. m \in Nat
  OBVIOUS
<1> HIDE DEF a, b, m
<1>6. /\ ab \in Seq(Units) /\ Len(ab) = offset
      /\ ab[offset] = u /\ \A i \in 1..p : ab[i] = s[i]
  <2>1. <<u>> \in Seq(Units) /\ Len(<<u>>) = 1 /\ <<u>>[1] = u
    OBVIOUS
  <2>2. /\ ab \in Seq(Units) /\ Len(ab) = Len(a) + Len(<<u>>)
        /\ \A i \in 1..(Len(a) + Len(<<u>>)) : ab[i] = IF i <= Len(a) THEN a[i] ELSE <<u>>[i - Len(a)]
    BY <1>3, <2>1, ConcatProperties
  <2>3. ab[offset] = u
    <3>1. offset \in 1..(p + 1) /\ ~(offset <= p) /\ offset - p = 1
      BY <1>2
    <3> QED BY <1>3, <2>1, <2>2, <3>1
  <2> HIDE DEF ab
  <2> QED BY <1>2, <1>3, <2>1, <2>2, <2>3
<1> HIDE DEF ab
<1>7. /\ r \in Seq(Units) /\ Len(r) = offset + m
      /\ \A i \in 1..(offset + m) : r[i] = IF i <= offset THEN ab[i] ELSE b[i - offset]
  <2>1. /\ ab \o b \in Seq(Units) /\ Len(ab \o b) = Len(ab) + Len(b)
        /\ \A i \in 1..(Len(ab) + Len(b)) : (ab \o b)[i] = IF i <= Len(ab) THEN ab[i] ELSE b[i - Len(ab)]
    BY <1>4, <1>6, ConcatProperties
  <2> QED BY <1>4, <1>6, <2>1
<1>8. r = Overwrite(s, offset, u)
  BY <1>1, <1>2 DEF Overwrite, ab, a, b
<1> HIDE DEF r
<1>9. offset + m = IF n < offset THEN offset ELSE n
  BY <1>1, <1>2 DEF m
<1>10. r[offset] = u
  <2>1. offset \in 1..(offset + m) /\ offset <= offset
    BY <1>5
  <2> QED BY <1>6, <1>7, <2>1
<1>11. ASSUME NEW i \in 1..(offset + m), i # offset PROVE i \in 1..n /\ r[i] = s[i]
  <2>1. CASE i < offset
    <3>1. i \in 1..p /\ i <= offset
      BY <1>2, <2>1
    <3>2. i \in 1..n
      BY <1>1, <1>2, <3>1
    <3> QED BY <1>6, <1>7, <3>1, <3>2
  <2>2. CASE i > offset
    <3>1. PICK k \in 1..m : k = i - offset /\ offset + k = i /\ ~(i <= offset)
      BY <1>5, <2>2
    <3>2. i \in 1..n
      BY <1>9, <2>2
    <3>3. r[i] = b[k] /\ b[k] = s[i]
      BY <1>4, <1>7, <3>1
    <3> QED BY <3>2, <3>3
  <2> QED BY <1>5, <1>11, <2>1, <2>2
<1> QED BY <1>1, <1>7, <1>8, <1>9, <1>10, <1>11

(* When everything is written, the archive is the one that was to be.        *)
LEMMA DoneIsWhole ==
  ASSUME NEW s \in Seq(Units), NEW offset \in Nat \ {0}, NEW promised,
         Completes(s, offset, <<>>, promised)
  PROVE  \E at, n \in Nat : IsArchive(s, at, n) /\ Listed(s, at, n) = promised
<1> DEFINE r == Result(s, offset, <<>>)
<1>1. <<>> \in Seq(Units) /\ Len(<<>>) = 0
  OBVIOUS
<1>2. PICK n \in Nat : n = Len(s)
  BY LenProperties
<1>3. offset - 1 = n
  BY <1>1, <1>2 DEF Completes
<1>4. /\ r \in Seq(Units) /\ Len(r) = offset - 1 + Len(<<>>)
      /\ \A i \in 1..(offset - 1) : r[i] = s[i]
  <2>1. offset - 1 <= Len(s)
    BY <1>2, <1>3
  <2>2. IsWritten(Result(s, offset, <<>>), s, offset, <<>>)
    BY <1>1, <2>1, ResultUnits
  <2> QED BY <2>2 DEF IsWritten
<1> HIDE DEF r
<1>5. r = s
  <2>1. Len(r) = Len(s) /\ \A i \in 1..Len(r) : r[i] = s[i]
    BY <1>1, <1>2, <1>3, <1>4
  <2> QED BY <1>4, <2>1, SeqEqual
<1> QED BY <1>5 DEF Completes, r

(* Writing a unit brings the archive nearer to that one.                     *)
LEMMA WriteCompletes ==
  ASSUME NEW s \in Seq(Units), NEW todo \in Seq(Units), todo # <<>>,
         NEW offset \in Nat \ {0}, NEW promised, Completes(s, offset, todo, promised)
  PROVE  Completes(Overwrite(s, offset, Head(todo)), offset + 1, Tail(todo), promised)
<1> DEFINE w == Overwrite(s, offset, Head(todo))
           r == Result(s, offset, todo)
           q == Result(w, offset + 1, Tail(todo))
<1>1. PICK n \in Nat : n = Len(s)
  BY LenProperties
<1>2. PICK m \in Nat \ {0} : m = Len(todo)
  BY EmptySeq, LenProperties
<1>3. offset - 1 <= n /\ n <= offset - 1 + m
  BY <1>1, <1>2 DEF Completes
<1>4. /\ Head(todo) \in Units /\ Head(todo) = todo[1]
      /\ Tail(todo) \in Seq(Units) /\ Len(Tail(todo)) = m - 1
      /\ \A i \in 1..(m - 1) : Tail(todo)[i] = todo[i + 1]
  BY <1>2, HeadTailProperties
<1>5. /\ w \in Seq(Units) /\ Len(w) = IF n < offset THEN offset ELSE n
      /\ w[offset] = todo[1]
      /\ \A i \in 1..(offset - 1) : w[i] = s[i]
  <2>1. /\ w \in Seq(Units) /\ Len(w) = IF Len(s) < offset THEN offset ELSE Len(s)
        /\ w[offset] = Head(todo)
        /\ \A i \in 1..Len(w) : i # offset => w[i] = s[i]
    BY <1>1, <1>3, <1>4, OverwriteUnits
  <2>2. \A i \in 1..(offset - 1) : i \in 1..Len(w) /\ i # offset
    BY <1>1, <2>1
  <2> HIDE DEF w
  <2> QED BY <1>1, <1>4, <2>1, <2>2
<1> HIDE DEF w
<1>6. /\ r \in Seq(Units) /\ Len(r) = offset - 1 + m
      /\ \A i \in 1..(offset - 1) : r[i] = s[i]
      /\ \A i \in 1..m : r[offset - 1 + i] = todo[i]
  <2>1. IsWritten(Result(s, offset, todo), s, offset, todo)
    BY <1>1, <1>3, ResultUnits
  <2> HIDE DEF r
  <2>2. IsWritten(r, s, offset, todo)
    BY <2>1 DEF r
  <2> QED BY <1>2, <2>2 DEF IsWritten
<1>7. /\ q \in Seq(Units) /\ Len(q) = offset + (m - 1)
      /\ \A i \in 1..offset : q[i] = w[i]
      /\ \A i \in 1..(m - 1) : q[offset + i] = Tail(todo)[i]
  <2>1. PICK next \in Nat \ {0} : next = offset + 1 /\ next - 1 = offset /\ next - 1 <= Len(w)
    BY <1>1, <1>5
  <2>2. /\ Result(w, next, Tail(todo)) \in Seq(Units)
        /\ Len(Result(w, next, Tail(todo))) = next - 1 + Len(Tail(todo))
        /\ \A i \in 1..(next - 1) : Result(w, next, Tail(todo))[i] = w[i]
        /\ \A i \in 1..Len(Tail(todo)) : Result(w, next, Tail(todo))[next - 1 + i] = Tail(todo)[i]
    <3>1. w \in Seq(Units) /\ Tail(todo) \in Seq(Units)
      BY <1>4, <1>5
    <3>2. next \in Nat \ {0} /\ next - 1 <= Len(w)
      BY <2>1
    <3>3. IsWritten(Result(w, next, Tail(todo)), w, next, Tail(todo))
      BY <3>1, <3>2, ResultUnits, Zenon
    <3> QED BY <3>3, Zenon DEF IsWritten
  <2> QED BY <1>4, <2>1, <2>2
<1> HIDE DEF q, r
<1>8. ASSUME NEW i \in 1..(offset + (m - 1)) PROVE q[i] = r[i]
  <2>1. CASE i < offset
    <3>1. i \in 1..(offset - 1) /\ i \in 1..offset
      BY <2>1
    <3> QED BY <1>5, <1>6, <1>7, <3>1
  <2>2. CASE i = offset
    <3>1. 1 \in 1..m /\ offset - 1 + 1 = offset /\ offset \in 1..offset
      OBVIOUS
    <3>2. r[offset - 1 + 1] = todo[1]
      BY <1>6, <3>1
    <3> QED BY <1>5, <1>7, <2>2, <3>1, <3>2
  <2>3. CASE i > offset
    <3>1. PICK k \in 1..(m - 1) : k = i - offset /\ offset + k = i
      BY <2>3
    <3>2. PICK l \in 1..m : l = k + 1 /\ offset - 1 + l = i
      BY <3>1
    <3>3. q[i] = Tail(todo)[k] /\ Tail(todo)[k] = todo[l]
      BY <1>4, <1>7, <3>1, <3>2
    <3>4. r[i] = todo[l]
      BY <1>6, <3>2
    <3> QED BY <3>3, <3>4
  <2> QED BY <2>1, <2>2, <2>3
<1>9. q = r
  <2>1. Len(q) = Len(r)
    BY <1>6, <1>7
  <2>2. \A i \in 1..Len(q) : q[i] = r[i]
    BY <1>7, <1>8
  <2> QED BY <1>6, <1>7, <2>1, <2>2, SeqEqual
<1>10. /\ (offset + 1) - 1 <= Len(w)
       /\ Len(w) <= (offset + 1) - 1 + Len(Tail(todo))
  BY <1>3, <1>4, <1>5
<1> QED BY <1>9, <1>10 DEF Completes, q, r, w

(* ... and completes it, or leaves one that is broken at a place passed.      *)
LEMMA WriteBreaks ==
  ASSUME NEW s \in Seq(Units), NEW todo \in Seq(Units), todo # <<>>,
         NEW offset \in Nat \ {0}, NEW promised, Completes(s, offset, todo, promised),
         Untouched(s, offset, todo) \/ \E at \in 1..(offset - 1) : IsBroken(s, at)
  PROVE  \/ Tail(todo) = <<>>
         \/ \E at \in 1..offset : IsBroken(Overwrite(s, offset, Head(todo)), at)
<1> SUFFICES ASSUME Tail(todo) # <<>>
             PROVE  \E at \in 1..offset : IsBroken(Overwrite(s, offset, Head(todo)), at)
  OBVIOUS
<1> DEFINE w == Overwrite(s, offset, Head(todo))
           r == Result(s, offset, todo)
<1>1. PICK len \in Nat : len = Len(s)
  BY LenProperties
<1>2. PICK m \in Nat \ {0} : m = Len(todo) /\ m - 1 # 0
  <2>1. Len(todo) \in Nat \ {0} /\ Tail(todo) \in Seq(Units) /\ Len(Tail(todo)) = Len(todo) - 1
    BY EmptySeq, LenProperties, HeadTailProperties
  <2>2. Len(todo) - 1 # 0
    BY <2>1, EmptySeq
  <2> QED BY <2>1, <2>2
<1>3. offset - 1 <= len
  BY <1>1 DEF Completes
<1>4. Head(todo) \in Units /\ Head(todo) = todo[1]
  BY <1>2, HeadTailProperties
<1>5. /\ w \in Seq(Units) /\ Len(w) = IF len < offset THEN offset ELSE len
      /\ w[offset] = todo[1]
      /\ \A i \in 1..Len(w) : i # offset => i \in 1..len /\ w[i] = s[i]
  BY <1>1, <1>3, <1>4, OverwriteUnits
<1> HIDE DEF w
<1>6. todo[1].is # "end"
  <2>1. PICK at, n \in Nat : IsArchive(r, at, n)
    BY DEF Completes
  <2>2. /\ r \in Seq(Units) /\ Len(r) = offset - 1 + m
        /\ \A i \in 1..m : r[offset - 1 + i] = todo[i]
    <3>1. IsWritten(Result(s, offset, todo), s, offset, todo)
      BY <1>1, <1>3, ResultUnits
    <3> HIDE DEF r
    <3>2. IsWritten(r, s, offset, todo)
      BY <3>1 DEF r
    <3> QED BY <1>2, <3>2 DEF IsWritten
  <2>3. r[offset] = todo[1]
    <3>1. 1 \in 1..m /\ offset - 1 + 1 = offset
      BY <1>2
    <3> QED BY <2>2, <3>1
  <2> HIDE DEF r
  <2>4. offset \in 1..Len(r) /\ offset # Len(r)
    BY <1>2, <2>2
  <2>5. Len(r) = at + n
    BY <2>1 DEF IsArchive
  <2>6. r[offset].is # "end"
    <3>1. offset < at \/ (at <= offset /\ offset < at + n)
      BY <2>4, <2>5
    <3> QED BY <2>1, <2>2, <2>4, <3>1, KindsInArchive
  <2> QED BY <2>3, <2>6
<1>7. offset \in 1..Len(w)
  BY <1>5
<1>8. CASE Untouched(s, offset, todo)
  <2>1. w[offset].is = "local"
    BY <1>5, <1>8 DEF Untouched
  <2>2. ASSUME NEW i \in 1..Len(w), w[i].is = "end"
        PROVE  w[i].at = offset /\ w[i].n # 0
    <3>1. i # offset
      BY <2>1, <2>2
    <3>2. i \in 1..len /\ w[i] = s[i]
      BY <1>5, <3>1
    <3>3. PICK n \in Nat : IsArchive(s, offset, n)
      <4>1. s # <<>>
        BY <1>1, <3>2
      <4> QED BY <1>8, <4>1 DEF Untouched
    <3>4. i = offset + n
      <4>1. Len(s) = offset + n
        BY <3>3 DEF IsArchive
      <4>2. i < offset \/ (offset <= i /\ i < offset + n) \/ i = offset + n
        BY <1>1, <3>2, <4>1
      <4>3. s[i].is = "end" /\ i \in 1..Len(s)
        BY <1>1, <2>2, <3>2
      <4> QED BY <3>3, <4>2, <4>3, KindsInArchive
    <3>5. w[i] = EndUnit(offset, n) /\ n # 0
      BY <3>2, <3>3, <3>4 DEF IsArchive
    <3> QED BY <3>5 DEF EndUnit
  <2>3. IsBroken(w, offset)
    BY <1>7, <2>1, <2>2 DEF IsBroken
  <2>4. offset \in 1..offset
    OBVIOUS
  <2> QED BY <2>3, <2>4 DEF w
<1>9. CASE \E at \in 1..(offset - 1) : IsBroken(s, at)
  <2>1. PICK at \in 1..(offset - 1) : IsBroken(s, at)
    BY <1>9
  <2>2. at \in 1..Len(w) /\ at # offset /\ at \in 1..offset
    BY <1>7, <2>1
  <2>3. w[at].is = "local"
    BY <1>5, <2>1, <2>2 DEF IsBroken
  <2>4. ASSUME NEW i \in 1..Len(w), w[i].is = "end"
        PROVE  w[i].at = at /\ w[i].n # 0
    <3>1. i # offset
      BY <1>5, <1>6, <2>4
    <3>2. i \in 1..Len(s) /\ w[i] = s[i]
      BY <1>1, <1>5, <3>1
    <3> QED BY <2>1, <2>4, <3>2 DEF IsBroken
  <2>5. IsBroken(w, at)
    BY <2>2, <2>3, <2>4 DEF IsBroken
  <2> QED BY <2>2, <2>5 DEF w
<1> QED BY <1>8, <1>9

-----------------------------------------------------------------------------
(* The calls.                                                                *)

WriteCalls   == [kind : {"write"}, file : [name : Files, content : Contents]]
ArchiveCalls == [kind : {"archive"}, zip : Archives, at : Nat \ {0},
                 todo : Seq(Units), promised : Seq(File)]

(* The kind of a call says which fields it has.                              *)
LEMMA CallKinds ==
  ASSUME NEW c \in Calls
  PROVE  /\ c.kind \in {"none", "write", "archive"}
         /\ c.kind = "none" <=> c = NoOp
         /\ c.kind = "write" => c \in WriteCalls
         /\ c.kind = "archive" => c \in ArchiveCalls
BY DEF Calls, NoOp, WriteCalls, ArchiveCalls

(* The call that createZIP or addFileToZIP makes.                            *)
LEMMA NewCall ==
  ASSUME NEW z \in Archives, NEW offset \in Nat \ {0}, NEW todo \in Seq(Units),
         NEW promised \in Seq(File)
  PROVE  /\ Writing(z, offset, todo, promised) \in ArchiveCalls
         /\ Writing(z, offset, todo, promised) \in Calls
         /\ Writing(z, offset, todo, promised).kind = "archive"
         /\ Writing(z, offset, todo, promised).zip = z
         /\ Writing(z, offset, todo, promised).at = offset
         /\ Writing(z, offset, todo, promised).todo = todo
         /\ Writing(z, offset, todo, promised).promised = promised
BY DEF Writing, ArchiveCalls, Calls

(* A caller has files only.                                                  *)
LEMMA AvailableType == Types => Available \subseteq File
BY DEF Types, Available, MemoryFiles, File, Names

\* A list that createZIP is called with.
LEMMA ListType ==
  ASSUME NEW list, NEW one \in File, NEW two \in File, list = <<one>> \/ list = <<one, two>>
  PROVE  list \in Seq(File) /\ list # <<>>
<1>1. <<one>> \in Seq(File) /\ <<one>> # <<>>
  OBVIOUS
<1>2. <<one, two>> \in Seq(File) /\ <<one, two>> # <<>>
  OBVIOUS
<1> QED BY <1>1, <1>2

(* A caller reads content of a kind, or nothing.                             *)
LEMMA ReadAtType ==
  ASSUME Types, NEW z \in Archives, NEW offset
  PROVE  ReadAt(z, offset) \in Contents \cup {NoContent}
<1>1. CASE offset \in 1..Len(disk[z]) /\ disk[z][offset].is = "local"
  <2>1. disk[z][offset] \in Units
    BY <1>1 DEF Types
  <2>2. disk[z][offset] \in LocalHeaders
    BY <1>1, <2>1, UnitKinds
  <2>3. disk[z][offset].content \in Contents
    BY <2>2 DEF LocalHeaders
  <2> QED BY <2>3 DEF ReadAt
<1>2. CASE ~(offset \in 1..Len(disk[z]) /\ disk[z][offset].is = "local")
  BY <1>2 DEF ReadAt
<1> QED BY <1>1, <1>2

(* An entry is of a plain file or of a file in an archive.                   *)
LEMMA EntryKinds ==
  ASSUME Types, NEW i \in 1..Len(m_files)
  PROVE  /\ m_files[i].name \in Names
         /\ m_files[i].zip \in Archives \cup {NoArchive}
         /\ m_files[i].zip = NoArchive => m_files[i] \in PlainEntries
         /\ m_files[i].zip # NoArchive => m_files[i] \in ZippedEntries
<1>1. m_files[i] \in PlainEntries \cup ZippedEntries
  BY DEF Types
<1> QED BY <1>1, FileSystemAssumption DEF PlainEntries, ZippedEntries, Names

(* What getFile finds is the first entry of the name.                        *)
LEMMA FirstMatch ==
  ASSUME Types, NEW name, Matches(name) # {}
  PROVE  /\ Min(Matches(name)) \in 1..Len(m_files)
         /\ m_files[Min(Matches(name))].name = name
         /\ \A i \in Matches(name) : Min(Matches(name)) <= i
<1>1. /\ Matches(name) \in SUBSET Nat
      /\ \A i \in Matches(name) : i \in 1..Len(m_files) /\ m_files[i].name = name
  BY DEF Matches
<1>2. Min(Matches(name)) \in Matches(name) /\ \A i \in Matches(name) : Min(Matches(name)) <= i
  BY <1>1, MinOfSet
<1> QED BY <1>1, <1>2

(* ... and what it returns is a file.                                        *)
LEMMA LoadedType ==
  ASSUME Types, NEW name \in Names, getFile(name)
  PROVE  loaded' \subseteq File
<1> DEFINE entry == m_files[Min(Matches(name))]
<1>1. Min(Matches(name)) \in 1..Len(m_files)
  BY FirstMatch DEF getFile, isExist
<1>2. /\ entry.zip \in Archives \cup {NoArchive}
      /\ entry.zip = NoArchive => entry \in PlainEntries
      /\ entry.zip # NoArchive => entry \in ZippedEntries
  BY <1>1, EntryKinds
<1>3. PICK file \in IF entry.zip = NoArchive THEN loadPermanentFile(entry) ELSE loadZipFile(entry) :
        loaded' \subseteq {file} /\ file.content # NoContent
  BY DEF getFile
<1> HIDE DEF entry
<1>4. CASE entry.zip = NoArchive
  <2>1. entry.name \in Files
    BY <1>2, <1>4 DEF PlainEntries
  <2>2. file \in [name : {entry.name}, content : {plain[entry.name]}]
    BY <1>3, <1>4 DEF loadPermanentFile
  <2>3. plain[entry.name] \in Contents
    BY <1>3, <2>1, <2>2 DEF Types
  <2>4. file \in File
    BY <2>1, <2>2, <2>3 DEF File, Names
  <2> QED BY <1>3, <2>4
<1>5. CASE entry.zip # NoArchive
  <2>1. entry.zip \in Archives
    BY <1>2, <1>5
  <2>2. PICK contents \in {{ReadAt(entry.zip, entry.at)}, Contents} :
          file \in [name : {entry.zip}, content : contents]
    BY <1>3, <1>5 DEF loadZipFile
  <2>3. ReadAt(entry.zip, entry.at) \in Contents \cup {NoContent}
    BY <2>1, ReadAtType
  <2>4. contents \subseteq Contents \cup {NoContent}
    BY <2>3
  <2>5. file \in File
    BY <1>3, <2>1, <2>2, <2>4 DEF File, Names
  <2> QED BY <1>3, <2>5
<1> QED BY <1>4, <1>5

-----------------------------------------------------------------------------
(* The index that the constructor makes.                                     *)

\* Entries that lead to their data.
Found == {e \in ZippedEntries : e.zip \in present /\ Holds(disk[e.zip], e, e.at)}

(* Sequences put together are a sequence of the same elements.              *)
LEMMA FlattenType ==
  ASSUME NEW S, NEW parts \in Seq(Seq(S))
  PROVE  FlattenSeq(parts) \in Seq(S)
<1>1. PICK n \in Nat : n = Len(parts) /\ parts \in [1..n -> Seq(S)]
  BY LenProperties
<1>2. \A m \in 0..n : PartsOf(parts, m, S)
  <2>1. \A i \in 1..n : parts[i] \in Seq(S)
    BY <1>1
  <2> QED BY <2>1, FlattenParts
<1>3. Flat(parts, n) \in Seq(S)
  <2>1. n \in 0..n
    OBVIOUS
  <2> QED BY <1>2, <2>1 DEF PartsOf
<1>4. [i \in 1..n |-> parts[i]] = parts
  BY <1>1
<1> QED BY <1>3, <1>4, Zenon DEF Flat

(* addZippedDir puts only such entries into the index.                       *)
LEMMA ScanFinds ==
  ASSUME Types, ArchivesAreSound, NEW z \in present
  PROVE  Scan(z) \in Seq(Found)
<1> DEFINE records == Directory(z)
           entry(d) == [zip |-> z, name |-> d.name, at |-> d.at, content |-> d.content]
           part(d) == IF Size[d.content] = 0 THEN <<>> ELSE <<entry(d)>>
           parts == [i \in 1..Len(records) |-> part(records[i])]
<1>1. z \in Archives /\ disk[z] \in Seq(Units)
  BY DEF Types
<1>2. /\ records \in Seq(DirRecords)
      /\ \A i \in 1..Len(records) : Holds(disk[z], records[i], records[i].at)
  <2>1. CASE \E at, n \in Nat : IsArchive(disk[z], at, n)
    <3>1. PICK at, n \in Nat : IsArchive(disk[z], at, n)
      BY <2>1
    <3>2. ReadsAs(z, at, n)
      BY <1>1, <3>1, ReadArchive
    <3>3. /\ records \in Seq(DirRecords) /\ Len(records) = n
          /\ \A i \in 1..n : records[i] = disk[z][at + i - 1]
      BY <3>2 DEF ReadsAs
    <3> HIDE DEF records
    <3> QED BY <3>1, <3>3 DEF IsArchive
  <2>2. CASE disk[z] = <<>> \/ \E at \in Nat : IsBroken(disk[z], at)
    <3>1. records = <<>>
      BY <1>1, <2>2, ReadBroken
    <3> QED BY <3>1
  <2> QED BY <1>1, <2>1, <2>2 DEF ArchivesAreSound
<1> HIDE DEF records
<1>3. ASSUME NEW i \in 1..Len(records) PROVE part(records[i]) \in Seq(Found)
  <2>1. PICK d \in DirRecords : d = records[i] /\ Holds(disk[z], d, d.at)
    BY <1>2
  <2>2. entry(d) \in ZippedEntries
    BY <1>1 DEF DirRecords, ZippedEntries
  <2>3. Holds(disk[z], entry(d), d.at)
    BY <2>1 DEF Holds, Data
  <2>4. entry(d).zip = z /\ entry(d).at = d.at
    OBVIOUS
  <2> HIDE DEF entry
  <2>5. entry(d) \in Found
    BY <2>2, <2>3, <2>4 DEF Found
  <2> QED BY <2>1, <2>5
<1>4. parts \in Seq(Seq(Found))
  <2>1. Len(records) \in Nat
    BY <1>2, LenProperties
  <2> HIDE DEF part
  <2> QED BY <1>3, <2>1
<1>5. Scan(z) = FlattenSeq(parts)
  BY DEF Scan, records
<1> HIDE DEF parts
<1> QED BY <1>4, <1>5, FlattenType

(* An order of a finite set names every element.                              *)
LEMMA OrdersAreOnto ==
  ASSUME NEW S, IsFiniteSet(S), NEW s \in Orders(S)
  PROVE  /\ s \in Seq(S)
         /\ \A x \in S : \E i \in 1..Len(s) : s[i] = x
<1>1. PICK n \in Nat : n = Cardinality(S)
  BY FS_CardinalityType
<1>2. s \in [1..n -> S] /\ \A i, j \in 1..n : i # j => s[i] # s[j]
  BY <1>1 DEF Orders
<1>3. s \in Seq(S) /\ Len(s) = n
  BY <1>1, <1>2
<1>4. IsFiniteSet(1..n) /\ Cardinality(1..n) = n
  <2>1. n - 1 + 1 = n /\ (1 > n => n = 0)
    OBVIOUS
  <2> QED BY <2>1, FS_Interval
<1>5. s \in Injection(1..n, S)
  BY <1>2 DEF Injection, IsInjective
<1>6. s \in Surjection(1..n, S)
  BY <1>1, <1>4, <1>5, FS_Injection
<1> QED BY <1>3, <1>6 DEF Surjection

(* Mount's index: the plain files, every one of them, then what the archives  *)
(* hold.                                                                     *)
LEMMA MountIndex ==
  ASSUME Types, ArchivesAreSound, Mount
  PROVE  \E p \in Seq(PlainEntries), q \in Seq(Found) :
           /\ m_files' = p \o q
           /\ \A f \in OnDisk : \E i \in 1..Len(p) : p[i].name = f
           /\ \A i \in 1..Len(p) : p[i].name \in OnDisk
<1>1. PICK names \in Orders(OnDisk), zips \in Orders(present) :
        m_files' = [i \in 1..Len(names) |-> PlainEntry(names[i])]
                     \o FlattenSeq([i \in 1..Len(zips) |-> Scan(zips[i])])
  BY DEF Mount
<1>2. IsFiniteSet(OnDisk) /\ IsFiniteSet(present) /\ OnDisk \subseteq Files
  <2>1. OnDisk \subseteq Files /\ present \subseteq Archives
    BY DEF Types, OnDisk
  <2> QED BY <2>1, FS_Subset, FileSystemAssumption
<1>3. names \in Seq(OnDisk) /\ \A f \in OnDisk : \E i \in 1..Len(names) : names[i] = f
  BY <1>2, OrdersAreOnto
<1>4. zips \in Seq(present)
  BY <1>2, OrdersAreOnto
<1> DEFINE p == [i \in 1..Len(names) |-> PlainEntry(names[i])]
           parts == [i \in 1..Len(zips) |-> Scan(zips[i])]
<1>5. /\ p \in Seq(PlainEntries) /\ Len(p) = Len(names)
      /\ \A i \in 1..Len(names) : p[i].name = names[i]
  <2>1. \A i \in 1..Len(names) :
          PlainEntry(names[i]) \in PlainEntries /\ PlainEntry(names[i]).name = names[i]
    BY <1>2, <1>3 DEF PlainEntry, PlainEntries
  <2>2. Len(names) \in Nat
    BY <1>3, LenProperties
  <2> QED BY <2>1, <2>2
<1>6. parts \in Seq(Seq(Found))
  <2>1. \A i \in 1..Len(zips) : Scan(zips[i]) \in Seq(Found)
    BY <1>4, ScanFinds
  <2>2. Len(zips) \in Nat
    BY <1>4, LenProperties
  <2> QED BY <2>1, <2>2
<1> HIDE DEF p, parts
<1>7. FlattenSeq(parts) \in Seq(Found)
  BY <1>6, FlattenType
<1>8. \A f \in OnDisk : \E i \in 1..Len(p) : p[i].name = f
  BY <1>3, <1>5
<1>9. m_files' = p \o FlattenSeq(parts)
  BY <1>1 DEF p, parts
<1>10. \A i \in 1..Len(p) : p[i].name \in OnDisk
  <2>1. \A i \in 1..Len(names) : names[i] \in OnDisk
    BY <1>3, LenProperties
  <2> QED BY <1>5, <2>1
<1> QED BY <1>5, <1>7, <1>8, <1>9, <1>10

(* Elements of two sequences in a row. *)
LEMMA TwoInARow ==
  ASSUME NEW A, NEW B, NEW p \in Seq(A), NEW q \in Seq(B)
  PROVE  /\ p \o q \in Seq(A \cup B)
         /\ Len(p \o q) = Len(p) + Len(q)
         /\ \A i \in 1..Len(p) : i \in 1..Len(p \o q) /\ (p \o q)[i] = p[i]
         /\ \A i \in 1..Len(p \o q) : i <= Len(p) \/ (p \o q)[i] \in B
<1>1. PICK n \in Nat : n = Len(p)
  BY LenProperties
<1>2. PICK m \in Nat : m = Len(q)
  BY LenProperties
<1>3. p \in Seq(A \cup B) /\ q \in Seq(A \cup B)
  OBVIOUS
<1>4. /\ p \o q \in Seq(A \cup B) /\ Len(p \o q) = n + m
      /\ \A i \in 1..(n + m) : (p \o q)[i] = IF i <= n THEN p[i] ELSE q[i - n]
  BY <1>1, <1>2, <1>3, ConcatProperties
<1> DEFINE r == p \o q
<1> HIDE DEF r
<1>5. ASSUME NEW i \in 1..n PROVE i \in 1..(n + m) /\ r[i] = p[i]
  BY <1>4 DEF r
<1>6. ASSUME NEW i \in 1..(n + m), ~(i <= n) PROVE r[i] \in B
  <2>1. i - n \in 1..m
    BY <1>6
  <2>2. q[i - n] \in B
    BY <1>2, <2>1, LenProperties
  <2> QED BY <1>4, <1>6, <2>2 DEF r
<1> QED BY <1>1, <1>2, <1>4, <1>5, <1>6 DEF r

\* What addFileToZIP does when it begins, with archive z as it is.
Adds(z, file, at, n) ==
  LET todo     == AddedUnits(file, at, Directory(z))
      promised == Append(Listing(z), file)
  IN  /\ at \in Nat \ {0} /\ n \in Nat \ {0}
      /\ IsArchive(disk[z], at, n) /\ ReadsAs(z, at, n)
      /\ todo \in Seq(Units) /\ promised \in Seq(File)
      /\ Completes(disk[z], at, todo, promised)
      /\ Untouched(disk[z], at, todo)
      /\ op' = Writing(z, at, todo, promised)
      /\ op' \in ArchiveCalls /\ op'.kind = "archive" /\ op'.zip = z

(* addFileToZIP goes on only with a whole archive, and will complete it.     *)
LEMMA AddEffect ==
  ASSUME Types, ArchivesAreSound, NEW z \in Archives, NEW file \in File,
         BeginAddFileToZIP(z, file)
  PROVE  \E at, n : Adds(z, file, at, n)
<1>1. CanAdd(z, file) /\ op' = Writing(z, disk[z][EndAt(z)].at,
                                       AddedUnits(file, disk[z][EndAt(z)].at, Directory(z)),
                                       Append(Listing(z), file))
  BY DEF BeginAddFileToZIP, AddAt
<1>2. disk[z] \in Seq(Units)
  BY DEF Types
<1>3. PICK at, n \in Nat : IsArchive(disk[z], at, n)
  <2>1. CASE disk[z] = <<>> \/ \E at \in Nat : IsBroken(disk[z], at)
    <3>1. Directory(z) = <<>> /\ disk[z][EndAt(z)].n # 0
      BY <1>1, <1>2, <2>1, ReadBroken DEF CanAdd
    <3> QED BY <1>1, <3>1 DEF CanAdd
  <2> QED BY <2>1 DEF ArchivesAreSound
<1>4. ReadsAs(z, at, n)
  BY <1>2, <1>3, ReadArchive
<1>5. disk[z][EndAt(z)].at = at
  BY <1>4 DEF ReadsAs, EndUnit
<1>6. at \in Nat \ {0} /\ n \in Nat \ {0}
  BY <1>3 DEF IsArchive
<1>7. /\ AddedUnits(file, at, Directory(z)) \in Seq(Units)
      /\ Completes(disk[z], at, AddedUnits(file, at, Directory(z)), Append(Listing(z), file))
      /\ Untouched(disk[z], at, AddedUnits(file, at, Directory(z)))
  <2>1. /\ Directory(z) \in Seq(DirRecords) /\ Len(Directory(z)) = n
        /\ \A i \in 1..n : Directory(z)[i] = disk[z][at + i - 1]
        /\ Listing(z) = Listed(disk[z], at, n)
    BY <1>4 DEF ReadsAs
  <2> QED BY <1>2, <1>3, <2>1, AddedIsWhole
<1>8. Append(Listing(z), file) \in Seq(File)
  <2>1. Listing(z) \in Seq(File)
    BY <1>2, <1>3, <1>4, ListedType DEF ReadsAs
  <2> QED BY <2>1
<1>9. op' = Writing(z, at, AddedUnits(file, at, Directory(z)), Append(Listing(z), file))
  BY <1>1, <1>5
<1>10. op' \in ArchiveCalls /\ op'.kind = "archive" /\ op'.zip = z
  <2>1. PICK todo \in Seq(Units), promised \in Seq(File) : op' = Writing(z, at, todo, promised)
    BY <1>7, <1>8, <1>9
  <2> QED BY <1>6, <2>1, NewCall
<1>11. Adds(z, file, at, n)
  BY <1>3, <1>4, <1>6, <1>7, <1>8, <1>9, <1>10 DEF Adds
<1> QED BY <1>11

(* createZIP will complete its archive. *)
LEMMA CreateCompletes ==
  ASSUME NEW list \in Seq(File), list # <<>>
  PROVE  /\ NewArchive(list) \in Seq(Units)
         /\ Completes(<<>>, 1, NewArchive(list), list)
         /\ Untouched(<<>>, 1, NewArchive(list))
<1> DEFINE t == NewArchive(list)
           r == Result(<<>>, 1, t)
<1>1. /\ t \in Seq(Units) /\ Len(t) >= 2 /\ t[1].is = "local"
      /\ \E at, n \in Nat : IsArchive(t, at, n) /\ Listed(t, at, n) = list
  BY NewArchiveIsWhole
<1> HIDE DEF t
<1>2. PICK n \in Nat : n = Len(t)
  BY <1>1, LenProperties
<1>3. <<>> \in Seq(Units) /\ Len(<<>>) = 0 /\ 1 - 1 = 0 /\ 1 \in Nat \ {0} /\ 1 - 1 <= Len(<<>>)
  OBVIOUS
<1>4. r \in Seq(Units) /\ Len(r) = 1 - 1 + Len(t) /\ \A i \in 1..Len(t) : r[1 - 1 + i] = t[i]
  <2>1. PICK s \in Seq(Units), offset \in Nat \ {0} : s = <<>> /\ offset = 1 /\ offset - 1 <= Len(s)
    BY <1>3
  <2>2. /\ Result(s, offset, t) \in Seq(Units)
        /\ Len(Result(s, offset, t)) = offset - 1 + Len(t)
        /\ \A i \in 1..Len(t) : Result(s, offset, t)[offset - 1 + i] = t[i]
    <3>1. IsWritten(Result(s, offset, t), s, offset, t)
      BY <1>1, <2>1, ResultUnits
    <3> QED BY <3>1, Zenon DEF IsWritten
  <2> QED BY <2>1, <2>2
<1>5. Len(r) = Len(t) /\ \A i \in 1..Len(r) : r[i] = t[i]
  BY <1>2, <1>4
<1>6. r = t
  BY <1>1, <1>4, <1>5, SeqEqual
<1>7. Completes(<<>>, 1, t, list)
  BY <1>1, <1>2, <1>3, <1>6 DEF Completes
<1> QED BY <1>1, <1>7 DEF Untouched, t

(* The fields of a call that writes an archive.                              *)
LEMMA ArchiveCallFields ==
  ASSUME NEW c \in ArchiveCalls
  PROVE  /\ c.zip \in Archives /\ c.at \in Nat \ {0}
         /\ c.todo \in Seq(Units) /\ c.promised \in Seq(File)
BY DEF ArchiveCalls

(* What WriteUnit does to the archive and to the call.                       *)
WritesUnit(z, w) ==
  /\ z \in Archives /\ z = op.zip /\ op \in ArchiveCalls
  /\ op.todo # <<>>
  /\ Completes(disk[z], op.at, op.todo, op.promised)
  /\ w = Overwrite(disk[z], op.at, Head(op.todo))
  /\ w \in Seq(Units)
  /\ disk' = [disk EXCEPT ![z] = w]
  /\ op' \in ArchiveCalls /\ op'.kind = "archive"
  /\ op'.zip = z /\ op'.promised = op.promised
  /\ op'.at = op.at + 1 /\ op'.todo = Tail(op.todo)

(* It does so whenever it is taken.                                         *)
LEMMA WriteUnitEffect ==
  ASSUME Types, WritingIsSound, WriteUnit
  PROVE  \E z, w : WritesUnit(z, w)
<1> DEFINE z == op.zip
           w == Overwrite(disk[z], op.at, Head(op.todo))
<1>1. op.kind = "archive" /\ op.todo # <<>>
  BY DEF WriteUnit
<1>2. op \in ArchiveCalls
  BY <1>1, CallKinds DEF Types
<1>3. z \in Archives /\ op.at \in Nat \ {0} /\ op.todo \in Seq(Units) /\ op.promised \in Seq(File)
  BY <1>2, ArchiveCallFields
<1>4. Completes(disk[z], op.at, op.todo, op.promised)
  BY <1>1 DEF WritingIsSound
<1>5. w \in Seq(Units)
  <2>1. disk[z] \in Seq(Units)
    BY <1>3 DEF Types
  <2>2. op.at - 1 <= Len(disk[z])
    BY <1>4 DEF Completes
  <2>3. Head(op.todo) \in Units
    BY <1>1, <1>3
  <2> QED BY <1>3, <2>1, <2>2, <2>3, OverwriteUnits
<1>6. disk' = [disk EXCEPT ![z] = w]
  BY DEF WriteUnit, Overwrite
<1>7. op' = [op EXCEPT !.at = op.at + 1, !.todo = Tail(op.todo)]
  BY DEF WriteUnit
<1>8. op' \in ArchiveCalls /\ op'.kind = "archive" /\ op'.zip = z /\ op'.promised = op.promised
      /\ op'.at = op.at + 1 /\ op'.todo = Tail(op.todo)
  <2>1. op.at + 1 \in Nat \ {0} /\ Tail(op.todo) \in Seq(Units)
    BY <1>1, <1>3
  <2> QED BY <1>2, <1>7, <2>1 DEF ArchiveCalls
<1> HIDE DEF w
<1>9. WritesUnit(z, w)
  BY <1>1, <1>2, <1>3, <1>4, <1>5, <1>6, <1>8 DEF WritesUnit, w
<1> QED BY <1>9

(* What createZIP does when it begins. *)
Creates(z, list) ==
  /\ z \in Archives /\ list \in Seq(File) /\ list # <<>>
  /\ Ready
  /\ disk' = [disk EXCEPT ![z] = <<>>]
  /\ op' = Writing(z, 1, NewArchive(list), list)
  /\ present' = present \cup {z} /\ recreated' = recreated \cup {z}
  /\ UNCHANGED <<plain, phase, m_files, loaded>>
  /\ NewArchive(list) \in Seq(Units)
  /\ op' \in ArchiveCalls /\ op'.kind = "archive"

(* It does so whenever it is taken.                                         *)
LEMMA CreateEffect ==
  ASSUME Types, NEW z \in Archives, NEW one \in Available, NEW two \in Available,
         BeginCreateZIP(z, <<one>>) \/ BeginCreateZIP(z, <<one, two>>)
  PROVE  \E list : Creates(z, list)
<1>1. PICK list : (list = <<one>> \/ list = <<one, two>>) /\ BeginCreateZIP(z, list)
  OBVIOUS
<1>2. list \in Seq(File) /\ list # <<>>
  BY <1>1, AvailableType, ListType
<1>3. NewArchive(list) \in Seq(Units)
  BY <1>2, CreateCompletes
<1>4. op' = Writing(z, 1, NewArchive(list), list)
  BY <1>1 DEF BeginCreateZIP
<1>5. op' \in ArchiveCalls /\ op'.kind = "archive"
  <2>1. 1 \in Nat \ {0}
    OBVIOUS
  <2>2. PICK todo \in Seq(Units), promised \in Seq(File) :
          todo = NewArchive(list) /\ promised = list
    BY <1>2, <1>3
  <2>3. op' = Writing(z, 1, todo, promised)
    BY <1>4, <2>2
  <2> QED BY <2>1, <2>3, NewCall
<1>6. Creates(z, list)
  BY <1>1, <1>2, <1>3, <1>4, <1>5 DEF Creates, BeginCreateZIP, BeginUpdate
<1> QED BY <1>6

-----------------------------------------------------------------------------
(* The steps.                                                                *)

(* Every step keeps the types.                                               *)
LEMMA TypesNext == IInv /\ [Next]_vars => Types'
<1> SUFFICES ASSUME IInv, [Next]_vars PROVE Types'
  OBVIOUS
<1>0. Types /\ OnlyUpWorks /\ ArchivesAreSound /\ WritingIsSound
  BY DEF IInv
<1> USE <1>0
<1>1. CASE Mount
  <2>1. PICK p \in Seq(PlainEntries), q \in Seq(Found) : m_files' = p \o q
    BY <1>1, MountIndex
  <2>2. m_files' \in Seq(PlainEntries \cup ZippedEntries)
    <3>1. Found \subseteq ZippedEntries
      BY DEF Found
    <3>2. q \in Seq(ZippedEntries)
      BY <3>1
    <3> QED BY <2>1, <3>2, TwoInARow
  <2> QED BY <1>1, <2>2 DEF Mount, Types
<1>2. CASE Stop
  BY <1>2 DEF Stop, Types, Calls
<1>3. CASE UNCHANGED vars
  BY <1>3 DEF vars, Types
<1>4. ASSUME NEW name \in Names, getFile(name) PROVE Types'
  <2>1. loaded' \subseteq File
    BY <1>4, LoadedType
  <2> QED BY <1>4, <2>1 DEF getFile, Types
<1>5. ASSUME NEW file \in Available, BeginWriteFile(file) PROVE Types'
  <2>1. file \in File /\ file.name \in Files
    BY <1>5, AvailableType DEF BeginWriteFile
  <2>2. file \in [name : Files, content : Contents]
    BY <2>1 DEF File
  <2>3. op' \in Calls
    BY <1>5, <2>2 DEF BeginWriteFile, Calls
  <2>4. plain' \in [Files -> Contents \cup {NoContent}]
    BY <1>5 DEF BeginWriteFile, Types
  <2> QED BY <1>5, <2>3, <2>4 DEF BeginWriteFile, Types
<1>6. CASE EndWriteFile
  <2>1. op \in WriteCalls
    BY <1>6, CallKinds DEF EndWriteFile, Types
  <2>2. op.file.name \in Files /\ op.file.content \in Contents
    BY <2>1 DEF WriteCalls
  <2>3. PlainEntry(op.file.name) \in PlainEntries \cup ZippedEntries
    BY <2>2 DEF PlainEntry, PlainEntries
  <2>4. m_files' \in Seq(PlainEntries \cup ZippedEntries)
    BY <1>6, <2>3 DEF EndWriteFile, Types
  <2>5. plain' \in [Files -> Contents \cup {NoContent}]
    BY <1>6, <2>2 DEF EndWriteFile, Types
  <2>6. op' \in Calls
    BY <1>6 DEF EndWriteFile, Calls
  <2> QED BY <1>6, <2>4, <2>5, <2>6 DEF EndWriteFile, Types
<1>7. ASSUME NEW z \in Archives, NEW file \in Available, BeginAddFileToZIP(z, file) PROVE Types'
  <2>1. file \in File
    BY AvailableType
  <2>2. op' \in Calls
    <3>1. PICK at, n : Adds(z, file, at, n)
      BY <1>7, <2>1, AddEffect
    <3> QED BY <3>1 DEF Adds, Calls, ArchiveCalls
  <2> QED BY <1>7, <2>2 DEF BeginAddFileToZIP, AddAt, Types
<1>8. ASSUME NEW z \in Archives, NEW one \in Available, NEW two \in Available,
             BeginCreateZIP(z, <<one>>) \/ BeginCreateZIP(z, <<one, two>>)
      PROVE  Types'
  <2>1. PICK list : Creates(z, list)
    BY <1>8, CreateEffect
  <2>2. op' \in Calls
    BY <2>1 DEF Creates, Calls, ArchiveCalls
  <2>3. disk' \in [Archives -> Seq(Units)]
    <3>1. <<>> \in Seq(Units)
      OBVIOUS
    <3> QED BY <2>1, <3>1 DEF Creates, Types
  <2> QED BY <2>1, <2>2, <2>3 DEF Creates, Types
<1>9. CASE WriteUnit
  <2>1. PICK z, w : WritesUnit(z, w)
    BY <1>9, WriteUnitEffect
  <2>2. op' \in Calls
    BY <2>1 DEF WritesUnit, Calls, ArchiveCalls
  <2>3. disk' \in [Archives -> Seq(Units)]
    BY <2>1 DEF WritesUnit, Types
  <2> QED BY <1>9, <2>2, <2>3 DEF WriteUnit, Types
<1>10. CASE EndArchive
  BY <1>10 DEF EndArchive, Types, Calls
<1> QED BY <1>1, <1>2, <1>3, <1>4, <1>5, <1>6, <1>7, <1>8, <1>9, <1>10 DEF Next, Rest

(* Every step leaves a process that is down or hung without a call.         *)
LEMMA OnlyUpWorksNext == IInv /\ [Next]_vars => OnlyUpWorks'
<1> SUFFICES ASSUME IInv, [Next]_vars PROVE OnlyUpWorks'
  OBVIOUS
<1>0. Types /\ OnlyUpWorks /\ ArchivesAreSound /\ WritingIsSound
  BY DEF IInv
<1> USE <1>0
<1>1. CASE Mount
  BY <1>1 DEF Mount, OnlyUpWorks
<1>2. CASE Stop
  BY <1>2 DEF Stop, OnlyUpWorks, NoOp
<1>3. CASE UNCHANGED vars
  BY <1>3 DEF vars, OnlyUpWorks
<1>4. ASSUME NEW name \in Names, getFile(name) PROVE OnlyUpWorks'
  BY <1>4 DEF getFile, OnlyUpWorks
<1>5. ASSUME NEW file \in Available, BeginWriteFile(file) PROVE OnlyUpWorks'
  BY <1>5 DEF BeginWriteFile, BeginUpdate, Ready, OnlyUpWorks
<1>6. CASE EndWriteFile
  BY <1>6 DEF EndWriteFile, OnlyUpWorks, NoOp
<1>7. ASSUME NEW z \in Archives, NEW file \in Available, BeginAddFileToZIP(z, file) PROVE OnlyUpWorks'
  <2>1. file \in File
    BY AvailableType
  <2>2. op'.zip = z /\ z \in present
    <3>1. PICK at, n : Adds(z, file, at, n)
      BY <1>7, <2>1, AddEffect
    <3> QED BY <1>7, <3>1 DEF Adds, BeginAddFileToZIP, AddAt, CanAdd
  <2> QED BY <1>7, <2>2 DEF BeginAddFileToZIP, AddAt, BeginUpdate, Ready, OnlyUpWorks
<1>8. ASSUME NEW z \in Archives, NEW one \in Available, NEW two \in Available,
             BeginCreateZIP(z, <<one>>) \/ BeginCreateZIP(z, <<one, two>>)
      PROVE  OnlyUpWorks'
  <2>1. PICK list : Creates(z, list)
    BY <1>8, CreateEffect
  <2>2. op'.zip = z
    BY <2>1 DEF Creates, Writing
  <2> QED BY <2>1, <2>2 DEF Creates, Ready, OnlyUpWorks, Types
<1>9. CASE WriteUnit
  <2>1. PICK z, w : WritesUnit(z, w)
    BY <1>9, WriteUnitEffect
  <2>2. op.kind = "archive" /\ op.zip \in present /\ op # NoOp
    BY <1>9 DEF WriteUnit, OnlyUpWorks, NoOp
  <2>3. op'.zip = z /\ z = op.zip /\ disk' = [disk EXCEPT ![z] = w]
    BY <2>1 DEF WritesUnit
  <2>4. \A a \in Archives \ present : disk'[a] = <<>>
    BY <2>2, <2>3 DEF OnlyUpWorks, Types
  <2> QED BY <1>9, <2>2, <2>3, <2>4 DEF WriteUnit, OnlyUpWorks
<1>10. CASE EndArchive
  BY <1>10 DEF EndArchive, OnlyUpWorks, NoOp
<1> QED BY <1>1, <1>2, <1>3, <1>4, <1>5, <1>6, <1>7, <1>8, <1>9, <1>10 DEF Next, Rest

(* The archive after a unit is written: whole, or broken so far.             *)
LEMMA ArchiveWritten ==
  ASSUME Types, WritingIsSound, NEW z, NEW w, WritesUnit(z, w), op.kind = "archive"
  PROVE  /\ Completes(w, op'.at, op'.todo, op'.promised)
         /\ op'.todo = <<>> \/ \E at \in 1..(op'.at - 1) : IsBroken(w, at)
         /\ op'.todo = <<>> => \E at, n \in Nat : IsArchive(w, at, n) /\ Listed(w, at, n) = op'.promised
<1>1. /\ z = op.zip /\ z \in Archives
      /\ op.at \in Nat \ {0} /\ op.todo \in Seq(Units) /\ op.todo # <<>>
      /\ op.promised \in Seq(File)
      /\ Completes(disk[z], op.at, op.todo, op.promised)
      /\ w = Overwrite(disk[z], op.at, Head(op.todo)) /\ w \in Seq(Units)
      /\ op'.promised = op.promised /\ op'.at = op.at + 1 /\ op'.todo = Tail(op.todo)
  BY ArchiveCallFields DEF WritesUnit
<1>2. PICK s \in Seq(Units), todo \in Seq(Units), offset \in Nat \ {0}, promised \in Seq(File) :
        /\ s = disk[z] /\ todo = op.todo /\ offset = op.at /\ promised = op.promised
        /\ todo # <<>> /\ Completes(s, offset, todo, promised)
        /\ w = Overwrite(s, offset, Head(todo))
  BY <1>1 DEF Types
<1>3. Untouched(s, offset, todo) \/ \E at \in 1..(offset - 1) : IsBroken(s, at)
  BY <1>1, <1>2 DEF WritingIsSound
<1>4. Completes(w, offset + 1, Tail(todo), promised)
  BY <1>2, WriteCompletes
<1>5. Tail(todo) = <<>> \/ \E at \in 1..offset : IsBroken(w, at)
  BY <1>2, <1>3, WriteBreaks
<1>6. ASSUME Tail(todo) = <<>>
      PROVE  \E at, n \in Nat : IsArchive(w, at, n) /\ Listed(w, at, n) = promised
  <2>1. Completes(w, offset + 1, <<>>, promised)
    BY <1>4, <1>6
  <2>2. offset + 1 \in Nat \ {0}
    OBVIOUS
  <2> QED BY <1>1, <2>1, <2>2, DoneIsWhole
<1>7. op'.at = offset + 1 /\ op'.at - 1 = offset /\ op'.todo = Tail(todo) /\ op'.promised = promised
  BY <1>1, <1>2
<1> QED BY <1>4, <1>5, <1>6, <1>7

(* Every step leaves every archive empty, whole or broken. *)
LEMMA ArchivesAreSoundNext == IInv /\ [Next]_vars => ArchivesAreSound'
<1> SUFFICES ASSUME IInv, [Next]_vars PROVE ArchivesAreSound'
  OBVIOUS
<1>0. Types /\ OnlyUpWorks /\ ArchivesAreSound /\ WritingIsSound
  BY DEF IInv
<1> USE <1>0
<1>1. CASE UNCHANGED disk
  BY <1>1 DEF ArchivesAreSound
<1>2. ASSUME NEW z \in Archives, NEW one \in Available, NEW two \in Available,
             BeginCreateZIP(z, <<one>>) \/ BeginCreateZIP(z, <<one, two>>)
      PROVE  ArchivesAreSound'
  <2>1. PICK list : Creates(z, list)
    BY <1>2, CreateEffect
  <2>2. disk' = [disk EXCEPT ![z] = <<>>]
    BY <2>1 DEF Creates
  <2> QED BY <2>2 DEF ArchivesAreSound, Types
<1>3. CASE WriteUnit
  <2>1. PICK z, w : WritesUnit(z, w)
    BY <1>3, WriteUnitEffect
  <2>2. z \in Archives /\ disk' = [disk EXCEPT ![z] = w] /\ op' \in ArchiveCalls
    BY <2>1 DEF WritesUnit
  <2>3. op.kind = "archive"
    BY <1>3 DEF WriteUnit
  <2>4. (\E at, n \in Nat : IsArchive(w, at, n)) \/ \E at \in Nat : IsBroken(w, at)
    <3>1. op'.at \in Nat
      BY <2>2, ArchiveCallFields
    <3>2. \A at \in 1..(op'.at - 1) : at \in Nat
      BY <3>1
    <3> QED BY <2>1, <2>3, <3>2, ArchiveWritten
  <2>5. disk'[z] = w /\ \A a \in Archives : a # z => disk'[a] = disk[a]
    BY <2>2 DEF Types
  <2> QED BY <2>4, <2>5 DEF ArchivesAreSound
<1> QED BY <1>1, <1>2, <1>3 DEF Next, Rest, vars, Mount, Stop, getFile, BeginWriteFile, EndWriteFile,
              BeginAddFileToZIP, AddAt, EndArchive

(* Every step leaves a call that will complete its archive. *)
LEMMA WritingIsSoundNext == IInv /\ [Next]_vars => WritingIsSound'
<1> SUFFICES ASSUME IInv, [Next]_vars PROVE WritingIsSound'
  OBVIOUS
<1>0. Types /\ OnlyUpWorks /\ ArchivesAreSound /\ WritingIsSound
  BY DEF IInv
<1> USE <1>0
<1>1. CASE UNCHANGED <<disk, op>>
  BY <1>1 DEF WritingIsSound
<1>2. CASE op'.kind # "archive"
  BY <1>2 DEF WritingIsSound
<1>3. ASSUME NEW z \in Archives, NEW one \in Available, NEW two \in Available,
             BeginCreateZIP(z, <<one>>) \/ BeginCreateZIP(z, <<one, two>>)
      PROVE  WritingIsSound'
  <2>1. PICK list : Creates(z, list)
    BY <1>3, CreateEffect
  <2>2. disk'[z] = <<>>
    BY <2>1 DEF Creates, Types
  <2>3. op'.zip = z /\ op'.at = 1 /\ op'.todo = NewArchive(list) /\ op'.promised = list
    BY <2>1 DEF Creates, Writing
  <2>4. Completes(<<>>, 1, NewArchive(list), list) /\ Untouched(<<>>, 1, NewArchive(list))
    BY <2>1, CreateCompletes DEF Creates
  <2> QED BY <2>2, <2>3, <2>4 DEF WritingIsSound
<1>4. ASSUME NEW z \in Archives, NEW file \in Available, BeginAddFileToZIP(z, file)
      PROVE  WritingIsSound'
  <2>1. PICK at, n : Adds(z, file, at, n)
    BY <1>4, AvailableType, AddEffect
  <2> DEFINE todo == AddedUnits(file, at, Directory(z))
             promised == Append(Listing(z), file)
  <2>2. op'.zip = z /\ op'.at = at /\ op'.todo = todo /\ op'.promised = promised
    BY <2>1 DEF Adds, Writing
  <2>3. Completes(disk[z], at, todo, promised) /\ Untouched(disk[z], at, todo)
    BY <2>1 DEF Adds
  <2>4. disk' = disk
    BY <1>4 DEF BeginAddFileToZIP, AddAt
  <2> HIDE DEF todo, promised
  <2> QED BY <2>2, <2>3, <2>4 DEF WritingIsSound
<1>5. CASE WriteUnit
  <2>1. PICK z, w : WritesUnit(z, w)
    BY <1>5, WriteUnitEffect
  <2>2. op.kind = "archive"
    BY <1>5 DEF WriteUnit
  <2>3. disk'[op'.zip] = w
    BY <2>1 DEF WritesUnit, Types
  <2> QED BY <2>1, <2>2, <2>3, ArchiveWritten DEF WritingIsSound
<1>6. CASE Stop
  BY <1>2, <1>6 DEF Stop, NoOp
<1>7. CASE EndWriteFile
  BY <1>2, <1>7 DEF EndWriteFile, NoOp
<1>8. CASE EndArchive
  BY <1>2, <1>8 DEF EndArchive, NoOp
<1>9. ASSUME NEW file \in Available, BeginWriteFile(file) PROVE WritingIsSound'
  BY <1>2, <1>9 DEF BeginWriteFile
<1> QED BY <1>1, <1>3, <1>4, <1>5, <1>6, <1>7, <1>8, <1>9 DEF Next, Rest, vars, Mount, getFile

(* Every step leaves an index that leads to the data.                        *)
LEMMA IndexIsSoundNext == IInv /\ [Next]_vars => IndexIsSound'
<1> SUFFICES ASSUME IInv, [Next]_vars PROVE IndexIsSound'
  OBVIOUS
<1>0. Types /\ OnlyUpWorks /\ ArchivesAreSound /\ WritingIsSound /\ IndexIsSound
  BY DEF IInv
<1> USE <1>0
<1> DEFINE Sound(e) == e.zip \notin recreated \cup {NoArchive} =>
                         /\ Holds(disk[e.zip], e, e.at)
                         /\ op.kind = "archive" /\ op.zip = e.zip => e.at + Size[e.content] < op.at
           SoundThen(e) == e.zip \notin recreated' \cup {NoArchive} =>
                         /\ Holds(disk'[e.zip], e, e.at)
                         /\ op'.kind = "archive" /\ op'.zip = e.zip => e.at + Size[e.content] < op'.at
<1>1. \A i \in 1..Len(m_files) : Sound(m_files[i])
  BY DEF IndexIsSound
<1>2. (\A i \in 1..Len(m_files') : SoundThen(m_files'[i])) => IndexIsSound'
  BY DEF IndexIsSound
<1>3. ASSUME UNCHANGED <<disk, recreated>>, op'.kind # "archive", NEW e, Sound(e)
      PROVE  SoundThen(e)
  BY <1>3
<1>4. CASE Mount
  <2>1. PICK p \in Seq(PlainEntries), q \in Seq(Found) : m_files' = p \o q
    BY <1>4, MountIndex
  <2>2. op'.kind # "archive" /\ disk' = disk
    BY <1>4 DEF Mount, OnlyUpWorks, NoOp
  <2>3. ASSUME NEW i \in 1..Len(m_files') PROVE SoundThen(m_files'[i])
    <3>1. CASE i <= Len(p)
      <4>1. i \in 1..Len(p)
        BY <2>3, <3>1, LenProperties
      <4>2. m_files'[i] = p[i] /\ p[i] \in PlainEntries
        BY <2>1, <4>1, TwoInARow, LenProperties
      <4>3. m_files'[i].zip = NoArchive
        BY <4>2 DEF PlainEntries
      <4> QED BY <4>3
    <3>2. CASE m_files'[i] \in Found
      BY <2>2, <3>2 DEF Found
    <3> QED BY <2>1, <3>1, <3>2, TwoInARow
  <2> HIDE DEF SoundThen
  <2> QED BY <1>2, <2>3
<1>5. CASE Stop
  <2>1. Len(m_files') = 0
    BY <1>5 DEF Stop
  <2> QED BY <1>2, <2>1
<1>6. CASE UNCHANGED <<disk, recreated, op, m_files>>
  BY <1>6 DEF IndexIsSound
<1>7. ASSUME NEW file \in Available, BeginWriteFile(file) PROVE IndexIsSound'
  <2>1. op'.kind # "archive" /\ UNCHANGED <<disk, recreated, m_files>>
    BY <1>7 DEF BeginWriteFile
  <2> HIDE DEF Sound, SoundThen
  <2> QED BY <1>1, <1>2, <1>3, <2>1
<1>8. CASE EndWriteFile
  <2>1. op'.kind # "archive" /\ UNCHANGED <<disk, recreated>>
    BY <1>8 DEF EndWriteFile, NoOp
  <2> DEFINE entry == PlainEntry(op.file.name)
  <2>2. SoundThen(entry)
    BY DEF PlainEntry
  <2>3. m_files' = m_files \/ m_files' = Append(m_files, entry)
    BY <1>8 DEF EndWriteFile
  <2>4. \A i \in 1..Len(m_files') :
          m_files'[i] = entry \/ \E j \in 1..Len(m_files) : m_files'[i] = m_files[j]
    <3> HIDE DEF entry
    <3>1. CASE m_files' = m_files
      BY <3>1
    <3>2. CASE m_files' = Append(m_files, entry)
      BY <3>2 DEF Types
    <3> QED BY <2>3, <3>1, <3>2
  <2> HIDE DEF Sound, SoundThen, entry
  <2> QED BY <1>1, <1>2, <1>3, <2>1, <2>2, <2>4
<1>9. ASSUME NEW z \in Archives, NEW file \in Available, BeginAddFileToZIP(z, file)
      PROVE  IndexIsSound'
  <2>1. PICK at, n : Adds(z, file, at, n)
    BY <1>9, AvailableType, AddEffect
  <2>2. /\ IsArchive(disk[z], at, n) /\ at \in Nat \ {0}
        /\ op'.zip = z /\ op'.at = at
    BY <2>1 DEF Adds, Writing
  <2>3. UNCHANGED <<disk, recreated, m_files>>
    BY <1>9 DEF BeginAddFileToZIP, AddAt
  <2>4. ASSUME NEW i \in 1..Len(m_files) PROVE SoundThen(m_files[i])
    <3> DEFINE e == m_files[i]
    <3>1. ASSUME e.zip \notin recreated \cup {NoArchive}
          PROVE  Holds(disk[e.zip], e, e.at) /\ (z = e.zip => e.at + Size[e.content] < at)
      <4>1. Holds(disk[e.zip], e, e.at)
        BY <1>1, <3>1
      <4>2. e.content \in Contents /\ e.at \in Nat
        BY <3>1, EntryKinds DEF ZippedEntries
      <4>3. ASSUME z = e.zip PROVE e.at + Size[e.content] < at
        <5>1. Holds(disk[z], e, e.at) /\ disk[z] \in Seq(Units)
          BY <4>1, <4>3 DEF Types
        <5> HIDE DEF e
        <5>2. e.at + Size[e.content] <= at - 1
          BY <2>2, <4>2, <5>1, HeldInBody
        <5>3. Size[e.content] \in Nat
          BY <4>2, FileSystemAssumption
        <5> QED BY <2>2, <4>2, <5>2, <5>3
      <4> QED BY <4>1, <4>3
    <3> QED BY <2>2, <2>3, <3>1
  <2> HIDE DEF SoundThen
  <2> QED BY <1>2, <2>3, <2>4
<1>10. ASSUME NEW z \in Archives, NEW one \in Available, NEW two \in Available,
              BeginCreateZIP(z, <<one>>) \/ BeginCreateZIP(z, <<one, two>>)
       PROVE  IndexIsSound'
  <2>1. PICK list : Creates(z, list)
    BY <1>10, CreateEffect
  <2>2. /\ op'.zip = z /\ m_files' = m_files
        /\ recreated' = recreated \cup {z} /\ disk' = [disk EXCEPT ![z] = <<>>]
    BY <2>1 DEF Creates, Writing
  <2>3. ASSUME NEW i \in 1..Len(m_files) PROVE SoundThen(m_files[i])
    <3> DEFINE e == m_files[i]
    <3>1. ASSUME e.zip \notin recreated' \cup {NoArchive}
          PROVE  Holds(disk'[e.zip], e, e.at) /\ op'.zip # e.zip
      <4>1. e.zip \notin recreated \cup {NoArchive} /\ e.zip # z
        BY <2>2, <3>1
      <4>2. e.zip \in Archives
        BY <4>1, EntryKinds
      <4>3. disk'[e.zip] = disk[e.zip]
        BY <2>2, <4>1, <4>2 DEF Types
      <4> QED BY <1>1, <2>2, <4>1, <4>3
    <3> QED BY <3>1
  <2> HIDE DEF SoundThen
  <2> QED BY <1>2, <2>2, <2>3
<1>11. CASE WriteUnit
  <2>1. PICK z, w : WritesUnit(z, w)
    BY <1>11, WriteUnitEffect
  <2>2. /\ op.kind = "archive" /\ op.zip = z /\ op'.zip = z /\ op'.at = op.at + 1
        /\ op.at \in Nat \ {0} /\ z \in Archives
        /\ UNCHANGED <<m_files, recreated>> /\ disk' = [disk EXCEPT ![z] = w]
    BY <1>11, <2>1, ArchiveCallFields DEF WritesUnit, WriteUnit
  <2>3. disk'[z] = w /\ \A a \in Archives : a # z => disk'[a] = disk[a]
    BY <2>2 DEF Types
  <2>4. PICK b \in Nat : b = op.at - 1
    BY <2>2
  <2>5. /\ disk[z] \in Seq(Units) /\ w \in Seq(Units)
        /\ b <= Len(w) /\ \A i \in 1..b : disk[z][i] = w[i]
    <3>1. disk[z] \in Seq(Units) /\ w \in Seq(Units)
      BY <2>1, <2>2 DEF WritesUnit, Types
    <3>2. op.todo \in Seq(Units) /\ op.todo # <<>> /\ w = Overwrite(disk[z], op.at, Head(op.todo))
      BY <2>1, ArchiveCallFields DEF WritesUnit
    <3>3. Head(op.todo) \in Units
      BY <3>2
    <3>4. op.at - 1 <= Len(disk[z])
      BY <2>1 DEF WritesUnit, Completes
    <3>5. /\ Len(w) = IF Len(disk[z]) < op.at THEN op.at ELSE Len(disk[z])
          /\ \A i \in 1..Len(w) : i # op.at => w[i] = disk[z][i]
      <4>1. PICK s \in Seq(Units), offset \in Nat \ {0}, u \in Units :
              s = disk[z] /\ offset = op.at /\ u = Head(op.todo)
        BY <2>2, <3>1, <3>3
      <4>2. offset - 1 <= Len(s) /\ w = Overwrite(s, offset, u)
        BY <3>2, <3>4, <4>1
      <4>3. /\ Len(Overwrite(s, offset, u)) = IF Len(s) < offset THEN offset ELSE Len(s)
            /\ \A i \in 1..Len(Overwrite(s, offset, u)) :
                 Overwrite(s, offset, u)[i] = IF i = offset THEN u ELSE s[i]
        BY <4>2, OverwriteUnits
      <4>4. /\ Len(w) = IF Len(s) < offset THEN offset ELSE Len(s)
            /\ \A i \in 1..Len(w) : i # offset => w[i] = s[i]
        BY <4>2, <4>3
      <4> QED BY <4>1, <4>4
    <3>6. PICK len \in Nat : len = Len(disk[z])
      BY <3>1, LenProperties
    <3>7. b <= Len(w) /\ \A i \in 1..b : i \in 1..Len(w) /\ i # op.at
      BY <2>2, <2>4, <3>4, <3>5, <3>6
    <3> QED BY <3>1, <3>5, <3>7
  <2>6. ASSUME NEW i \in 1..Len(m_files) PROVE SoundThen(m_files[i])
    <3> DEFINE e == m_files[i]
    <3>1. ASSUME e.zip \notin recreated \cup {NoArchive}
          PROVE  Holds(disk'[e.zip], e, e.at) /\ (z = e.zip => e.at + Size[e.content] < op.at + 1)
      <4>1. Holds(disk[e.zip], e, e.at) /\ (z = e.zip => e.at + Size[e.content] < op.at)
        BY <1>1, <2>2, <3>1
      <4>2. e.content \in Contents /\ e.at \in Nat /\ e.zip \in Archives
        BY <3>1, EntryKinds DEF ZippedEntries
      <4>3. Size[e.content] \in Nat
        BY <4>2, FileSystemAssumption
      <4>4. CASE z = e.zip
        <5>1. Holds(disk[z], e, e.at) /\ e.at + Size[e.content] < op.at
          BY <4>1, <4>4
        <5> HIDE DEF e
        <5>2. e.at + Size[e.content] <= b /\ e.at + Size[e.content] < op.at + 1
          BY <2>2, <2>4, <4>2, <4>3, <5>1
        <5>3. Holds(w, e, e.at)
          BY <2>5, <4>2, <5>1, <5>2, HeldInPrefix
        <5> QED BY <2>3, <4>4, <5>2, <5>3
      <4>5. CASE z # e.zip
        <5>1. disk'[e.zip] = disk[e.zip]
          BY <2>3, <4>2, <4>5
        <5> QED BY <4>1, <4>5, <5>1
      <4> QED BY <4>4, <4>5
    <3> QED BY <2>2, <3>1
  <2> HIDE DEF SoundThen
  <2> QED BY <1>2, <2>2, <2>6
<1>12. CASE EndArchive
  <2>1. op'.kind # "archive" /\ UNCHANGED <<disk, recreated, m_files>>
    BY <1>12 DEF EndArchive, NoOp
  <2> HIDE DEF Sound, SoundThen
  <2> QED BY <1>1, <1>2, <1>3, <2>1
<1> HIDE DEF Sound, SoundThen
<1> QED BY <1>4, <1>5, <1>6, <1>7, <1>8, <1>9, <1>10, <1>11, <1>12 DEF Next, Rest, vars, getFile

(* What is found of a name when a plain file is put at the end of the index. *)
LEMMA IndexAfterAppend ==
  ASSUME Types, NEW e \in PlainEntries, m_files' = Append(m_files, e), NEW f
  PROVE  /\ e.name # f => Matches(f)' = Matches(f)
         /\ e.name = f => Len(m_files) + 1 \in Matches(f)'
         /\ Matches(f) \subseteq Matches(f)'
         /\ \A i \in Matches(f) : m_files'[i] = m_files[i]
         /\ m_files'[Len(m_files) + 1] = e
<1>1. PICK n \in Nat : n = Len(m_files)
  BY LenProperties DEF Types
<1>2. /\ Len(m_files') = n + 1 /\ m_files'[n + 1] = e
      /\ \A i \in 1..n : m_files'[i] = m_files[i]
  <2>1. m_files \in Seq(PlainEntries \cup ZippedEntries) /\ e \in PlainEntries \cup ZippedEntries
    BY DEF Types
  <2> QED BY <1>1, <2>1, AppendProperties
<1>3. Matches(f)' = {i \in 1..(n + 1) : m_files'[i].name = f}
  BY <1>2 DEF Matches
<1>4. Matches(f) = {i \in 1..n : m_files[i].name = f}
  BY <1>1 DEF Matches
<1>5. \A i : i \in 1..(n + 1) <=> i \in 1..n \/ i = n + 1
  OBVIOUS
<1> QED BY <1>1, <1>2, <1>3, <1>4, <1>5

(* The index alone says which names are in it.                               *)
LEMMA IndexedKept ==
  ASSUME UNCHANGED m_files, NEW f
  PROVE  Matches(f)' = Matches(f) /\ Indexed(f)' = Indexed(f) /\ isExist(f)' = isExist(f)
BY DEF Matches, Indexed, isExist

\* The index has the name, or gets an entry of a plain file for it at its end.
EntryMade(name) ==
  \/ isExist(name) /\ UNCHANGED m_files
  \/ /\ ~ isExist(name) /\ Indexed(name)'
     /\ \A f : f # name => Indexed(f)' = Indexed(f) /\ isExist(f)' = isExist(f)
     /\ Len(m_files') = Len(m_files) + 1
     /\ m_files'[Len(m_files) + 1].name = name
     /\ \A i \in 1..Len(m_files) : m_files'[i] = m_files[i]

(* This is what writeFile does to the index when it has written.              *)
LEMMA IndexedThen ==
  ASSUME Types, EndWriteFile
  PROVE  /\ op.file.content \in Contents
         /\ \E name \in Files : name = op.file.name /\ EntryMade(name)
<1>1. op.file.name \in Files /\ op.file.content \in Contents
  <2>1. op \in WriteCalls
    BY CallKinds DEF EndWriteFile, Types
  <2> QED BY <2>1 DEF WriteCalls
<1>2. PICK name \in Files : name = op.file.name
  BY <1>1
<1> DEFINE entry == PlainEntry(name)
<1>3. entry \in PlainEntries /\ entry.name = name /\ entry.zip = NoArchive
  BY DEF PlainEntry, PlainEntries
<1>4. CASE isExist(name)
  BY <1>1, <1>2, <1>4 DEF EndWriteFile, EntryMade
<1>5. CASE ~ isExist(name)
  <2>1. m_files' = Append(m_files, entry)
    BY <1>2, <1>5 DEF EndWriteFile
  <2> HIDE DEF entry
  <2>2. Len(m_files) + 1 \in Matches(name)' /\ m_files'[Len(m_files) + 1] = entry
    BY <1>3, <2>1, IndexAfterAppend
  <2>3. Indexed(name)'
    BY <1>3, <2>2 DEF Indexed
  <2>4. ASSUME NEW f, f # name
        PROVE  /\ Matches(f)' = Matches(f)
               /\ \A i \in Matches(f) : m_files'[i] = m_files[i]
    BY <1>3, <2>1, <2>4, IndexAfterAppend
  <2>5. ASSUME NEW f, f # name
        PROVE  Indexed(f)' = Indexed(f) /\ isExist(f)' = isExist(f)
    BY <2>4, <2>5 DEF Indexed, isExist
  <2>6. m_files \in Seq(PlainEntries \cup ZippedEntries) /\ entry \in PlainEntries \cup ZippedEntries
    BY <1>3 DEF Types
  <2>7. Len(m_files') = Len(m_files) + 1 /\ \A i \in 1..Len(m_files) : m_files'[i] = m_files[i]
    BY <2>1, <2>6, AppendProperties
  <2>8. m_files'[Len(m_files) + 1].name = name
    BY <1>3, <2>2
  <2>9. EntryMade(name)
    BY <1>5, <2>3, <2>5, <2>7, <2>8 DEF EntryMade
  <2> QED BY <1>1, <1>2, <2>9
<1> QED BY <1>4, <1>5

(* What is on disk while a file is written and after it.                      *)
LEMMA WrittenOnDisk ==
  ASSUME Types, EndWriteFile
  PROVE  \A f \in Files : /\ f # op.file.name => plain'[f] = plain[f]
                          /\ f = op.file.name => plain'[f] # NoContent
<1>1. op.file.name \in Files /\ op.file.content \in Contents
  BY IndexedThen
<1>2. plain' = [plain EXCEPT ![op.file.name] = op.file.content] /\ plain \in [Files -> Contents \cup {NoContent}]
  BY DEF EndWriteFile, Types
<1> QED BY <1>1, <1>2, FileSystemAssumption

(* ... and when it is opened.                                                 *)
LEMMA OpenedOnDisk ==
  ASSUME Types, NEW file, BeginWriteFile(file)
  PROVE  \A f \in Files : /\ f # file.name => plain'[f] = plain[f]
                          /\ f = file.name => plain'[f] # NoContent
<1>1. PICK c \in Contents : plain' = [plain EXCEPT ![file.name] = c]
  BY DEF BeginWriteFile
<1>2. plain \in [Files -> Contents \cup {NoContent}] /\ file.name \in Files
  BY DEF BeginWriteFile, Types
<1> QED BY <1>1, <1>2, FileSystemAssumption

(* Every step leaves every plain file in the index, or hidden.               *)
LEMMA PlainFilesAreIndexedNext == IInv /\ [Next]_vars => PlainFilesAreIndexed'
<1> SUFFICES ASSUME IInv, [Next]_vars PROVE PlainFilesAreIndexed'
  OBVIOUS
<1>0. Types /\ OnlyUpWorks /\ ArchivesAreSound /\ PlainFilesAreIndexed
  BY DEF IInv
<1> USE <1>0
<1>1. CASE Mount
  <2>1. PICK p \in Seq(PlainEntries), q \in Seq(Found) :
          m_files' = p \o q /\ \A f \in OnDisk : \E i \in 1..Len(p) : p[i].name = f
    BY <1>1, MountIndex
  <2>2. OnDisk' = OnDisk /\ op' = op
    BY <1>1 DEF Mount, OnDisk
  <2>3. \A i \in 1..Len(p) : p[i].zip = NoArchive
    <3>1. \A i \in 1..Len(p) : p[i] \in PlainEntries
      BY <2>1, LenProperties
    <3> QED BY <3>1 DEF PlainEntries
  <2>4. \A f \in OnDisk : \E i \in 1..Len(m_files') : m_files'[i].name = f /\ m_files'[i].zip = NoArchive
    BY <2>1, <2>3, TwoInARow
  <2>5. \A f \in OnDisk : Indexed(f)'
    BY <2>4 DEF Indexed, Matches
  <2> QED BY <2>2, <2>5 DEF PlainFilesAreIndexed
<1>2. CASE op.kind # "write" /\ op'.kind # "write" /\ UNCHANGED <<plain, m_files, phase, hidden>>
  <2>1. OnDisk' = OnDisk
    BY <1>2 DEF OnDisk
  <2>2. \A f : Indexed(f)' = Indexed(f)
    BY <1>2, IndexedKept
  <2> QED BY <1>2, <2>1, <2>2 DEF PlainFilesAreIndexed
<1>3. CASE UNCHANGED <<plain, m_files, phase, op, hidden>>
  <2>1. OnDisk' = OnDisk
    BY <1>3 DEF OnDisk
  <2>2. \A f : Indexed(f)' = Indexed(f) /\ isExist(f)' = isExist(f)
    BY <1>3, IndexedKept
  <2> QED BY <1>3, <2>1, <2>2 DEF PlainFilesAreIndexed
<1>4. ASSUME NEW file \in Available, BeginWriteFile(file) PROVE PlainFilesAreIndexed'
  <2>1. /\ op.kind # "write" /\ phase = "up" /\ UNCHANGED m_files /\ file.name \in Files
        /\ op'.kind = "write" /\ op'.file.name = file.name
        /\ hidden' = hidden \cup {f \in {file.name} : plain[f] = NoContent /\ isExist(f)}
    BY <1>4 DEF BeginWriteFile, BeginUpdate, Ready, NoOp
  <2>2. \A f \in Files : /\ f # file.name => plain'[f] = plain[f]
                         /\ f = file.name => plain'[f] # NoContent
    BY <1>4, OpenedOnDisk
  <2>3. \A f : Indexed(f)' = Indexed(f) /\ isExist(f)' = isExist(f)
    BY <2>1, IndexedKept
  <2>4. file.name \in OnDisk'
    BY <2>1, <2>2 DEF OnDisk
  <2>5. ASSUME NEW f \in OnDisk'
        PROVE  f \in hidden' \/ Indexed(f) \/ (f = file.name /\ ~ isExist(f))
    <3>1. CASE f \in OnDisk
      BY <2>1, <3>1 DEF PlainFilesAreIndexed
    <3>2. CASE f \notin OnDisk
      <4>1. f = file.name /\ plain[f] = NoContent
        BY <2>2, <3>2 DEF OnDisk
      <4> QED BY <2>1, <4>1
    <3> QED BY <3>1, <3>2
  <2> QED BY <2>1, <2>3, <2>4, <2>5 DEF PlainFilesAreIndexed
<1>5. CASE EndWriteFile
  <2>1. op.kind = "write" /\ op'.kind # "write" /\ UNCHANGED <<hidden, phase>>
    BY <1>5 DEF EndWriteFile, NoOp
  <2>2. phase = "up"
    BY <2>1 DEF OnlyUpWorks, NoOp
  <2>3. OnDisk' = OnDisk
    BY <1>5, <2>1, WrittenOnDisk DEF PlainFilesAreIndexed, OnDisk
  <2>4. PICK name \in Files : name = op.file.name /\ EntryMade(name)
    BY <1>5, IndexedThen
  <2>5. \/ isExist(name) /\ \A f : Indexed(f)' = Indexed(f)
        \/ Indexed(name)' /\ \A f : f # name => Indexed(f)' = Indexed(f)
    <3>1. CASE isExist(name) /\ UNCHANGED m_files
      BY <3>1, IndexedKept
    <3>2. CASE Indexed(name)' /\ \A f : f # name => Indexed(f)' = Indexed(f)
      BY <3>2
    <3> QED BY <2>4, <3>1, <3>2 DEF EntryMade
  <2>6. ASSUME NEW f \in OnDisk PROVE f \in hidden \/ Indexed(f)'
    <3>1. f \in hidden \/ Indexed(f) \/ (name = f /\ ~ isExist(f))
      BY <2>2, <2>4 DEF PlainFilesAreIndexed
    <3> QED BY <2>5, <3>1
  <2> QED BY <2>1, <2>3, <2>6 DEF PlainFilesAreIndexed
<1>6. CASE Stop
  BY <1>6 DEF Stop, PlainFilesAreIndexed, NoOp
<1>7. ASSUME NEW z \in Archives, NEW file \in Available, BeginAddFileToZIP(z, file)
      PROVE  PlainFilesAreIndexed'
  BY <1>2, <1>7 DEF BeginAddFileToZIP, AddAt, BeginUpdate, Ready, NoOp, Writing
<1>8. ASSUME NEW z \in Archives, NEW one \in Available, NEW two \in Available,
              BeginCreateZIP(z, <<one>>) \/ BeginCreateZIP(z, <<one, two>>)
       PROVE  PlainFilesAreIndexed'
  BY <1>2, <1>8 DEF BeginCreateZIP, BeginUpdate, Ready, NoOp, Writing
<1>9. CASE WriteUnit
  BY <1>2, <1>9, WriteUnitEffect DEF WriteUnit, WritesUnit
<1>10. CASE EndArchive
  BY <1>2, <1>10 DEF EndArchive, NoOp
<1>11. ASSUME NEW name \in Names, getFile(name) PROVE PlainFilesAreIndexed'
  BY <1>3, <1>11 DEF getFile
<1> QED BY <1>1, <1>3, <1>4, <1>5, <1>6, <1>7, <1>8, <1>9, <1>10, <1>11 DEF Next, Rest, vars

(* Every step leaves a hidden file in the shadow of an archive's.             *)
LEMMA HiddenFilesAreShadowedNext == IInv /\ [Next]_vars => HiddenFilesAreShadowed'
<1> SUFFICES ASSUME IInv, [Next]_vars PROVE HiddenFilesAreShadowed'
  OBVIOUS
<1>0. Types /\ OnlyUpWorks /\ ArchivesAreSound /\ HiddenFilesAreShadowed
  BY DEF IInv
<1> USE <1>0
<1>1. CASE UNCHANGED <<plain, m_files, hidden>>
  <2>1. \A f : Indexed(f)' = Indexed(f) /\ isExist(f)' = isExist(f)
    BY <1>1, IndexedKept
  <2> QED BY <1>1, <2>1 DEF HiddenFilesAreShadowed
<1>2. CASE Mount
  <2>1. PICK p \in Seq(PlainEntries), q \in Seq(Found) :
          m_files' = p \o q /\ \A i \in 1..Len(p) : p[i].name \in OnDisk
    BY <1>2, MountIndex
  <2>2. hidden' = {} /\ plain' = plain
    <3>1. \A f : Matches(f) = {}
      BY <1>2 DEF Mount, OnlyUpWorks, Matches
    <3> QED BY <1>2, <3>1 DEF Mount, HiddenFilesAreShadowed, isExist
  <2>3. ASSUME NEW i \in 1..Len(m_files'), m_files'[i].zip = NoArchive
        PROVE  plain'[m_files'[i].name] # NoContent
    <3>1. i <= Len(p) \/ m_files'[i] \in Found
      BY <2>1, TwoInARow
    <3>2. m_files'[i] \notin Found
      BY <2>3, FileSystemAssumption DEF Found, ZippedEntries
    <3>3. i \in 1..Len(p)
      <4>1. PICK n \in Nat : n = Len(p)
        BY <2>1, LenProperties
      <4>2. i \in Nat /\ i >= 1
        <5>1. PICK m \in Nat : m = Len(m_files')
          BY <2>1, TwoInARow, LenProperties
        <5> QED BY <5>1
      <4> QED BY <3>1, <3>2, <4>1, <4>2
    <3>4. m_files'[i] = p[i]
      BY <2>1, <3>3, TwoInARow
    <3> QED BY <2>1, <2>2, <3>3, <3>4 DEF OnDisk
  <2> QED BY <2>2, <2>3 DEF HiddenFilesAreShadowed
<1>3. ASSUME NEW file \in Available, BeginWriteFile(file) PROVE HiddenFilesAreShadowed'
  <2>1. /\ UNCHANGED m_files
        /\ hidden' = hidden \cup {f \in {file.name} : plain[f] = NoContent /\ isExist(f)}
    BY <1>3 DEF BeginWriteFile
  <2>2. \A f : Indexed(f)' = Indexed(f) /\ isExist(f)' = isExist(f)
    BY <2>1, IndexedKept
  <2>3. \A f : plain[f] = NoContent => ~ Indexed(f)
    BY DEF HiddenFilesAreShadowed, Indexed, Matches
  <2>4. \A f \in hidden' : isExist(f)' /\ ~ Indexed(f)'
    BY <2>1, <2>2, <2>3 DEF HiddenFilesAreShadowed
  <2>5. \A i \in 1..Len(m_files) : m_files[i].zip = NoArchive => plain'[m_files[i].name] # NoContent
    <3> SUFFICES ASSUME NEW i \in 1..Len(m_files), m_files[i].zip = NoArchive
                 PROVE  plain'[m_files[i].name] # NoContent
      OBVIOUS
    <3>1. m_files[i].name \in Files
      BY EntryKinds DEF PlainEntries
    <3>2. plain[m_files[i].name] # NoContent
      BY DEF HiddenFilesAreShadowed
    <3> QED BY <1>3, <3>1, <3>2, OpenedOnDisk
  <2> QED BY <2>1, <2>4, <2>5 DEF HiddenFilesAreShadowed
<1>4. CASE EndWriteFile
  <2>1. hidden' = hidden
    BY <1>4 DEF EndWriteFile
  <2>2. \A i \in 1..Len(m_files) : m_files[i].zip = NoArchive => plain'[m_files[i].name] # NoContent
    <3> SUFFICES ASSUME NEW i \in 1..Len(m_files), m_files[i].zip = NoArchive
                 PROVE  plain'[m_files[i].name] # NoContent
      OBVIOUS
    <3>1. m_files[i].name \in Files
      BY EntryKinds DEF PlainEntries
    <3>2. plain[m_files[i].name] # NoContent
      BY DEF HiddenFilesAreShadowed
    <3> QED BY <1>4, <3>1, <3>2, WrittenOnDisk
  <2>3. CASE UNCHANGED m_files
    <3>1. \A f : Indexed(f)' = Indexed(f) /\ isExist(f)' = isExist(f)
      BY <2>3, IndexedKept
    <3> QED BY <2>1, <2>2, <2>3, <3>1 DEF HiddenFilesAreShadowed
  <2>4. CASE ~ UNCHANGED m_files
    <3>0. PICK name \in Files : name = op.file.name /\ EntryMade(name)
      BY <1>4, IndexedThen
    <3>1. /\ ~ isExist(name)
          /\ \A f : f # name => Indexed(f)' = Indexed(f) /\ isExist(f)' = isExist(f)
          /\ Len(m_files') = Len(m_files) + 1
          /\ m_files'[Len(m_files) + 1].name = name
          /\ \A i \in 1..Len(m_files) : m_files'[i] = m_files[i]
      BY <2>4, <3>0 DEF EntryMade
    <3>2. \A f \in hidden' : isExist(f)' /\ ~ Indexed(f)'
      BY <2>1, <3>1 DEF HiddenFilesAreShadowed
    <3>3. plain'[name] # NoContent
      BY <1>4, <3>0, WrittenOnDisk
    <3>4. \A i \in 1..Len(m_files') : i \in 1..Len(m_files) \/ i = Len(m_files) + 1
      <4>1. PICK n \in Nat : n = Len(m_files)
        BY LenProperties DEF Types
      <4> QED BY <3>1, <4>1
    <3>5. \A i \in 1..Len(m_files') : m_files'[i].zip = NoArchive => plain'[m_files'[i].name] # NoContent
      BY <2>2, <3>1, <3>3, <3>4
    <3> QED BY <3>2, <3>5 DEF HiddenFilesAreShadowed
  <2> QED BY <2>3, <2>4
<1>5. CASE Stop
  <2>1. hidden' = {} /\ Len(m_files') = 0
    BY <1>5 DEF Stop
  <2> QED BY <2>1 DEF HiddenFilesAreShadowed
<1> QED BY <1>1, <1>2, <1>3, <1>4, <1>5 DEF Next, Rest, vars, getFile, BeginAddFileToZIP, AddAt,
              BeginUpdate, BeginCreateZIP, WriteUnit, EndArchive

(* Every step leaves the plain file of a name in front of the others.        *)
LEMMA PlainFilesComeFirstNext == IInv /\ [Next]_vars => PlainFilesComeFirst'
<1> SUFFICES ASSUME IInv, [Next]_vars PROVE PlainFilesComeFirst'
  OBVIOUS
<1>0. Types /\ OnlyUpWorks /\ ArchivesAreSound /\ PlainFilesComeFirst
  BY DEF IInv
<1> USE <1>0
<1>1. CASE UNCHANGED m_files
  BY <1>1 DEF PlainFilesComeFirst, Indexed, Matches
<1>2. CASE Mount
  <2>1. PICK p \in Seq(PlainEntries), q \in Seq(Found) : m_files' = p \o q
    BY <1>2, MountIndex
  <2>2. PICK n \in Nat : n = Len(p)
    BY <2>1, LenProperties
  <2>3. /\ \A i \in 1..n : m_files'[i] \in PlainEntries
        /\ \A i \in 1..Len(m_files') : i <= n \/ m_files'[i] \in Found
    <3>1. \A i \in 1..n : m_files'[i] = p[i] /\ p[i] \in PlainEntries
      BY <2>1, <2>2, TwoInARow, LenProperties
    <3> QED BY <2>1, <2>2, <3>1, TwoInARow
  <2>4. ASSUME NEW f \in Files, NEW j \in Matches(f)', m_files'[j].zip = NoArchive
        PROVE  m_files'[Min(Matches(f)')].zip = NoArchive
    <3> DEFINE S == Matches(f)'
    <3>1. S \in SUBSET Nat /\ j \in S /\ \A i \in S : i \in 1..Len(m_files')
      BY <2>4 DEF Matches
    <3> HIDE DEF S
    <3>2. Min(S) \in S /\ Min(S) <= j
      BY <3>1, MinOfSet
    <3>3. j <= n
      BY <2>3, <2>4, <3>1, FileSystemAssumption DEF Found, ZippedEntries
    <3>4. Min(S) \in Nat /\ j \in Nat /\ Min(S) \in 1..Len(m_files')
      BY <3>1, <3>2
    <3>5. Min(S) \in 1..n
      BY <3>2, <3>3, <3>4
    <3>6. m_files'[Min(S)].zip = NoArchive
      BY <2>3, <3>5 DEF PlainEntries
    <3> QED BY <3>6 DEF S
  <2> QED BY <2>4 DEF PlainFilesComeFirst, Indexed
<1>3. CASE Stop
  <2>1. \A f : Matches(f)' = {}
    BY <1>3 DEF Stop, Matches
  <2> QED BY <2>1 DEF PlainFilesComeFirst, Indexed
<1>4. CASE EndWriteFile /\ ~ UNCHANGED m_files
  <2>1. op \in WriteCalls
    BY <1>4, CallKinds DEF EndWriteFile, Types
  <2> DEFINE name == op.file.name
             entry == PlainEntry(name)
  <2>2. entry \in PlainEntries /\ entry.name = name /\ entry.zip = NoArchive
    BY <2>1 DEF WriteCalls, PlainEntry, PlainEntries
  <2>3. Matches(name) = {} /\ m_files' = Append(m_files, entry)
    BY <1>4 DEF EndWriteFile, isExist
  <2> HIDE DEF entry
  <2>4. ASSUME NEW f \in Files, NEW j \in Matches(f)', m_files'[j].zip = NoArchive
        PROVE  m_files'[Min(Matches(f)')].zip = NoArchive
    <3>1. CASE f # name
      <4>1. Matches(f)' = Matches(f) /\ \A i \in Matches(f) : m_files'[i] = m_files[i]
        BY <2>2, <2>3, <3>1, IndexAfterAppend
      <4>2. m_files[j].zip = NoArchive /\ j \in Matches(f)
        BY <2>4, <4>1
      <4>3. m_files[Min(Matches(f))].zip = NoArchive
        BY <4>2 DEF PlainFilesComeFirst, Indexed
      <4>4. Min(Matches(f)) \in Matches(f)
        <5>1. Matches(f) \in SUBSET Nat
          BY DEF Matches
        <5> QED BY <4>2, <5>1, MinOfSet
      <4> QED BY <4>1, <4>3, <4>4
    <3>2. CASE f = name
      <4> DEFINE S == Matches(f)'
      <4>1. S \in SUBSET Nat /\ S # {}
        BY <2>4 DEF Matches
      <4>2. \A i \in S : m_files'[i] = entry
        <5>1. PICK n \in Nat : n = Len(m_files)
          BY LenProperties DEF Types
        <5>2. /\ m_files \in Seq(PlainEntries \cup ZippedEntries)
              /\ entry \in PlainEntries \cup ZippedEntries
          BY <2>2 DEF Types
        <5>3. /\ Len(m_files') = n + 1 /\ m_files'[n + 1] = entry
              /\ \A i \in 1..n : m_files'[i] = m_files[i]
          BY <2>3, <5>1, <5>2, AppendProperties
        <5>4. \A i \in 1..n : m_files[i].name # name
          BY <2>3, <5>1 DEF Matches
        <5>5. \A i \in S : i \in 1..(n + 1) /\ m_files'[i].name = name
          BY <3>2, <5>3 DEF Matches
        <5>6. \A i \in 1..(n + 1) : i \in 1..n \/ i = n + 1
          OBVIOUS
        <5> QED BY <5>3, <5>4, <5>5, <5>6
      <4> HIDE DEF S
      <4>3. m_files'[Min(S)].zip = NoArchive
        BY <2>2, <4>1, <4>2, MinOfSet
      <4> QED BY <4>3 DEF S
    <3> QED BY <3>1, <3>2
  <2> QED BY <2>4 DEF PlainFilesComeFirst, Indexed
<1> QED BY <1>1, <1>2, <1>3, <1>4 DEF Next, Rest, vars, getFile, BeginWriteFile,
              BeginAddFileToZIP, AddAt, BeginCreateZIP, WriteUnit, EndArchive

-----------------------------------------------------------------------------
(* The theorems.                                                             *)

(* In the beginning there is neither an index nor an archive.                *)
LEMMA InitiallySound == Init => IInv
<1> SUFFICES ASSUME Init PROVE IInv
  OBVIOUS
<1>1. Types
  <2>1. <<>> \in Seq(Units)
    OBVIOUS
  <2> QED BY <2>1 DEF Init, Types, Calls
<1>2. OnlyUpWorks /\ ArchivesAreSound /\ WritingIsSound /\ PlainFilesAreIndexed
  BY DEF Init, OnlyUpWorks, ArchivesAreSound, WritingIsSound, PlainFilesAreIndexed, NoOp
<1>3. Len(m_files) = 0
  BY DEF Init
<1>4. IndexIsSound /\ HiddenFilesAreShadowed /\ PlainFilesComeFirst
  <2>1. hidden = {}
    BY DEF Init
  <2> QED BY <1>3, <2>1 DEF IndexIsSound, HiddenFilesAreShadowed, PlainFilesComeFirst, Indexed, Matches
<1> QED BY <1>1, <1>2, <1>4 DEF IInv

(* The invariant holds in every state.                                       *)
THEOREM InductiveInvariant == Spec => []IInv
<1>1. IInv /\ [Next]_vars => IInv'
  BY TypesNext, OnlyUpWorksNext, ArchivesAreSoundNext, WritingIsSoundNext, IndexIsSoundNext,
     PlainFilesAreIndexedNext, HiddenFilesAreShadowedNext, PlainFilesComeFirstNext DEF IInv
<1> QED BY InitiallySound, <1>1, PTL DEF Spec

(* The types; and writeFile, createZIP and addFileToZIP never leave a gap in  *)
(* an archive or seek past its end.                                           *)
THEOREM TypeCorrect == Spec => []TypeOK
<1>1. IInv => TypeOK
  <2> SUFFICES ASSUME IInv PROVE TypeOK
    OBVIOUS
  <2>1. Types /\ OnlyUpWorks /\ WritingIsSound
    BY DEF IInv
  <2>2. \A i \in 1..Len(m_files) : m_files[i].name \in Names
    BY <2>1, EntryKinds
  <2>3. op.kind \in {"none", "write", "archive"}
    BY <2>1, CallKinds DEF Types
  <2>4. ASSUME op.kind = "archive" PROVE op.at \in 1..(Len(disk[op.zip]) + 1)
    <3>1. op.zip \in Archives /\ op.at \in Nat \ {0}
      BY <2>1, <2>4, CallKinds, ArchiveCallFields DEF Types
    <3>2. op.at - 1 <= Len(disk[op.zip])
      BY <2>1, <2>4 DEF WritingIsSound, Completes
    <3>3. PICK n \in Nat : n = Len(disk[op.zip])
      BY <2>1, <3>1, LenProperties DEF Types
    <3> QED BY <3>1, <3>2, <3>3
  <2> QED BY <2>1, <2>2, <2>3, <2>4 DEF TypeOK, Types, OnlyUpWorks
<1> QED BY InductiveInvariant, <1>1, PTL

(* What loadZipFile reads at an offset of the index is the data that the      *)
(* constructor found there, also while addFileToZIP overwrites the directory  *)
(* behind it and after it stopped in the middle.                              *)
THEOREM IndexCorrect == Spec => []IndexReadsBack
<1>1. IInv => IndexReadsBack
  <2> SUFFICES ASSUME IInv, NEW i \in 1..Len(m_files),
                      m_files[i].zip \notin recreated \cup {NoArchive}
               PROVE  ReadAt(m_files[i].zip, m_files[i].at) = m_files[i].content
    BY DEF IndexReadsBack
  <2>1. Types /\ IndexIsSound
    BY DEF IInv
  <2>2. Holds(disk[m_files[i].zip], m_files[i], m_files[i].at)
    BY <2>1 DEF IndexIsSound
  <2>3. m_files[i].zip \in Archives /\ m_files[i].content \in Contents
    BY <2>1, EntryKinds DEF ZippedEntries
  <2> QED BY <2>2, <2>3, ReadsBack
<1> QED BY InductiveInvariant, <1>1, PTL

(* Every plain file on disk is found by isExist, although the constructor     *)
(* alone scans the disk; and getFile prefers it to an archive's file of the   *)
(* same name if and only if no archive's file had the name in the index       *)
(* before writeFile first wrote it.                                           *)
THEOREM FilesExist == Spec => []EveryFileExists
<1>1. IInv => EveryFileExists
  <2> SUFFICES ASSUME IInv, Ready, NEW f \in OnDisk
               PROVE  /\ isExist(f)
                      /\ m_files[Min(Matches(f))].zip = NoArchive <=> f \notin hidden
    BY DEF EveryFileExists
  <2>1. Types /\ PlainFilesAreIndexed /\ HiddenFilesAreShadowed /\ PlainFilesComeFirst
    BY DEF IInv
  <2>2. f \in hidden \/ Indexed(f)
    BY <2>1 DEF PlainFilesAreIndexed, Ready, NoOp
  <2>3. isExist(f) /\ (f \in hidden => ~ Indexed(f))
    BY <2>1, <2>2 DEF HiddenFilesAreShadowed, Indexed, isExist
  <2>4. Min(Matches(f)) \in Matches(f)
    <3>1. Matches(f) \in SUBSET Nat
      BY DEF Matches
    <3> QED BY <2>3, <3>1, MinOfSet DEF isExist
  <2>5. f \notin hidden => m_files[Min(Matches(f))].zip = NoArchive
    BY <2>1, <2>2 DEF PlainFilesComeFirst, OnDisk
  <2>6. ~ Indexed(f) => m_files[Min(Matches(f))].zip # NoArchive
    BY <2>4 DEF Indexed
  <2> QED BY <2>3, <2>5, <2>6
<1> QED BY InductiveInvariant, <1>1, PTL

-----------------------------------------------------------------------------
(* The refinement.                                                           *)

\* A reader of the directory finds what the archive holds, or nothing.
ListingReads ==
  \A z \in Archives :
    /\ \A at, n \in Nat : IsArchive(disk[z], at, n) => Listing(z) = Listed(disk[z], at, n)
    /\ disk[z] = <<>> \/ (\E at \in Nat : IsBroken(disk[z], at)) => Listing(z) = <<>>

(* Types are all that this needs.                                           *)
LEMMA ListingIsRead == Types => ListingReads
<1> SUFFICES ASSUME Types, NEW z \in Archives
             PROVE  /\ \A at, n \in Nat : IsArchive(disk[z], at, n) => Listing(z) = Listed(disk[z], at, n)
                    /\ disk[z] = <<>> \/ (\E at \in Nat : IsBroken(disk[z], at)) => Listing(z) = <<>>
  BY DEF ListingReads
<1>1. disk[z] \in Seq(Units)
  BY DEF Types
<1>2. ASSUME NEW at \in Nat, NEW n \in Nat, IsArchive(disk[z], at, n)
      PROVE  Listing(z) = Listed(disk[z], at, n)
  BY <1>1, <1>2, ReadArchive DEF ReadsAs
<1>3. ASSUME disk[z] = <<>> \/ \E at \in Nat : IsBroken(disk[z], at)
      PROVE  Listing(z) = <<>>
  BY <1>1, <1>3, ReadBroken
<1> QED BY <1>2, <1>3

(* It reads the archive and nothing else.                                    *)
LEMMA ListingKept ==
  ASSUME NEW z, disk'[z] = disk[z]
  PROVE  Listing(z)' = Listing(z)
<1>1. EndAt(z)' = EndAt(z)
  BY DEF EndAt
<1>2. \A i : IsDirUnit(z, i)' = IsDirUnit(z, i)
  BY DEF IsDirUnit
<1>3. Directory(z)' = Directory(z)
  BY <1>1, <1>2 DEF Directory
<1>4. \A offset : ReadAt(z, offset)' = ReadAt(z, offset)
  BY DEF ReadAt
<1> QED BY <1>3, <1>4 DEF Listing

(* A call that writes an archive promises at least one file.                *)
LEMMA Promises ==
  ASSUME Types, WritingIsSound, op.kind = "archive"
  PROVE  /\ op.zip \in Archives /\ op.promised \in Seq(File) /\ op.promised # <<>>
         /\ Update[op.zip] = op.promised
<1>1. op \in ArchiveCalls
  BY CallKinds DEF Types
<1>2. op.zip \in Archives /\ op.promised \in Seq(File) /\ op.at \in Nat \ {0} /\ op.todo \in Seq(Units)
  BY <1>1, ArchiveCallFields
<1>3. Completes(disk[op.zip], op.at, op.todo, op.promised)
  BY DEF WritingIsSound
<1>4. PICK s \in Seq(Units), offset \in Nat \ {0}, todo \in Seq(Units), promised \in Seq(File) :
        /\ s = disk[op.zip] /\ offset = op.at /\ todo = op.todo /\ promised = op.promised
        /\ Completes(s, offset, todo, promised) /\ offset - 1 <= Len(s)
  BY <1>2, <1>3 DEF Types, Completes
<1>5. PICK at, n \in Nat : /\ IsArchive(Result(s, offset, todo), at, n)
                           /\ Listed(Result(s, offset, todo), at, n) = promised
  BY <1>4 DEF Completes
<1>6. Result(s, offset, todo) \in Seq(Units)
  BY <1>4, ResultUnits DEF IsWritten
<1>7. Len(promised) = n /\ n # 0
  BY <1>5, <1>6, ListedType DEF IsArchive
<1> QED BY <1>2, <1>4, <1>7 DEF Update

(* Every step of the code is one of ArchiveStore, or does not show.           *)
LEMMA StepRefines == IInv /\ [Next]_vars => [Store!Next]_(Store!vars)
<1> SUFFICES ASSUME IInv, [Next]_vars PROVE [Store!Next]_(Store!vars)
  OBVIOUS
<1>0. Types /\ OnlyUpWorks /\ ArchivesAreSound /\ WritingIsSound
  BY DEF IInv
<1> USE <1>0
<1>0a. Types'
  BY TypesNext
<1>0b. ListingReads'
  BY <1>0a, ListingIsRead, PTL
<1>0c. ListingReads
  BY ListingIsRead
<1> DEFINE L == [z \in Archives |-> Listing(z)]
<1>1. ASSUME UNCHANGED disk PROVE L' = L
  <2>1. \A z \in Archives : Listing(z)' = Listing(z)
    BY <1>1, ListingKept
  <2> QED BY <2>1
<1>2. ASSUME op.kind # "archive", op'.kind # "archive" PROVE Update' = Update
  BY <1>2 DEF Update
<1>3. CASE UNCHANGED disk /\ op.kind # "archive" /\ op'.kind # "archive"
  <2>1. Update' = Update /\ L' = L
    BY <1>1, <1>2, <1>3
  <2> QED BY <2>1 DEF Store!vars
<1>4. CASE UNCHANGED <<disk, op>>
  <2>1. Update' = Update
    BY <1>4 DEF Update
  <2> QED BY <1>1, <1>4, <2>1 DEF Store!vars
<1>5. CASE Stop
  <2>1. Update' = [z \in Archives |-> <<>>]
    BY <1>5 DEF Stop, NoOp, Update
  <2>2. L' = L
    BY <1>1, <1>5 DEF Stop
  <2>3. Store!Stop
    BY <2>1, <2>2 DEF Store!Stop
  <2> QED BY <2>3 DEF Store!Next
<1>6. ASSUME NEW z \in Archives, NEW one \in Available, NEW two \in Available,
             BeginCreateZIP(z, <<one>>) \/ BeginCreateZIP(z, <<one, two>>)
      PROVE  Store!Next
  <2>1. PICK list : Creates(z, list)
    BY <1>6, CreateEffect
  <2>2. op.kind # "archive"
    BY <2>1 DEF Creates, Ready, NoOp
  <2>3. op'.kind = "archive" /\ op'.zip = z /\ op'.promised = list
        /\ list \in Seq(File) /\ list # <<>>
    BY <2>1 DEF Creates, Writing
  <2>4. Update = [a \in Archives |-> <<>>]
    BY <2>2 DEF Update
  <2>5. Update' = [a \in Archives |-> IF a = z THEN list ELSE <<>>]
    BY <2>3 DEF Update
  <2>6. Update[z] = <<>> /\ Update'[z] = list /\ Update' = [Update EXCEPT ![z] = list]
    BY <2>4, <2>5
  <2>7. L' = [L EXCEPT ![z] = <<>>]
    <3>1. disk'[z] = <<>> /\ \A a \in Archives : a # z => disk'[a] = disk[a]
      BY <2>1 DEF Creates, Types
    <3>2. Listing(z)' = <<>>
      BY <1>0b, <3>1 DEF ListingReads
    <3>3. \A a \in Archives : a # z => Listing(a)' = Listing(a)
      BY <3>1, ListingKept
    <3> QED BY <3>2, <3>3
  <2>8. Store!Create(z)
    BY <2>3, <2>6, <2>7 DEF Store!Create, Store!StoredFiles, File
  <2> QED BY <2>8 DEF Store!Next
<1>7. ASSUME NEW z \in Archives, NEW file \in Available, BeginAddFileToZIP(z, file)
      PROVE  Store!Next
  <2>1. file \in File
    BY AvailableType
  <2>2. PICK at, n : Adds(z, file, at, n)
    BY <1>7, <2>1, AddEffect
  <2>3. /\ op'.kind = "archive" /\ op'.zip = z /\ op'.promised = Append(Listing(z), file)
        /\ ReadsAs(z, at, n) /\ IsArchive(disk[z], at, n)
    BY <2>2 DEF Adds, Writing
  <2>4. op.kind # "archive" /\ disk' = disk
    BY <1>7 DEF BeginAddFileToZIP, AddAt, BeginUpdate, Ready, NoOp
  <2>5. Update = [a \in Archives |-> <<>>]
    BY <2>4 DEF Update
  <2>6. Update' = [a \in Archives |-> IF a = z THEN Append(Listing(z), file) ELSE <<>>]
    BY <2>3 DEF Update
  <2>7. Update[z] = <<>> /\ Update' = [Update EXCEPT ![z] = Append(L[z], file)]
    BY <2>5, <2>6
  <2>8. Listing(z) \in Seq(File) /\ Len(Listing(z)) = n /\ n # 0
    <3>1. disk[z] \in Seq(Units)
      BY DEF Types
    <3>2. Listed(disk[z], at, n) \in Seq(File) /\ Len(Listed(disk[z], at, n)) = n
      BY <2>3, <3>1, ListedType
    <3>3. Listing(z) = Listed(disk[z], at, n)
      BY <2>3 DEF ReadsAs
    <3>4. n # 0
      BY <2>3 DEF IsArchive
    <3> QED BY <3>2, <3>3, <3>4
  <2>9. \A i \in 1..Len(Listing(z)) : Listing(z)[i].name # file.name
    <3>1. Len(Directory(z)) = n
      BY <2>3 DEF ReadsAs
    <3>2. \A i \in 1..n : Directory(z)[i].name # file.name
      BY <1>7, <3>1 DEF BeginAddFileToZIP, AddAt, CanAdd
    <3>3. \A i \in 1..n : Listing(z)[i].name = Directory(z)[i].name
      BY <3>1 DEF Listing
    <3> QED BY <2>8, <3>2, <3>3
  <2>10. L' = L /\ L[z] = Listing(z) /\ L[z] # <<>>
    <3>1. Listing(z) # <<>>
      BY <2>8
    <3> QED BY <1>1, <2>4, <3>1
  <2>11. Store!Add(z)
    <3> HIDE DEF L
    <3>1. file \in Store!StoredFiles
      BY <2>1 DEF Store!StoredFiles, File
    <3>2. \A i \in 1..Len(L[z]) : L[z][i].name # file.name
      BY <2>9, <2>10
    <3> USE DEF L
    <3> QED BY <2>7, <2>10, <3>1, <3>2 DEF Store!Add
  <2> QED BY <2>11 DEF Store!Next
<1>8. CASE WriteUnit
  <2>1. PICK z, w : WritesUnit(z, w)
    BY <1>8, WriteUnitEffect
  <2>2. /\ op.kind = "archive" /\ op.zip = z /\ z \in Archives
        /\ op'.kind = "archive" /\ op'.zip = z /\ op'.promised = op.promised
        /\ disk' = [disk EXCEPT ![z] = w]
    BY <1>8, <2>1 DEF WritesUnit, WriteUnit
  <2>3. Update' = Update
    BY <2>2 DEF Update
  <2>4. Update[z] = op.promised /\ Update[z] # <<>>
    BY <2>2, Promises
  <2>5. disk'[z] = w /\ \A a \in Archives : a # z => disk'[a] = disk[a]
    BY <2>2 DEF Types
  <2>6. \A a \in Archives : a # z => Listing(a)' = Listing(a)
    BY <2>5, ListingKept
  <2>7. Listing(z)' = <<>> \/ Listing(z)' = op.promised
    <3>1. CASE \E at \in 1..(op'.at - 1) : IsBroken(w, at)
      <4>1. op'.at \in Nat
        BY <2>1, ArchiveCallFields DEF WritesUnit
      <4>2. \E at \in Nat : IsBroken(w, at)
        BY <3>1, <4>1
      <4> QED BY <1>0b, <2>2, <2>5, <4>2 DEF ListingReads
    <3>2. CASE \E at, n \in Nat : IsArchive(w, at, n) /\ Listed(w, at, n) = op.promised
      BY <1>0b, <2>2, <2>5, <3>2 DEF ListingReads
    <3> QED BY <2>1, <2>2, <3>1, <3>2, ArchiveWritten
  <2>8. CASE Listing(z)' = <<>>
    <3>1. L' = [L EXCEPT ![z] = <<>>]
      BY <2>6, <2>8
    <3>2. Store!Vanish(z)
      BY <2>3, <2>4, <3>1 DEF Store!Vanish
    <3> QED BY <2>2, <3>2 DEF Store!Next
  <2>9. CASE Listing(z)' = op.promised
    <3>1. L' = [L EXCEPT ![z] = Update[z]]
      BY <2>4, <2>6, <2>9
    <3>2. Store!Publish(z)
      BY <2>3, <2>4, <3>1 DEF Store!Publish
    <3> QED BY <2>2, <3>2 DEF Store!Next
  <2> QED BY <2>7, <2>8, <2>9
<1>9. CASE EndArchive
  <2>1. op.kind = "archive" /\ op.todo = <<>> /\ op' = NoOp /\ disk' = disk
    BY <1>9 DEF EndArchive
  <2>2. /\ op.zip \in Archives /\ op.promised # <<>> /\ Update[op.zip] = op.promised
    BY <2>1, Promises
  <2>3. Update' = [Update EXCEPT ![op.zip] = <<>>]
    BY <2>1, <2>2 DEF Update, NoOp
  <2>4. Listing(op.zip) = op.promised
    <3>1. op.at \in Nat \ {0}
      BY <2>1, CallKinds, ArchiveCallFields DEF Types
    <3>2. Completes(disk[op.zip], op.at, <<>>, op.promised) /\ disk[op.zip] \in Seq(Units)
      BY <2>1, <2>2 DEF WritingIsSound, Types
    <3>3. \E at, n \in Nat : IsArchive(disk[op.zip], at, n) /\ Listed(disk[op.zip], at, n) = op.promised
      BY <3>1, <3>2, DoneIsWhole
    <3> QED BY <1>0c, <2>2, <3>3 DEF ListingReads
  <2>5. L' = L /\ L[op.zip] = Update[op.zip]
    BY <1>1, <2>1, <2>2, <2>4
  <2>6. Store!Finish(op.zip)
    BY <2>2, <2>3, <2>5 DEF Store!Finish
  <2> QED BY <2>2, <2>6 DEF Store!Next
<1>10. CASE Mount
  BY <1>4, <1>10 DEF Mount
<1>11. ASSUME NEW name \in Names, getFile(name) PROVE [Store!Next]_(Store!vars)
  BY <1>4, <1>11 DEF getFile
<1>12. ASSUME NEW file \in Available, BeginWriteFile(file) PROVE [Store!Next]_(Store!vars)
  BY <1>3, <1>12 DEF BeginWriteFile, BeginUpdate, Ready, NoOp
<1>13. CASE EndWriteFile
  BY <1>3, <1>13 DEF EndWriteFile, NoOp
<1> QED BY <1>4, <1>5, <1>6, <1>7, <1>8, <1>9, <1>10, <1>11, <1>12, <1>13 DEF Next, Rest, vars

(* For every later reader of its directory an update of an archive, written   *)
(* unit by unit by createZIP or addFileToZIP, is all or nothing, whenever the *)
(* process ends: the file system implements ArchiveStore.                     *)
THEOREM Refinement == Spec => ImplementsArchiveStore
<1>1. Init => Store!Init
  <2> SUFFICES ASSUME Init PROVE Store!Init
    OBVIOUS
  <2>1. ListingReads
    BY InitiallySound, ListingIsRead DEF IInv
  <2>2. \A z \in Archives : Listing(z) = <<>>
    BY <2>1 DEF Init, ListingReads
  <2>3. Update = [z \in Archives |-> <<>>]
    BY DEF Init, Update, NoOp
  <2> QED BY <2>2, <2>3 DEF Store!Init
<1> QED BY InductiveInvariant, <1>1, StepRefines, PTL DEF Spec, ImplementsArchiveStore, Store!Spec

=============================================================================
