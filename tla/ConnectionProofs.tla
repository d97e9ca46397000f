--------------------------- MODULE ConnectionProofs ---------------------------
(***************************************************************************)
(* Theorems of Connection.tla, for any datagrams, any size of the buffer   *)
(* and any maximum per frame: every datagram is handled in order and with  *)
(* its own bytes, none overtakes one that processPacket threw at, and the  *)
(* calls for one packet read it once.                                      *)
(***************************************************************************)
EXTENDS Connection, SequenceTheorems, FiniteSetTheorems, TLAPS

-----------------------------------------------------------------------------
(* Datagrams and streams.                                                    *)

Byte == {Zero} \cup UNION {Range(d.bytes) : d \in Datagrams}
Sender == {d.from : d \in Datagrams}

Stream == [data : Seq(Byte), head : Nat, capacity : Nat]
Packet == [time : Nat, from : Sender, stream : Stream]
Reading == [seen : Seq(Byte), moved : BOOLEAN]
PacketCall == [from : Sender, bytes : Seq(Byte), seen : Seq(Byte), moved : BOOLEAN, returned : BOOLEAN]

-----------------------------------------------------------------------------
(* The inductive invariant.                                                  *)

FrameIsSound ==
  /\ socket \in Seq(Datagrams)
  /\ now \in StartTime..MaxTime
  /\ phase \in {"idle", "reading", "processing", "handling"}
  /\ phase = "handling" => queue # <<>>
  /\ count \in 0..kMaxPacketsPerFrameCount

(* The one buffer keeps its size, and between datagrams its head is reset. *)
BufferIsSound ==
  inputStream \in [data : [1..PacketSize -> Byte], head : {0}, capacity : 1..PacketSize]

(* Neither a packet's head nor its capacity is behind its bytes. *)
PacketIsSound(p) ==
  /\ p.time <= now
  /\ p.stream.head <= Len(p.stream.data)
  /\ p.stream.capacity <= Len(p.stream.data)
  /\ Len(p.stream.data) <= PacketSize

QueueIsSound ==
  /\ queue \in Seq(Packet)
  /\ \A k \in 1..Len(queue) : PacketIsSound(queue[k])

HistoryIsSound ==
  /\ taken \in Seq(Datagrams)
  /\ handled \in Seq(PacketCall)

(* What has been read of the first packet ends at its head; nothing has been *)
(* read of the others.                                                       *)
FrontIsSound ==
  /\ front \in Reading
  /\ queue = <<>> => front = Untouched
  /\ queue # <<>> /\ ~front.moved =>
       front.seen = SubSeq(queue[1].stream.data, 1, queue[1].stream.head)
  /\ \A k \in 2..Len(queue) : queue[k].stream.head = 0

CallsReadOn ==
  \A i \in 1..Len(handled) : ~handled[i].moved => IsPrefix(handled[i].seen, handled[i].bytes)

(* The packet that the last call threw at is still the first of the queue. *)
ThrownAtIsFirst ==
  handled # <<>> /\ ~handled[Len(handled)].returned =>
    /\ queue # <<>>
    /\ queue[1].stream.data = handled[Len(handled)].bytes
    /\ queue[1].from = handled[Len(handled)].from

IInv == /\ FrameIsSound /\ BufferIsSound /\ QueueIsSound /\ HistoryIsSound
        /\ FrontIsSound /\ CallsReadOn /\ ThrownAtIsFirst /\ HandledInOrder

-----------------------------------------------------------------------------
(* The parts of a sequence.                                                   *)
LEMMA Part ==
  ASSUME NEW S, NEW s \in Seq(S), NEW a \in Nat, NEW c \in Nat, a <= c, c <= Len(s)
  PROVE  /\ SubSeq(s, a + 1, c) \in Seq(S) /\ Len(SubSeq(s, a + 1, c)) = c - a
         /\ \A i \in 1..(c - a) : SubSeq(s, a + 1, c)[i] = s[a + i]
<1>1. PICK k \in Int : k = a + 1
  OBVIOUS
<1>2. Len(s) \in Nat
  BY LenProperties
<1>3. \A i \in k..c : s[i] \in S
  BY <1>1, <1>2, ElementOfSeq
<1>4. /\ SubSeq(s, k, c) \in Seq(S)
      /\ Len(SubSeq(s, k, c)) = IF k <= c THEN c - k + 1 ELSE 0
      /\ \A i \in 1..(c - k + 1) : SubSeq(s, k, c)[i] = s[k + i - 1]
  BY <1>3, SubSeqProperties
<1>5. c - k + 1 = c - a /\ (~(k <= c) => c - a = 0) /\ \A i \in 1..(c - a) : k + i - 1 = a + i
  BY <1>1
<1> QED BY <1>1, <1>4, <1>5

(* A first part and the part that follows upon it.                            *)
LEMMA PartsJoin ==
  ASSUME NEW S, NEW s \in Seq(S), NEW a \in Nat, NEW c \in Nat, a <= c, c <= Len(s)
  PROVE  SubSeq(s, 1, a) \o SubSeq(s, a + 1, c) = SubSeq(s, 1, c)
<1>1. PICK x : x = SubSeq(s, 1, a)
  OBVIOUS
<1>2. PICK y : y = SubSeq(s, a + 1, c)
  OBVIOUS
<1>3. PICK z : z = SubSeq(s, 1, c)
  OBVIOUS
<1>4. Len(s) \in Nat
  BY LenProperties
<1>5. /\ x \in Seq(S) /\ Len(x) = a /\ \A i \in 1..a : x[i] = s[i]
  <2>1. 0 <= a /\ a <= Len(s) /\ 0 + 1 = 1 /\ a - 0 = a /\ \A i \in 1..a : 0 + i = i
    BY <1>4
  <2> QED BY <1>1, <2>1, Part
<1>6. /\ z \in Seq(S) /\ Len(z) = c /\ \A i \in 1..c : z[i] = s[i]
  <2>1. 0 <= c /\ 0 + 1 = 1 /\ c - 0 = c /\ \A i \in 1..c : 0 + i = i
    OBVIOUS
  <2> QED BY <1>3, <2>1, Part
<1>7. y \in Seq(S) /\ Len(y) = c - a /\ \A i \in 1..(c - a) : y[i] = s[a + i]
  BY <1>2, Part
<1>8. /\ x \o y \in Seq(S) /\ Len(x \o y) = a + (c - a)
      /\ \A i \in 1..(a + (c - a)) : (x \o y)[i] = IF i <= a THEN x[i] ELSE y[i - a]
  BY <1>5, <1>7, ConcatProperties
<1>9. a + (c - a) = c
  OBVIOUS
<1>10. ASSUME NEW i \in 1..c PROVE (x \o y)[i] = z[i]
  <2>1. CASE i <= a
    BY <1>5, <1>6, <1>8, <1>9, <2>1
  <2>2. CASE ~(i <= a)
    <3>1. i - a \in 1..(c - a) /\ a + (i - a) = i
      BY <2>2
    <3> QED BY <1>6, <1>7, <1>8, <1>9, <2>2, <3>1
  <2> QED BY <2>1, <2>2
<1>11. x \o y = z
  BY <1>6, <1>8, <1>9, <1>10, SeqEqual
<1> QED BY <1>1, <1>2, <1>3, <1>11

(* A first part of a sequence is a prefix of it.                             *)
LEMMA FirstPart ==
  ASSUME NEW S, NEW s \in Seq(S), NEW a \in Nat, a <= Len(s)
  PROVE  /\ SubSeq(s, 1, a) \in Seq(S) /\ Len(SubSeq(s, 1, a)) = a
         /\ IsPrefix(SubSeq(s, 1, a), s)
<1>1. 0 + 1 = 1 /\ a - 0 = a /\ 0 <= a /\ a <= a /\ \A k \in 1..a : 0 + k = k
  OBVIOUS
<1>2. PICK t : t = SubSeq(s, 1, a)
  OBVIOUS
<1>3. t \in Seq(S) /\ Len(t) = a
  BY <1>1, <1>2, Part
<1>4. /\ SubSeq(t, 1, a) \in Seq(S) /\ Len(SubSeq(t, 1, a)) = a
      /\ \A k \in 1..a : SubSeq(t, 1, a)[k] = t[k]
  BY <1>1, <1>3, Part
<1>5. SubSeq(t, 1, a) = t
  BY <1>3, <1>4, SeqEqual
<1> QED BY <1>2, <1>3, <1>5 DEF IsPrefix

-----------------------------------------------------------------------------
(* Constants and datagrams. *)

LEMMA Bounds ==
  /\ PacketSize \in Nat \ {0} /\ UInt32Range \in Nat \ {0} /\ PacketSize < UInt32Range
  /\ kMaxPacketsPerFrameCount \in Nat \ {0}
  /\ StartTime \in Nat /\ MaxTime \in Nat /\ StartTime <= MaxTime
BY ConnectionAssumption, UInt32RangeAssumption

LEMMA Remainder ==
  \A a \in Nat : /\ a % UInt32Range \in Nat /\ a % UInt32Range <= a
                 /\ a < UInt32Range => a % UInt32Range = a
<1>1. ASSUME NEW a \in Nat, NEW u \in Nat \ {0}
      PROVE  /\ a % u \in Nat /\ a % u <= a
             /\ a < u => a % u = a
  OBVIOUS
<1> QED BY <1>1, Bounds

LEMMA DatagramBytes ==
  ASSUME NEW d \in Datagrams
  PROVE  d.bytes \in Seq(Byte) /\ d.from \in Sender
<1>1. d.bytes \in Seq(Range(d.bytes))
  BY ConnectionAssumption
<1>2. Range(d.bytes) \subseteq Byte
  BY DEF Byte
<1>3. d.bytes \in Seq(Byte)
  BY <1>1, <1>2, SeqMonotonic
<1> QED BY <1>3 DEF Sender

(* receive_from gives at least one byte, and no more than fit. *)
LEMMA ReceivedBytes ==
  ASSUME NEW d \in Datagrams, d.bytes # <<>>
  PROVE  /\ Received(d) \in Seq(Byte) /\ Len(Received(d)) \in 1..PacketSize
         /\ IsPacketOf(d.from, Received(d), d)
<1>1. d.bytes \in Seq(Byte)
  BY DatagramBytes
<1>2. Len(d.bytes) \in Nat \ {0}
  BY <1>1, EmptySeq
<1> DEFINE m == Min({Len(d.bytes), PacketSize})
<1>3. m \in 1..PacketSize /\ m <= Len(d.bytes)
  <2>1. \E x \in {Len(d.bytes), PacketSize} : \A y \in {Len(d.bytes), PacketSize} : x <= y
    BY <1>2, Bounds
  <2>2. m \in {Len(d.bytes), PacketSize} /\ \A y \in {Len(d.bytes), PacketSize} : m <= y
    BY <2>1, Zenon DEF Min
  <2> QED BY <1>2, <2>2, Bounds
<1>4. PICK n \in 1..PacketSize : n = m
  BY <1>3
<1>5. n \in Nat /\ n <= Len(d.bytes) /\ Len(d.bytes) \in Nat
  BY <1>2, <1>3, <1>4, Bounds
<1>6. SubSeq(d.bytes, 1, n) \in Seq(Byte) /\ Len(SubSeq(d.bytes, 1, n)) = n
  BY <1>1, <1>5, FirstPart
<1>7. Received(d) = SubSeq(d.bytes, 1, n)
  BY <1>4 DEF Received
<1>8. IsPacketOf(d.from, Received(d), d)
  BY <1>4, <1>6, <1>7 DEF IsPacketOf
<1> QED BY <1>6, <1>7, <1>8

(* What one datagram leaves in the buffer, and the packet that is made of it. *)
LEMMA PacketMade ==
  ASSUME BufferIsSound, NEW r \in Seq(Byte), Len(r) \in 1..PacketSize
  PROVE  LET s == SetCapacity(Overwrite(inputStream, r), Len(r))
         IN  /\ ResetHead(s) \in [data : [1..PacketSize -> Byte], head : {0}, capacity : 1..PacketSize]
             /\ Copy(s) = [data |-> r, head |-> 0, capacity |-> Len(r)]
<1>1. PICK data \in [1..PacketSize -> Byte], capacity \in 1..PacketSize :
        inputStream = [data |-> data, head |-> 0, capacity |-> capacity]
  BY DEF BufferIsSound
<1>2. PICK n \in 1..PacketSize : n = Len(r)
  OBVIOUS
<1>3. DOMAIN r = 1..n /\ \A i \in 1..n : r[i] \in Byte
  BY <1>2, LenProperties, ElementOfSeq
<1> DEFINE written == [i \in 1..PacketSize |-> IF i \in 1..n THEN r[i] ELSE data[i]]
<1>4. Overwrite(inputStream, r) = [data |-> written, head |-> 0, capacity |-> capacity]
  <2>1. \A i \in 1..PacketSize : i - 0 = i
    BY Bounds
  <2>2. inputStream.data = data /\ inputStream.head = 0
    BY <1>1
  <2>3. [i \in DOMAIN inputStream.data |-> IF i - inputStream.head \in DOMAIN r
                                           THEN r[i - inputStream.head] ELSE inputStream.data[i]] = written
    BY <1>3, <2>1, <2>2
  <2> HIDE DEF written
  <2>4. Overwrite(inputStream, r) = [inputStream EXCEPT !.data = written]
    BY <2>3, Zenon DEF Overwrite
  <2> QED BY <1>1, <2>4
<1>5. written \in [1..PacketSize -> Byte]
  BY <1>3
<1> HIDE DEF written
<1>6. SetCapacity(Overwrite(inputStream, r), Len(r)) = [data |-> written, head |-> 0, capacity |-> n]
  BY <1>2, <1>4 DEF SetCapacity
<1>7. SubSeq(written, 1, n) = r
  <2>1. \A i \in 1..n : written[i] = r[i] /\ written[i] \in Byte
    BY <1>2, <1>3, Bounds DEF written
  <2>2. n \in Int /\ 1 <= n /\ n - 1 + 1 = n /\ \A i \in 1..n : 1 + i - 1 = i
    BY Bounds
  <2>3. /\ SubSeq(written, 1, n) \in Seq(Byte) /\ Len(SubSeq(written, 1, n)) = n
        /\ \A i \in 1..n : SubSeq(written, 1, n)[i] = written[i]
    BY <2>1, <2>2, SubSeqProperties
  <2> QED BY <1>2, <2>1, <2>3, SeqEqual
<1>8. ResetHead([data |-> written, head |-> 0, capacity |-> n])
        \in [data : [1..PacketSize -> Byte], head : {0}, capacity : 1..PacketSize]
  BY <1>5 DEF ResetHead
<1>9. Copy([data |-> written, head |-> 0, capacity |-> n]) = [data |-> r, head |-> 0, capacity |-> n]
  BY <1>7 DEF Copy
<1> QED BY <1>2, <1>6, <1>8, <1>9

-----------------------------------------------------------------------------
(* The calls that have returned. *)

LEMMA ReturnedIsFinite ==
  ASSUME NEW i \in Nat
  PROVE  IsFiniteSet(Returned(i)) /\ Cardinality(Returned(i)) \in Nat
<1>1. IsFiniteSet(1..i)
  BY FS_Interval
<1>2. IsFiniteSet(Returned(i))
  BY <1>1, FS_Subset DEF Returned
<1> QED BY <1>2, FS_CardinalityType

(* One more call: those before it are as they were. *)
LEMMA ReturnedAfterCall ==
  ASSUME HistoryIsSound, NEW c \in PacketCall, handled' = Append(handled, c),
         NEW n \in Nat, n = Len(handled)
  PROVE  /\ handled' \in Seq(PacketCall) /\ Len(handled') = n + 1
         /\ \A i \in 1..n : handled'[i] = handled[i] /\ Returned(i)' = Returned(i)
         /\ handled'[n + 1] = c
         /\ Returned(n + 1)' = IF c.returned THEN Returned(n) \cup {n + 1} ELSE Returned(n)
<1>1. handled \in Seq(PacketCall)
  BY DEF HistoryIsSound
<1>2. /\ handled' \in Seq(PacketCall) /\ Len(handled') = n + 1
      /\ \A i \in 1..n : handled'[i] = handled[i]
      /\ handled'[n + 1] = c
  BY <1>1, AppendProperties
<1>3. \A i \in 1..n : \A j \in 1..i : handled'[j] = handled[j]
  BY <1>2
<1>4. \A i \in 1..n : Returned(i)' = Returned(i)
  BY <1>3 DEF Returned
<1>5. Returned(n + 1)' = IF c.returned THEN Returned(n) \cup {n + 1} ELSE Returned(n)
  <2>1. \A j : j \in 1..(n + 1) <=> (j \in 1..n \/ j = n + 1)
    OBVIOUS
  <2>2. \A j \in 1..n : handled'[j] = handled[j]
    BY <1>2
  <2>3. handled'[n + 1] = c
    BY <1>2
  <2>4. {j \in 1..(n + 1) : handled'[j].returned}
          = IF c.returned THEN {j \in 1..n : handled[j].returned} \cup {n + 1}
                          ELSE {j \in 1..n : handled[j].returned}
    <3>1. CASE c.returned
      BY <2>1, <2>2, <2>3, <3>1
    <3>2. CASE ~c.returned
      BY <2>1, <2>2, <2>3, <3>2
    <3> QED BY <3>1, <3>2
  <2>5. Returned(n + 1)' = {j \in 1..(n + 1) : handled'[j].returned} /\ Returned(n) = {j \in 1..n : handled[j].returned}
    BY Zenon DEF Returned
  <2> QED BY <2>4, <2>5
<1> QED BY <1>2, <1>4, <1>5

-----------------------------------------------------------------------------
(* Init, and the steps that leave the queue and its history alone. *)

LEMMA InitIInv == Init => IInv
<1> SUFFICES ASSUME Init PROVE IInv
  OBVIOUS
<1>1. \A S : <<>> \in Seq(S)
  OBVIOUS
<1>2. Len(<<>>) = 0 /\ 1..0 = {} /\ DOMAIN <<>> = {} /\ 2..0 = {}
  OBVIOUS
<1>3. FrameIsSound
  BY <1>1, Bounds DEF Init, FrameIsSound
<1>4. BufferIsSound
  <2>1. [i \in 1..PacketSize |-> Zero] \in [1..PacketSize -> Byte]
    BY DEF Byte
  <2>2. Len([i \in 1..PacketSize |-> Zero]) = PacketSize
    BY Bounds
  <2>3. PacketSize \in 1..PacketSize
    BY Bounds
  <2>4. NewInput([i \in 1..PacketSize |-> Zero])
          \in [data : [1..PacketSize -> Byte], head : {0}, capacity : 1..PacketSize]
    BY <2>1, <2>2, <2>3 DEF NewInput
  <2> QED BY <2>4 DEF Init, BufferIsSound
<1>5. QueueIsSound /\ HistoryIsSound /\ CallsReadOn /\ ThrownAtIsFirst
  BY <1>1, <1>2 DEF Init, QueueIsSound, HistoryIsSound, CallsReadOn, ThrownAtIsFirst
<1>6. FrontIsSound
  <2>1. Untouched \in Reading
    BY <1>1 DEF Untouched, Reading
  <2> QED BY <1>2, <2>1 DEF Init, FrontIsSound
<1>7. HandledInOrder
  <2>1. Returned(0) = {} /\ Cardinality({}) = 0
    BY <1>2, FS_EmptySet DEF Returned
  <2>2. handled = <<>> /\ queue = <<>> /\ taken = <<>>
    BY DEF Init
  <2>3. Returned(Len(handled)) = {} /\ Cardinality(Returned(Len(handled))) = 0 /\ DOMAIN queue = {}
    BY <1>2, <2>1, <2>2
  <2>4. Len(taken) = 0 + Len(queue)
    BY <1>2, <2>2
  <2> QED BY <2>3, <2>4 DEF HandledInOrder
<1> QED BY <1>3, <1>4, <1>5, <1>6, <1>7 DEF IInv

LEMMA QueueKept ==
  ASSUME IInv, UNCHANGED <<inputStream, queue, taken, front, handled>>, now' \in Nat, now <= now'
  PROVE  /\ BufferIsSound' /\ QueueIsSound' /\ HistoryIsSound'
         /\ FrontIsSound' /\ CallsReadOn' /\ ThrownAtIsFirst' /\ HandledInOrder'
<1>1. BufferIsSound' /\ HistoryIsSound' /\ FrontIsSound' /\ CallsReadOn' /\ ThrownAtIsFirst'
  BY DEF IInv, BufferIsSound, HistoryIsSound, FrontIsSound, CallsReadOn, ThrownAtIsFirst
<1>2. QueueIsSound'
  <2> SUFFICES ASSUME NEW k \in 1..Len(queue) PROVE queue[k].time <= now'
    BY DEF IInv, QueueIsSound, PacketIsSound
  <2>1. queue[k] \in Packet /\ queue[k].time <= now
    BY ElementOfSeq DEF IInv, QueueIsSound, PacketIsSound
  <2>2. queue[k].time \in Nat /\ now \in Nat
    BY <2>1, Bounds DEF Packet, IInv, FrameIsSound
  <2> QED BY <2>1, <2>2
<1>3. HandledInOrder'
  BY DEF IInv, HandledInOrder, Returned
<1> QED BY <1>1, <1>2, <1>3

LEMMA ArriveIInv ==
  ASSUME IInv, NEW d \in Datagrams, Arrive(d)
  PROVE  IInv'
<1>1. socket' \in Seq(Datagrams)
  BY AppendProperties DEF Arrive, IInv, FrameIsSound
<1>2. FrameIsSound' /\ now' \in Nat /\ now <= now'
  BY <1>1, Bounds DEF Arrive, IInv, FrameIsSound
<1> QED BY <1>2, QueueKept DEF Arrive, IInv

LEMMA TickIInv ==
  ASSUME IInv, Tick
  PROVE  IInv'
<1>1. FrameIsSound' /\ now' \in Nat /\ now <= now'
  BY Bounds DEF Tick, IInv, FrameIsSound
<1> QED BY <1>1, QueueKept DEF Tick, IInv

LEMMA PhaseIInv ==
  ASSUME IInv, BeginFrame \/ StopAtMaximum \/ Call \/ EndFrame
  PROVE  IInv'
<1>1. /\ FrameIsSound' /\ now' \in Nat /\ now <= now'
      /\ UNCHANGED <<inputStream, queue, taken, front, handled>>
  BY Bounds DEF BeginFrame, StopAtMaximum, Call, OldEnough, EndFrame, IInv, FrameIsSound
<1> QED BY <1>1, QueueKept DEF IInv

LEMMA ReceiveEmptyIInv ==
  ASSUME IInv, ReceiveEmpty
  PROVE  IInv'
<1>1. socket' \in Seq(Datagrams)
  BY HeadTailProperties DEF ReceiveEmpty, IInv, FrameIsSound
<1>2. FrameIsSound' /\ now' \in Nat /\ now <= now'
  BY <1>1, Bounds DEF ReceiveEmpty, IInv, FrameIsSound
<1> QED BY <1>2, QueueKept DEF ReceiveEmpty, IInv

LEMMA StutterIInv ==
  ASSUME IInv, UNCHANGED vars
  PROVE  IInv'
<1>1. FrameIsSound' /\ now' \in Nat /\ now <= now'
  BY Bounds DEF vars, IInv, FrameIsSound
<1> QED BY <1>1, QueueKept DEF vars, IInv

-----------------------------------------------------------------------------
(* readIncomingPacketsIntoQueue: what arrives goes behind what waits. *)

(* The calls that have returned took the first of the datagrams. *)
LEMMA TakenByReturned ==
  ASSUME IInv, NEW n \in Nat, NEW i \in Returned(n)
  PROVE  Cardinality(Returned(i)) \in 1..Cardinality(Returned(n))
<1>1. i \in 1..n /\ i \in Returned(i) /\ Returned(i) \subseteq Returned(n)
  BY DEF Returned
<1>2. i \in Nat
  BY <1>1
<1>3. /\ IsFiniteSet(Returned(n)) /\ IsFiniteSet(Returned(i))
      /\ Cardinality(Returned(i)) \in Nat /\ Cardinality(Returned(n)) \in Nat
  BY <1>2, ReturnedIsFinite
<1>4. Cardinality(Returned(i)) <= Cardinality(Returned(n)) /\ Cardinality(Returned(i)) # 0
  BY <1>1, <1>3, FS_Subset, FS_EmptySet
<1> QED BY <1>3, <1>4

(* HandledInOrder after a step, in terms of the new history and queue. *)
DeliveredNext ==
  /\ Len(taken') = Cardinality(Returned(Len(handled))') + Len(queue')
  /\ \A i \in Returned(Len(handled))' :
       IsPacketOf(handled'[i].from, handled'[i].bytes, taken'[Cardinality(Returned(i)')])
  /\ \A k \in DOMAIN queue' :
       IsPacketOf(queue'[k].from, queue'[k].stream.data,
                  taken'[Cardinality(Returned(Len(handled))') + k])

LEMMA OrderNext == DeliveredNext => HandledInOrder'
BY DEF DeliveredNext, HandledInOrder, IsPacketOf, Returned

LEMMA ReceiveIInv ==
  ASSUME IInv, NEW d \in Datagrams, Receive(d)
  PROVE  IInv'
<1> USE DEF IInv
<1>1. PICK r : r = Received(d)
  OBVIOUS
<1> DEFINE s == SetCapacity(Overwrite(inputStream, r), Len(r))
<1>2. /\ phase = "reading" /\ phase' = phase /\ now' = now /\ handled' = handled /\ front' = front
      /\ count' = count + 1 /\ count < kMaxPacketsPerFrameCount
      /\ socket # <<>> /\ d.bytes # <<>> /\ socket' = Tail(socket)
      /\ inputStream' = ResetHead(s)
      /\ queue' = Append(queue, [time |-> now % UInt32Range, from |-> d.from, stream |-> Copy(s)])
      /\ taken' = Append(taken, d)
  BY <1>1 DEF Receive, ReceiveInto, MayRead
<1>3. r \in Seq(Byte) /\ Len(r) \in 1..PacketSize /\ IsPacketOf(d.from, r, d)
  BY <1>1, <1>2, ReceivedBytes
<1>4. /\ ResetHead(s) \in [data : [1..PacketSize -> Byte], head : {0}, capacity : 1..PacketSize]
      /\ Copy(s) = [data |-> r, head |-> 0, capacity |-> Len(r)]
  BY <1>3, PacketMade
<1> DEFINE p == [time |-> now % UInt32Range, from |-> d.from,
                 stream |-> [data |-> r, head |-> 0, capacity |-> Len(r)]]
<1>5. queue' = Append(queue, p)
  BY <1>2, <1>4
<1>6. now \in Nat /\ now % UInt32Range \in Nat /\ now % UInt32Range <= now
  BY Bounds, Remainder DEF FrameIsSound
<1>7. /\ p \in Packet /\ p.time <= now /\ p.stream.data = r /\ p.from = d.from /\ p.stream.head = 0
      /\ p.stream.capacity = Len(r) /\ Len(r) <= PacketSize /\ 0 <= Len(r) /\ Len(r) <= Len(r)
  <2>1. Len(r) \in Nat /\ Len(r) <= PacketSize /\ 0 <= Len(r)
    BY <1>3, Bounds
  <2>2. d.from \in Sender
    BY DatagramBytes
  <2> QED BY <1>3, <1>6, <2>1, <2>2 DEF Packet, Stream
<1> HIDE DEF p
<1>8. PICK m \in Nat : m = Len(queue)
  BY LenProperties DEF QueueIsSound
<1>9. /\ queue' \in Seq(Packet) /\ Len(queue') = m + 1
      /\ \A k \in 1..m : queue'[k] = queue[k]
      /\ queue'[m + 1] = p
  BY <1>5, <1>7, <1>8, AppendProperties DEF QueueIsSound
<1>10. FrameIsSound'
  <2>1. socket' \in Seq(Datagrams)
    BY <1>2, HeadTailProperties DEF FrameIsSound
  <2>2. count + 1 \in 0..kMaxPacketsPerFrameCount
    BY <1>2, Bounds DEF FrameIsSound
  <2> QED BY <1>2, <2>1, <2>2 DEF FrameIsSound
<1>11. BufferIsSound'
  BY <1>2, <1>4 DEF BufferIsSound
<1>12. QueueIsSound'
  <2>1. \A k \in 1..(m + 1) : k \in 1..m \/ k = m + 1
    OBVIOUS
  <2>2. \A k \in 1..m : PacketIsSound(queue[k])'
    BY <1>2, <1>8, <1>9 DEF QueueIsSound, PacketIsSound
  <2>3. PacketIsSound(queue[m + 1])'
    BY <1>2, <1>7, <1>9 DEF PacketIsSound
  <2> QED BY <1>9, <2>1, <2>2, <2>3 DEF QueueIsSound
<1>13. PICK t \in Nat : t = Len(taken)
  BY LenProperties DEF HistoryIsSound
<1>14. /\ taken' \in Seq(Datagrams) /\ Len(taken') = t + 1
       /\ \A i \in 1..t : taken'[i] = taken[i]
       /\ taken'[t + 1] = d
  BY <1>2, <1>13, AppendProperties DEF HistoryIsSound
<1>15. HistoryIsSound' /\ CallsReadOn'
  BY <1>2, <1>14 DEF HistoryIsSound, CallsReadOn
<1>16. ThrownAtIsFirst' /\ FrontIsSound'
  <2>1. \A k \in 2..(m + 1) : queue'[k].stream.head = 0
    <3> SUFFICES ASSUME NEW k \in 2..(m + 1) PROVE queue'[k].stream.head = 0
      OBVIOUS
    <3>1. CASE k = m + 1
      BY <1>7, <1>9, <3>1
    <3>2. CASE k # m + 1
      <4>1. k \in 1..m /\ k \in 2..m
        BY <3>2
      <4> QED BY <1>8, <1>9, <4>1 DEF FrontIsSound
    <3> QED BY <3>1, <3>2
  <2>2. queue' # <<>>
    BY <1>9, EmptySeq
  <2>3. CASE queue # <<>>
    <3>1. 1 \in 1..m
      BY <1>8, <2>3, EmptySeq DEF QueueIsSound
    <3>2. queue'[1] = queue[1]
      BY <1>9, <3>1
    <3>3. ThrownAtIsFirst'
      BY <1>2, <2>2, <3>2 DEF ThrownAtIsFirst
    <3>4. FrontIsSound'
      BY <1>2, <1>9, <2>1, <2>2, <2>3, <3>2 DEF FrontIsSound
    <3> QED BY <3>3, <3>4
  <2>4. CASE queue = <<>>
    <3>1. ThrownAtIsFirst'
      BY <1>2, <2>4 DEF ThrownAtIsFirst
    <3>2. m = 0
      BY <1>8, <2>4
    <3>3. front = Untouched /\ front \in Reading
      BY <2>4 DEF FrontIsSound
    <3>4. queue'[1].stream.data = r /\ queue'[1].stream.head = 0
      BY <1>7, <1>9, <3>2
    <3>5. SubSeq(r, 1, 0) = <<>>
      BY SubSeqEmpty
    <3>6. FrontIsSound'
      BY <1>2, <1>9, <2>1, <2>2, <3>3, <3>4, <3>5 DEF FrontIsSound, Untouched
    <3> QED BY <3>1, <3>6
  <2> QED BY <2>3, <2>4
<1>17. HandledInOrder'
  <2>1. PICK n \in Nat : n = Len(handled)
    BY LenProperties DEF HistoryIsSound
  <2>2. PICK c \in Nat : c = Cardinality(Returned(n))
    BY ReturnedIsFinite
  <2>3. /\ t = c + m
        /\ \A i \in Returned(n) :
             IsPacketOf(handled[i].from, handled[i].bytes, taken[Cardinality(Returned(i))])
        /\ \A k \in 1..m : IsPacketOf(queue[k].from, queue[k].stream.data, taken[c + k])
    BY <1>8, <1>13, <2>1, <2>2, LenProperties DEF HandledInOrder, QueueIsSound
  <2>4. \A i : Returned(i)' = Returned(i)
    BY <1>2 DEF Returned
  <2>5. ASSUME NEW i \in Returned(n) PROVE Cardinality(Returned(i)) \in 1..t
    <3>1. Cardinality(Returned(i)) \in 1..c
      BY <2>2, TakenByReturned
    <3> QED BY <2>3, <3>1
  <2>6. \A i \in Returned(n) :
          IsPacketOf(handled[i].from, handled[i].bytes, taken'[Cardinality(Returned(i))])
    BY <1>14, <2>3, <2>5
  <2>7. \A k \in 1..(m + 1) : IsPacketOf(queue'[k].from, queue'[k].stream.data, taken'[c + k])
    <3>1. ASSUME NEW k \in 1..m
          PROVE  IsPacketOf(queue'[k].from, queue'[k].stream.data, taken'[c + k])
      <4>1. c + k \in 1..t
        BY <2>3
      <4> QED BY <1>9, <1>14, <2>3, <4>1
    <3>2. IsPacketOf(queue'[m + 1].from, queue'[m + 1].stream.data, taken'[c + (m + 1)])
      <4>1. c + (m + 1) = t + 1
        BY <2>3
      <4> QED BY <1>3, <1>7, <1>9, <1>14, <4>1
    <3>3. \A k \in 1..(m + 1) : k \in 1..m \/ k = m + 1
      OBVIOUS
    <3> QED BY <3>1, <3>2, <3>3
  <2>8. DOMAIN queue' = 1..(m + 1) /\ Len(taken') = c + Len(queue')
    BY <1>9, <1>14, <2>3, LenProperties
  <2>9. handled' = handled /\ Len(handled) = n /\ Cardinality(Returned(n)) = c
    BY <1>2, <2>1, <2>2
  <2>10. DeliveredNext
    BY <2>4, <2>6, <2>7, <2>8, <2>9 DEF DeliveredNext
  <2> QED BY <2>10, OrderNext
<1> QED BY <1>10, <1>11, <1>12, <1>15, <1>16, <1>17

-----------------------------------------------------------------------------
(* processPacket: the handler works on the stream of the first packet. *)

LEMMA FirstPacket ==
  ASSUME IInv, phase = "handling"
  PROVE  /\ queue # <<>> /\ 1 \in 1..Len(queue) /\ Len(queue) \in Nat \ {0} /\ DOMAIN queue = 1..Len(queue)
         /\ Head(queue) = queue[1] /\ FirstStream = queue[1].stream
         /\ queue[1] \in Packet /\ FirstStream \in Stream /\ PacketIsSound(queue[1])
<1>1. queue # <<>> /\ queue \in Seq(Packet)
  BY DEF IInv, FrameIsSound, QueueIsSound
<1>2. Len(queue) \in Nat \ {0} /\ DOMAIN queue = 1..Len(queue)
  BY <1>1, EmptySeq, LenProperties
<1>3. 1 \in 1..Len(queue)
  BY <1>2
<1>4. queue[1] \in Packet /\ PacketIsSound(queue[1])
  BY <1>1, <1>3, ElementOfSeq DEF IInv, QueueIsSound
<1>5. Head(queue) = queue[1]
  BY <1>1
<1> QED BY <1>1, <1>2, <1>3, <1>4, <1>5 DEF FirstStream, Packet

(* Whatever is done to the stream, its bytes stay. *)
LEMMA UseStreamIInv ==
  ASSUME IInv, phase = "handling", NEW stream \in Stream, NEW read \in Reading,
         stream.data = FirstStream.data,
         stream.head <= Len(stream.data), stream.capacity <= Len(stream.data),
         ~read.moved => read.seen = SubSeq(stream.data, 1, stream.head),
         UseStream(stream, read)
  PROVE  IInv'
<1> USE DEF IInv
<1>1. /\ queue' = [queue EXCEPT ![1].stream = stream]
      /\ front' = read
      /\ UNCHANGED <<socket, now, phase, count, inputStream, taken, handled>>
  BY DEF UseStream
<1>2. PICK m \in Nat \ {0} : m = Len(queue) /\ 1 \in 1..m /\ DOMAIN queue = 1..m
  BY FirstPacket
<1>3. PICK p \in Packet : p = queue[1] /\ PacketIsSound(p) /\ p.stream = FirstStream
  BY FirstPacket
<1> DEFINE q == [p EXCEPT !.stream = stream]
<1>4. /\ q \in Packet /\ q.stream = stream /\ q.from = p.from /\ q.time = p.time
  BY DEF Packet
<1>5. queue' = [queue EXCEPT ![1] = q]
  BY <1>1, <1>3
<1> HIDE DEF q
<1>6. /\ queue' \in Seq(Packet) /\ Len(queue') = m
      /\ \A k \in 1..m : queue'[k] = IF k = 1 THEN q ELSE queue[k]
  BY <1>2, <1>4, <1>5, ExceptSeq DEF QueueIsSound
<1>7. queue' # <<>> /\ queue'[1] = q
  BY <1>2, <1>6, EmptySeq
<1>8. FrameIsSound' /\ BufferIsSound' /\ HistoryIsSound' /\ CallsReadOn'
  BY <1>1, <1>7 DEF FrameIsSound, BufferIsSound, HistoryIsSound, CallsReadOn
<1>9. QueueIsSound'
  <2>1. PacketIsSound(q)
    BY <1>3, <1>4 DEF PacketIsSound
  <2>2. \A k \in 1..m : PacketIsSound(queue[k])
    BY <1>2 DEF QueueIsSound
  <2>3. \A k \in 1..Len(queue') : PacketIsSound(queue'[k])
    BY <1>6, <2>1, <2>2
  <2> QED BY <1>1, <1>6, <2>3 DEF QueueIsSound, PacketIsSound
<1>10. FrontIsSound'
  <2>1. ASSUME NEW k \in 2..m PROVE queue'[k].stream.head = 0
    <3>1. k \in 1..m /\ k # 1
      OBVIOUS
    <3> QED BY <1>2, <1>6, <3>1 DEF FrontIsSound
  <2> QED BY <1>1, <1>4, <1>6, <1>7, <2>1 DEF FrontIsSound
<1>11. ThrownAtIsFirst'
  BY <1>1, <1>3, <1>4, <1>7 DEF ThrownAtIsFirst
<1>12. HandledInOrder'
  <2>1. \A k \in 1..m : queue'[k].from = queue[k].from /\ queue'[k].stream.data = queue[k].stream.data
    BY <1>3, <1>4, <1>6
  <2>2. DOMAIN queue' = 1..m /\ Len(queue') = Len(queue)
    BY <1>2, <1>6, LenProperties
  <2>3. \A i : Returned(i)' = Returned(i)
    BY <1>1 DEF Returned
  <2>4. PICK n \in Nat : n = Len(handled)
    BY LenProperties DEF HistoryIsSound
  <2>5. /\ Len(taken) = Cardinality(Returned(n)) + m
        /\ \A i \in Returned(n) :
             IsPacketOf(handled[i].from, handled[i].bytes, taken[Cardinality(Returned(i))])
        /\ \A k \in 1..m : IsPacketOf(queue[k].from, queue[k].stream.data, taken[Cardinality(Returned(n)) + k])
    BY <1>2, <2>4 DEF HandledInOrder
  <2>6. \A k \in 1..m :
          IsPacketOf(queue'[k].from, queue'[k].stream.data, taken[Cardinality(Returned(n)) + k])
    BY <2>1, <2>5
  <2>7. DeliveredNext
    BY <1>1, <1>2, <2>2, <2>3, <2>4, <2>5, <2>6 DEF DeliveredNext
  <2> QED BY <2>7, OrderNext
<1> QED BY <1>8, <1>9, <1>10, <1>11, <1>12

LEMMA ReadsIInv ==
  ASSUME IInv, NEW b \in Counts, HandlerReads(b) \/ HandlerReadWraps(b)
  PROVE  IInv'
<1>1. phase = "handling" /\ CanRead(FirstStream, b)
  BY DEF HandlerReads, HandlerReadWraps
<1>2. PICK data \in Seq(Byte), head \in Nat, capacity \in Nat :
        /\ FirstStream = [data |-> data, head |-> head, capacity |-> capacity]
        /\ head <= Len(data) /\ capacity <= Len(data)
  BY <1>1, FirstPacket DEF Stream, PacketIsSound
<1>3. b \in Nat /\ head + b \in Nat /\ Len(data) \in Nat
  BY Bounds, LenProperties DEF Counts
<1>4. PICK to \in Nat : to = (head + b) % UInt32Range
  BY <1>3, Remainder
<1>5. to <= capacity
  BY <1>1, <1>2, <1>4 DEF CanRead, ResultHead
<1> DEFINE stream == [data |-> data, head |-> to, capacity |-> capacity]
<1>6. AfterRead(FirstStream, b) = stream
  BY <1>2, <1>4 DEF AfterRead, ResultHead
<1>7. /\ stream \in Stream /\ stream.data = FirstStream.data
      /\ stream.head <= Len(stream.data) /\ stream.capacity <= Len(stream.data)
  BY <1>2, <1>3, <1>5 DEF Stream
<1>8. front \in Reading
  BY DEF IInv, FrontIsSound
<1>9. CASE HandlerReadWraps(b)
  <2>1. UseStream(stream, HeadMoved)
    BY <1>6, <1>9 DEF HandlerReadWraps
  <2>2. HeadMoved \in Reading /\ HeadMoved.moved
    BY EmptySeq DEF HeadMoved, Reading
  <2> HIDE DEF stream
  <2> QED BY <1>1, <1>7, <2>1, <2>2, UseStreamIInv
<1>10. CASE HandlerReads(b) /\ front.moved
  <2>1. UseStream(stream, front)
    BY <1>6, <1>10 DEF HandlerReads
  <2> HIDE DEF stream
  <2> QED BY <1>1, <1>7, <1>8, <1>10, <2>1, UseStreamIInv
<1>11. CASE HandlerReads(b) /\ ~front.moved
  <2> DEFINE read == [seen |-> front.seen \o SubSeq(data, head + 1, head + b), moved |-> FALSE]
  <2>1. head + b < UInt32Range
    BY <1>2, <1>3, <1>11, Bounds DEF HandlerReads, Wraps
  <2>2. to = head + b
    BY <1>3, <1>4, <2>1, Remainder
  <2>3. PICK seen \in Seq(Byte) : front = [seen |-> seen, moved |-> FALSE]
    BY <1>8, <1>11 DEF Reading
  <2>4. [front EXCEPT !.seen = @ \o NextBytes(FirstStream, b)] = read
    <3>1. NextBytes(FirstStream, b) = SubSeq(data, head + 1, head + b)
      BY <1>2 DEF NextBytes
    <3>2. PICK x : x = front.seen \o NextBytes(FirstStream, b)
      OBVIOUS
    <3>3. [front EXCEPT !.seen = @ \o NextBytes(FirstStream, b)] = [front EXCEPT !.seen = x]
      BY <3>2
    <3>4. [front EXCEPT !.seen = x] = [seen |-> x, moved |-> FALSE]
      <4>1. \A f \in Reading : [f EXCEPT !.seen = x] = [seen |-> x, moved |-> f.moved]
        BY DEF Reading
      <4>2. front.moved = FALSE
        BY <2>3
      <4> QED BY <1>8, <4>1, <4>2, Zenon
    <3> QED BY <3>1, <3>2, <3>3, <3>4
  <2>5. UseStream(stream, read)
    BY <1>6, <1>11, <2>4 DEF HandlerReads
  <2>6. front.seen = SubSeq(data, 1, head)
    BY <1>1, <1>2, <1>11, FirstPacket DEF IInv, FrontIsSound
  <2>7. read.seen = SubSeq(data, 1, to)
    <3>1. head <= to /\ to <= Len(data)
      BY <1>2, <1>3, <1>5, <2>2
    <3>2. SubSeq(data, 1, head) \o SubSeq(data, head + 1, to) = SubSeq(data, 1, to)
      BY <3>1, PartsJoin
    <3> QED BY <2>2, <2>6, <3>2
  <2>8. read \in Reading
    <3>1. SubSeq(data, 1, to) \in Seq(Byte)
      BY <1>2, <1>3, <1>5, FirstPart
    <3> QED BY <2>7, <3>1 DEF Reading
  <2>9. ~read.moved => read.seen = SubSeq(stream.data, 1, stream.head)
    BY <2>7
  <2> HIDE DEF stream, read
  <2> QED BY <1>1, <1>7, <2>5, <2>8, <2>9, UseStreamIInv
<1> QED BY <1>9, <1>10, <1>11

LEMMA StreamSetIInv ==
  ASSUME IInv,
         HandlerResetsHead \/ \E capacity \in 0..PacketSize : HandlerSetsCapacity(capacity)
  PROVE  IInv'
<1>1. phase = "handling"
  BY DEF HandlerResetsHead, HandlerSetsCapacity
<1>2. PICK data \in Seq(Byte), head \in Nat, capacity \in Nat :
        /\ FirstStream = [data |-> data, head |-> head, capacity |-> capacity]
        /\ head <= Len(data) /\ capacity <= Len(data)
  BY <1>1, FirstPacket DEF Stream, PacketIsSound
<1>3. Len(data) \in Nat
  BY LenProperties
<1>4. CASE HandlerResetsHead
  <2> DEFINE stream == [data |-> data, head |-> 0, capacity |-> capacity]
  <2>1. ResetHead(FirstStream) = stream
    BY <1>2 DEF ResetHead
  <2>2. UseStream(stream, HeadMoved)
    BY <1>4, <2>1 DEF HandlerResetsHead
  <2>3. /\ stream \in Stream /\ stream.data = FirstStream.data
        /\ stream.head <= Len(stream.data) /\ stream.capacity <= Len(stream.data)
    BY <1>2, <1>3 DEF Stream
  <2>4. HeadMoved \in Reading /\ HeadMoved.moved
    BY EmptySeq DEF HeadMoved, Reading
  <2> HIDE DEF stream
  <2> QED BY <1>1, <2>2, <2>3, <2>4, UseStreamIInv
<1>5. ASSUME NEW new \in 0..PacketSize, HandlerSetsCapacity(new)
      PROVE  IInv'
  <2> DEFINE stream == [data |-> data, head |-> head, capacity |-> new]
  <2>1. SetCapacity(FirstStream, new) = stream /\ new <= Len(data) /\ new \in Nat
    BY <1>2, <1>5, Bounds DEF SetCapacity, HandlerSetsCapacity
  <2>2. UseStream(stream, front)
    BY <1>5, <2>1 DEF HandlerSetsCapacity
  <2>3. /\ stream \in Stream /\ stream.data = FirstStream.data
        /\ stream.head <= Len(stream.data) /\ stream.capacity <= Len(stream.data)
    BY <1>2, <1>3, <2>1 DEF Stream
  <2>4. front \in Reading /\ (~front.moved => front.seen = SubSeq(stream.data, 1, stream.head))
    BY <1>1, <1>2, FirstPacket DEF IInv, FrontIsSound
  <2> HIDE DEF stream
  <2> QED BY <1>1, <2>2, <2>3, <2>4, UseStreamIInv
<1> QED BY <1>4, <1>5

-----------------------------------------------------------------------------
(* The end of a call: a packet leaves the queue when it has returned. *)

LEMMA CallEnds ==
  ASSUME IInv, phase = "handling", NEW returned \in BOOLEAN
  PROVE  /\ Ended(returned) \in PacketCall
         /\ Ended(returned).returned = returned
         /\ Ended(returned).from = queue[1].from /\ Ended(returned).bytes = queue[1].stream.data
         /\ ~Ended(returned).moved => IsPrefix(Ended(returned).seen, Ended(returned).bytes)
<1>1. PICK p \in Packet : p = queue[1] /\ PacketIsSound(p) /\ Head(queue) = p /\ FirstStream = p.stream
  BY FirstPacket
<1>2. PICK data \in Seq(Byte), head \in Nat : data = p.stream.data /\ head = p.stream.head /\ head <= Len(data)
  BY <1>1 DEF Packet, Stream, PacketIsSound
<1>3. PICK seen \in Seq(Byte), moved \in BOOLEAN : front = [seen |-> seen, moved |-> moved]
  BY DEF IInv, FrontIsSound, Reading
<1>4. Ended(returned) = [from |-> p.from, bytes |-> data, seen |-> seen, moved |-> moved, returned |-> returned]
  BY <1>1, <1>2, <1>3 DEF Ended
<1>5. ~moved => IsPrefix(seen, data)
  <2> SUFFICES ASSUME ~moved PROVE IsPrefix(seen, data)
    OBVIOUS
  <2>1. seen = SubSeq(data, 1, head)
    BY <1>1, <1>2, <1>3, FirstPacket DEF IInv, FrontIsSound
  <2> QED BY <1>2, <2>1, FirstPart
<1>6. p.from \in Sender
  BY DEF Packet
<1> QED BY <1>1, <1>2, <1>4, <1>5, <1>6 DEF PacketCall

(* What one more call adds to the history. *)
LEMMA HistoryIInv ==
  ASSUME IInv, phase = "handling", NEW returned \in BOOLEAN,
         handled' = Append(handled, Ended(returned)), taken' = taken
  PROVE  HistoryIsSound' /\ CallsReadOn'
<1>1. PICK n \in Nat : n = Len(handled)
  BY LenProperties DEF IInv, HistoryIsSound
<1>2. PICK c \in PacketCall : c = Ended(returned) /\ (~c.moved => IsPrefix(c.seen, c.bytes))
  BY CallEnds
<1>3. /\ handled' \in Seq(PacketCall) /\ Len(handled') = n + 1
      /\ \A i \in 1..n : handled'[i] = handled[i]
      /\ handled'[n + 1] = c
  BY <1>1, <1>2, ReturnedAfterCall DEF IInv
<1>4. HistoryIsSound'
  BY <1>3 DEF IInv, HistoryIsSound
<1>5. \A i \in 1..(n + 1) : i \in 1..n \/ i = n + 1
  OBVIOUS
<1>6. ASSUME NEW i \in 1..(n + 1), ~handled'[i].moved
      PROVE  IsPrefix(handled'[i].seen, handled'[i].bytes)
  <2>1. CASE i \in 1..n
    BY <1>1, <1>3, <1>6, <2>1 DEF IInv, CallsReadOn
  <2>2. CASE i = n + 1
    BY <1>2, <1>3, <1>6, <2>2
  <2> QED BY <1>5, <2>1, <2>2
<1> QED BY <1>3, <1>4, <1>6 DEF CallsReadOn

LEMMA ReturnsIInv ==
  ASSUME IInv, HandlerReturns
  PROVE  IInv'
<1> USE DEF IInv
<1>1. /\ phase = "handling" /\ phase' = "processing"
      /\ handled' = Append(handled, Ended(TRUE))
      /\ queue' = Tail(queue) /\ front' = Untouched
      /\ UNCHANGED <<socket, now, count, inputStream, taken>>
  BY DEF HandlerReturns
<1>2. PICK m \in Nat \ {0} : m = Len(queue) /\ 1 \in 1..m /\ DOMAIN queue = 1..m /\ queue # <<>>
  BY <1>1, FirstPacket
<1>3. /\ queue' \in Seq(Packet) /\ Len(queue') = m - 1
      /\ \A k \in 1..(m - 1) : queue'[k] = queue[k + 1]
  BY <1>1, <1>2, HeadTailProperties DEF QueueIsSound
<1>4. PICK h \in PacketCall : /\ h = Ended(TRUE) /\ h.returned
                              /\ h.from = queue[1].from /\ h.bytes = queue[1].stream.data
  BY <1>1, CallEnds
<1>5. PICK n \in Nat : n = Len(handled)
  BY LenProperties DEF HistoryIsSound
<1>6. /\ handled' \in Seq(PacketCall) /\ Len(handled') = n + 1
      /\ \A i \in 1..n : handled'[i] = handled[i] /\ Returned(i)' = Returned(i)
      /\ handled'[n + 1] = h
      /\ Returned(n + 1)' = Returned(n) \cup {n + 1}
  BY <1>1, <1>4, <1>5, ReturnedAfterCall
<1>7. FrameIsSound' /\ BufferIsSound'
  BY <1>1 DEF FrameIsSound, BufferIsSound
<1>8. HistoryIsSound' /\ CallsReadOn'
  BY <1>1, HistoryIInv
<1>9. ThrownAtIsFirst'
  BY <1>4, <1>6 DEF ThrownAtIsFirst
<1>10. \A k \in 1..(m - 1) : k + 1 \in 1..m /\ k + 1 \in 2..m
  OBVIOUS
<1>11. QueueIsSound'
  <2>1. \A k \in 1..m : PacketIsSound(queue[k])
    BY <1>2 DEF QueueIsSound
  <2>2. \A k \in 1..Len(queue') : PacketIsSound(queue'[k])
    BY <1>3, <1>10, <2>1
  <2> QED BY <1>1, <1>3, <2>2 DEF QueueIsSound, PacketIsSound
<1>12. FrontIsSound'
  <2>1. \A k \in 1..(m - 1) : queue'[k].stream.head = 0
    BY <1>2, <1>3, <1>10 DEF FrontIsSound
  <2>2. Untouched \in Reading /\ Untouched.seen = <<>>
    BY EmptySeq DEF Untouched, Reading
  <2>3. \A k \in 2..(m - 1) : k \in 1..(m - 1)
    OBVIOUS
  <2>4. ASSUME queue' # <<>> PROVE queue'[1].stream.head = 0
    <3>1. 1 \in 1..(m - 1)
      BY <1>3, <2>4, EmptySeq
    <3> QED BY <2>1, <3>1
  <2>5. \A s : SubSeq(s, 1, 0) = <<>>
    BY SubSeqEmpty
  <2> QED BY <1>1, <1>3, <2>1, <2>2, <2>3, <2>4, <2>5 DEF FrontIsSound
<1>13. HandledInOrder'
  <2>1. PICK c \in Nat : c = Cardinality(Returned(n))
    BY ReturnedIsFinite
  <2>2. /\ Len(taken) = c + m
        /\ \A i \in Returned(n) :
             IsPacketOf(handled[i].from, handled[i].bytes, taken[Cardinality(Returned(i))])
        /\ \A k \in 1..m : IsPacketOf(queue[k].from, queue[k].stream.data, taken[c + k])
    BY <1>2, <1>5, <2>1 DEF HandledInOrder
  <2>3. n + 1 \notin Returned(n) /\ \A i \in Returned(n) : i \in 1..n
    BY DEF Returned
  <2>4. Cardinality(Returned(n + 1)') = c + 1
    <3>1. IsFiniteSet(Returned(n))
      BY ReturnedIsFinite
    <3> QED BY <1>6, <2>1, <2>3, <3>1, FS_AddElement
  <2>5. ASSUME NEW i \in Returned(n + 1)'
        PROVE  IsPacketOf(handled'[i].from, handled'[i].bytes, taken[Cardinality(Returned(i)')])
    <3>1. CASE i \in Returned(n)
      <4>1. handled'[i] = handled[i] /\ Returned(i)' = Returned(i)
        BY <1>6, <2>3, <3>1
      <4> QED BY <2>2, <3>1, <4>1
    <3>2. CASE i = n + 1
      BY <1>2, <1>4, <1>6, <2>2, <2>4, <3>2
    <3> QED BY <1>6, <3>1, <3>2
  <2>6. ASSUME NEW k \in 1..(m - 1)
        PROVE  IsPacketOf(queue'[k].from, queue'[k].stream.data, taken[(c + 1) + k])
    <3>1. (c + 1) + k = c + (k + 1)
      OBVIOUS
    <3> QED BY <1>3, <1>10, <2>2, <3>1
  <2>7. DOMAIN queue' = 1..(m - 1) /\ Len(taken) = (c + 1) + Len(queue')
    BY <1>3, <2>2, LenProperties
  <2>8. DeliveredNext
    BY <1>1, <1>6, <2>4, <2>5, <2>6, <2>7 DEF DeliveredNext
  <2> QED BY <2>8, OrderNext
<1> QED BY <1>7, <1>8, <1>9, <1>11, <1>12, <1>13

LEMMA ThrowsIInv ==
  ASSUME IInv, HandlerThrows
  PROVE  IInv'
<1> USE DEF IInv
<1>1. /\ phase = "handling" /\ phase' = "idle"
      /\ handled' = Append(handled, Ended(FALSE))
      /\ UNCHANGED <<socket, now, count, inputStream, queue, front, taken>>
  BY DEF HandlerThrows, Throw
<1>2. PICK h \in PacketCall : /\ h = Ended(FALSE) /\ ~h.returned
                              /\ h.from = queue[1].from /\ h.bytes = queue[1].stream.data
  BY <1>1, CallEnds
<1>3. PICK n \in Nat : n = Len(handled)
  BY LenProperties DEF HistoryIsSound
<1>4. /\ handled' \in Seq(PacketCall) /\ Len(handled') = n + 1
      /\ \A i \in 1..n : handled'[i] = handled[i] /\ Returned(i)' = Returned(i)
      /\ handled'[n + 1] = h
      /\ Returned(n + 1)' = Returned(n)
  BY <1>1, <1>2, <1>3, ReturnedAfterCall
<1>5. FrameIsSound' /\ BufferIsSound' /\ QueueIsSound' /\ FrontIsSound'
  BY <1>1 DEF FrameIsSound, BufferIsSound, QueueIsSound, PacketIsSound, FrontIsSound
<1>6. HistoryIsSound' /\ CallsReadOn'
  BY <1>1, HistoryIInv
<1>7. ThrownAtIsFirst'
  BY <1>1, <1>2, <1>4, FirstPacket DEF ThrownAtIsFirst
<1>8. HandledInOrder'
  <2>1. \A i \in Returned(n) : i \in 1..n
    BY DEF Returned
  <2>2. \A i \in Returned(n) : handled'[i] = handled[i] /\ Returned(i)' = Returned(i)
    BY <1>4, <2>1
  <2>3. /\ Len(taken) = Cardinality(Returned(n)) + Len(queue)
        /\ \A i \in Returned(n) :
             IsPacketOf(handled[i].from, handled[i].bytes, taken[Cardinality(Returned(i))])
        /\ \A k \in DOMAIN queue :
             IsPacketOf(queue[k].from, queue[k].stream.data, taken[Cardinality(Returned(n)) + k])
    BY <1>3 DEF HandledInOrder
  <2>4. DeliveredNext
    BY <1>1, <1>4, <2>2, <2>3 DEF DeliveredNext
  <2> QED BY <2>4, OrderNext
<1> QED BY <1>5, <1>6, <1>7, <1>8

-----------------------------------------------------------------------------
(* The theorems. *)

(* Every step keeps the invariant. *)
THEOREM InductiveInvariant == Spec => []IInv
<1>1. ASSUME IInv, Next PROVE IInv'
  <2>1. CASE \E d \in Datagrams : Arrive(d)
    BY <1>1, <2>1, ArriveIInv
  <2>2. CASE Tick
    BY <1>1, <2>2, TickIInv
  <2>3. CASE BeginFrame \/ StopAtMaximum \/ Call \/ EndFrame
    BY <1>1, <2>3, PhaseIInv
  <2>4. CASE \E d \in Datagrams : Receive(d)
    BY <1>1, <2>4, ReceiveIInv
  <2>5. CASE ReceiveEmpty
    BY <1>1, <2>5, ReceiveEmptyIInv
  <2>6. CASE ReceiveThrows
    BY <1>1, <2>6, StutterIInv DEF ReceiveThrows
  <2>7. CASE \E n \in Counts : HandlerReads(n) \/ HandlerReadWraps(n)
    BY <1>1, <2>7, ReadsIInv
  <2>8. CASE HandlerResetsHead \/ \E capacity \in 0..PacketSize : HandlerSetsCapacity(capacity)
    BY <1>1, <2>8, StreamSetIInv
  <2>9. CASE HandlerReturns
    BY <1>1, <2>9, ReturnsIInv
  <2>10. CASE HandlerThrows
    BY <1>1, <2>10, ThrowsIInv
  <2> QED BY <1>1, <2>1, <2>2, <2>3, <2>4, <2>5, <2>6, <2>7, <2>8, <2>9, <2>10 DEF Next, Read, Handler
<1>2. IInv /\ [Next]_vars => IInv'
  BY <1>1, StutterIInv
<1> QED BY InitIInv, <1>2, PTL DEF Spec

(* The state stays well formed, a frame puts no more into the queue than the *)
(* maximum allows, and no stream's head or capacity is behind its bytes.     *)
LEMMA IInvTypeOK == IInv => TypeOK
<1> SUFFICES ASSUME IInv PROVE TypeOK
  OBVIOUS
<1> USE DEF IInv
<1>1. /\ inputStream.capacity \in 1..PacketSize /\ inputStream.head = 0
      /\ DOMAIN inputStream.data = 1..PacketSize
  BY DEF BufferIsSound
<1>2. queue \in Seq(Packet) /\ Len(queue) \in Nat /\ DOMAIN queue = 1..Len(queue)
  BY LenProperties DEF QueueIsSound
<1>3. Len(queue) <= Len(taken)
  <2>1. PICK c \in Nat : Len(taken) = c + Len(queue)
    <3>1. Len(handled) \in Nat
      BY LenProperties DEF HistoryIsSound
    <3> QED BY <3>1, ReturnedIsFinite DEF HandledInOrder
  <2> QED BY <1>2, <2>1
<1>4. ASSUME NEW i \in DOMAIN queue
      PROVE  /\ queue[i].time <= now
             /\ queue[i].stream.head \in 0..Len(queue[i].stream.data)
             /\ queue[i].stream.capacity \in 0..Len(queue[i].stream.data)
  <2>1. PICK p \in Packet : p = queue[i] /\ PacketIsSound(p)
    BY <1>2, ElementOfSeq DEF QueueIsSound
  <2>2. p.stream.head \in Nat /\ p.stream.capacity \in Nat /\ p.stream.data \in Seq(Byte)
    BY DEF Packet, Stream
  <2>3. Len(p.stream.data) \in Nat
    BY <2>2, LenProperties
  <2> QED BY <2>1, <2>2, <2>3 DEF PacketIsSound
<1> QED BY <1>1, <1>3, <1>4 DEF TypeOK, FrameIsSound

THEOREM TypeCorrect == Spec => []TypeOK
BY InductiveInvariant, IInvTypeOK, PTL

(* What has been handled and what waits in the queue are together, in this   *)
(* order, what was received, for any datagrams and any throwing handler.     *)
THEOREM HandledCorrect == Spec => []HandledInOrder
<1>1. IInv => HandledInOrder
  BY DEF IInv
<1> QED BY <1>1, InductiveInvariant, PTL

(* The call that follows one that threw is for the same packet. *)
LEMMA StepOvertakesNone ==
  IInv /\ [Next]_vars =>
    \A i \in DOMAIN handled :
        /\ i = Len(handled) /\ ~handled[i].returned /\ Len(handled') = i + 1
        => handled'[i + 1].bytes = handled[i].bytes /\ handled'[i + 1].from = handled[i].from
<1> SUFFICES ASSUME IInv, [Next]_vars,
                    NEW i \in DOMAIN handled, i = Len(handled), ~handled[i].returned,
                    Len(handled') = i + 1
             PROVE  handled'[i + 1].bytes = handled[i].bytes /\ handled'[i + 1].from = handled[i].from
  OBVIOUS
<1>1. handled \in Seq(PacketCall) /\ i \in Nat /\ handled # <<>>
  BY LenProperties DEF IInv, HistoryIsSound
<1>2. handled' # handled
  BY <1>1
<1>3. HandlerReturns \/ HandlerThrows
  BY <1>2 DEF Next, vars, Arrive, Tick, BeginFrame, Read, Call, EndFrame, Receive, ReceiveInto,
              ReceiveEmpty, ReceiveThrows, StopAtMaximum, Handler, HandlerReads, HandlerReadWraps,
              HandlerResetsHead, HandlerSetsCapacity, UseStream
<1>4. queue[1].stream.data = handled[i].bytes /\ queue[1].from = handled[i].from
  BY <1>1 DEF IInv, ThrownAtIsFirst
<1>5. PICK returned \in BOOLEAN : phase = "handling" /\ handled' = Append(handled, Ended(returned))
  BY <1>3 DEF HandlerReturns, HandlerThrows, Throw
<1>6. PICK h \in PacketCall : /\ h = Ended(returned)
                              /\ h.from = queue[1].from /\ h.bytes = queue[1].stream.data
  BY <1>5, CallEnds
<1>7. handled'[i + 1] = h
  BY <1>1, <1>5, <1>6, AppendProperties
<1> QED BY <1>4, <1>6, <1>7

(* No packet is handled before one that processPacket threw at earlier. *)
THEOREM OvertakingCorrect == Spec => NoOvertaking
BY InductiveInvariant, StepOvertakesNone, PTL DEF Spec, NoOvertaking

(* However often processPacket throws, and whatever counts it gives to read, *)
(* the calls for one packet read it from its first byte on, none twice, as   *)
(* long as no handler resets the head and no count wraps.                    *)
THEOREM ReadsCorrect == Spec => []ReadsFollowUpon
<1>1. IInv => ReadsFollowUpon
  <2> SUFFICES ASSUME IInv PROVE ReadsFollowUpon
    OBVIOUS
  <2>1. DOMAIN handled = 1..Len(handled)
    BY LenProperties DEF IInv, HistoryIsSound
  <2>2. queue # <<>> => FirstStream = queue[1].stream
    BY DEF IInv, QueueIsSound, FirstStream
  <2> QED BY <2>1, <2>2 DEF IInv, CallsReadOn, FrontIsSound, ReadsFollowUpon
<1> QED BY <1>1, InductiveInvariant, PTL

=============================================================================
