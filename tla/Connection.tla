------------------------------ MODULE Connection ------------------------------
(***************************************************************************)
(* evnt::Connection (src/network/connection.h, .cpp): each frame reads     *)
(* datagrams from a socket into a queue of packets, through one static     *)
(* buffer, and then handles the packets that are old enough.               *)
(*                                                                         *)
(* The socket is boost's: receive_from waits for a datagram, or throws.    *)
(***************************************************************************)
EXTENDS MemoryStream, SequencesExt

CONSTANTS Datagrams,                \* records of a sender and a sequence of bytes, that may be empty
          PacketSize,               \* bytes of the buffer
          Zero,                     \* the byte that a new buffer is filled with
          kMaxPacketsPerFrameCount,
          StartTime,                \* the clock when the Connection is made, in milliseconds
          MaxArrivals,              \* bound of the model: datagrams that arrive
          MaxTime,                  \* bound of the model: the last millisecond
          MaxThrows                 \* bound of the model: calls of processPacket that throw

ASSUME ConnectionAssumption ==
  /\ \A d \in Datagrams : d = [from |-> d.from, bytes |-> d.bytes] /\ d.bytes \in Seq(Range(d.bytes))
  /\ PacketSize \in Nat \ {0}
  /\ PacketSize < UInt32Range
  /\ kMaxPacketsPerFrameCount \in Nat \ {0}
  /\ MaxArrivals \in Nat /\ MaxThrows \in Nat
  /\ StartTime \in Nat /\ MaxTime \in Nat /\ StartTime <= MaxTime

VARIABLES
  socket,      \* datagrams that have arrived and are not read
  arrivals,
  now,         \* GetMilisecFromStart
  phase,       \* idle, reading, processing, or handling: inside of processPacket
  count,       \* receivedPackedCount
  inputStream, \* the static stream
  queue,       \* mPacketQueue: received time, sender and the packet's own stream
  taken,       \* the datagrams that became packets so far, whole (for the properties)
  front,       \* what processPacket has read of the first packet so far, and whether the
               \* head was moved in another way than by reading on (for the properties)
  handled,     \* the calls of processPacket so far: the packet, what it and the calls
               \* before it have read of the packet, and whether it returned
  throws

vars == <<socket, arrivals, now, phase, count, inputStream, queue, taken, front, handled, throws>>

Untouched == [seen |-> <<>>, moved |-> FALSE]
HeadMoved == [seen |-> <<>>, moved |-> TRUE]

Init ==
  /\ socket = <<>>
  /\ arrivals = 0
  /\ now = StartTime
  /\ phase = "idle"
  /\ count = 0
  /\ inputStream = NewInput([i \in 1..PacketSize |-> Zero])
  /\ queue = <<>>
  /\ taken = <<>>
  /\ front = Untouched
  /\ handled = <<>>
  /\ throws = 0

Arrive(d) ==
  /\ arrivals < MaxArrivals
  /\ arrivals' = arrivals + 1
  /\ socket' = Append(socket, d)
  /\ UNCHANGED <<now, phase, count, inputStream, queue, taken, front, handled, throws>>

Tick ==
  /\ now < MaxTime
  /\ now' = now + 1
  /\ UNCHANGED <<socket, arrivals, phase, count, inputStream, queue, taken, front, handled, throws>>

BeginFrame ==
  /\ phase = "idle"
  /\ phase' = "reading"
  /\ count' = 0
  /\ UNCHANGED <<socket, arrivals, now, inputStream, queue, taken, front, handled, throws>>

-----------------------------------------------------------------------------
(* readIncomingPacketsIntoQueue.                                             *)

\* Mutant: one packet more than the maximum.
MayReadOneMore == phase = "reading" /\ count <= kMaxPacketsPerFrameCount

MayRead == phase = "reading" /\ count < kMaxPacketsPerFrameCount

\* receive_from writes the datagram to the head of the buffer, as far as it fits.
Received(d) == SubSeq(d.bytes, 1, Min({Len(d.bytes), PacketSize}))

ReceiveInto(d, stream) ==
  /\ MayRead
  /\ socket # <<>>
  /\ d = Head(socket)
  /\ d.bytes # <<>>
  /\ socket' = Tail(socket)
  /\ inputStream' = ResetHead(stream)
  /\ queue' = Append(queue, [time |-> now % UInt32Range, from |-> d.from, stream |-> Copy(stream)])
  /\ taken' = Append(taken, d)
  /\ count' = count + 1
  /\ UNCHANGED <<arrivals, now, phase, front, handled, throws>>

\* Mutant: setCapacity is forgotten.
ReceiveWhole(d) == ReceiveInto(d, Overwrite(inputStream, Received(d)))

Receive(d) ==
  ReceiveInto(d, SetCapacity(Overwrite(inputStream, Received(d)), Len(Received(d))))

\* An empty datagram ends the reading, as "nothing to read" would.
ReceiveEmpty ==
  /\ MayRead
  /\ socket # <<>> /\ Head(socket).bytes = <<>>
  /\ socket' = Tail(socket)
  /\ phase' = "processing"
  /\ UNCHANGED <<arrivals, now, count, inputStream, queue, taken, front, handled, throws>>

(* An error is reported (a connection reset to handleConnectionReset, which   *)
(* does nothing unless overridden), and the loop goes on; it is not counted.  *)
ReceiveThrows == MayRead /\ UNCHANGED vars

StopAtMaximum ==
  /\ phase = "reading"
  /\ count = kMaxPacketsPerFrameCount
  /\ phase' = "processing"
  /\ UNCHANGED <<socket, arrivals, now, count, inputStream, queue, taken, front, handled, throws>>

-----------------------------------------------------------------------------
(* processQueuedPackets.                                                     *)

OldEnough == queue # <<>> /\ now > Head(queue).time

Call ==
  /\ phase = "processing"
  /\ OldEnough
  /\ phase' = "handling"
  /\ UNCHANGED <<socket, arrivals, now, count, inputStream, queue, taken, front, handled, throws>>

EndFrame ==
  /\ phase = "processing"
  /\ ~OldEnough
  /\ phase' = "idle"
  /\ UNCHANGED <<socket, arrivals, now, count, inputStream, queue, taken, front, handled, throws>>

(* The handler, which the application defines, works on the packet's own      *)
(* stream in the queue: it may read, reset the head and set the capacity, in  *)
(* any order, before it returns or throws, as the stream does when too much   *)
(* is asked of it.                                                            *)
FirstStream == Head(queue).stream

UseStream(stream, read) ==
  /\ queue' = [queue EXCEPT ![1].stream = stream]
  /\ front' = read
  /\ UNCHANGED <<socket, arrivals, now, phase, count, inputStream, taken, handled, throws>>

HandlerReads(n) ==
  /\ phase = "handling"
  /\ CanRead(FirstStream, n) /\ ~Wraps(FirstStream, n)
  /\ UseStream(AfterRead(FirstStream, n),
               IF front.moved THEN front ELSE [front EXCEPT !.seen = @ \o NextBytes(FirstStream, n)])

(* A count that wraps copies what lies behind the packet, which is undefined: *)
(* the process may end here, or go on with the head moved back.               *)
HandlerReadWraps(n) ==
  /\ phase = "handling"
  /\ CanRead(FirstStream, n) /\ Wraps(FirstStream, n)
  /\ UseStream(AfterRead(FirstStream, n), HeadMoved)

HandlerResetsHead == phase = "handling" /\ UseStream(ResetHead(FirstStream), HeadMoved)

\* Up to the bytes there are: more would make room for reads behind them.
HandlerSetsCapacity(capacity) ==
  /\ phase = "handling"
  /\ capacity <= Len(FirstStream.data)
  /\ UseStream(SetCapacity(FirstStream, capacity), front)

Ended(returned) == [from     |-> Head(queue).from,
                    bytes    |-> FirstStream.data,
                    seen     |-> front.seen,
                    moved    |-> front.moved,
                    returned |-> returned]

\* A packet leaves the queue when processPacket has returned.
HandlerReturns ==
  /\ phase = "handling"
  /\ phase' = "processing"
  /\ handled' = Append(handled, Ended(TRUE))
  /\ queue' = Tail(queue)
  /\ front' = Untouched
  /\ UNCHANGED <<socket, arrivals, now, count, inputStream, taken, throws>>

\* The exception leaves the frame too.
Throw ==
  /\ phase = "handling"
  /\ throws < MaxThrows
  /\ throws' = throws + 1
  /\ phase' = "idle"
  /\ handled' = Append(handled, Ended(FALSE))
  /\ UNCHANGED <<socket, arrivals, now, count, inputStream, taken>>

\* Mutant: the packet is taken out of the queue before it is processed.
ThrowsAfterPop == Throw /\ queue' = Tail(queue) /\ front' = Untouched

\* Mutant: the handler was given a copy of the packet's stream.
ThrowsWithCopy == Throw /\ queue' = [queue EXCEPT ![1].stream.head = 0] /\ UNCHANGED front

\* The packet stays for the next frame, with the head where the call left it.
HandlerThrows == Throw /\ UNCHANGED <<queue, front>>

-----------------------------------------------------------------------------
Read == (\E d \in Datagrams : Receive(d)) \/ ReceiveEmpty \/ ReceiveThrows \/ StopAtMaximum

Handler == \/ \E n \in Counts : HandlerReads(n) \/ HandlerReadWraps(n)
           \/ HandlerResetsHead
           \/ \E capacity \in 0..PacketSize : HandlerSetsCapacity(capacity)
           \/ HandlerReturns
           \/ HandlerThrows

Next == \/ \E d \in Datagrams : Arrive(d)
        \/ Tick \/ BeginFrame \/ Read \/ Call \/ EndFrame
        \/ Handler

Spec == Init /\ [][Next]_vars

\* The thread that runs the frames keeps running, each handler ends, and the clock goes on.
FairSpec == /\ Spec
            /\ WF_vars(BeginFrame) /\ WF_vars(Read) /\ WF_vars(Call) /\ WF_vars(EndFrame)
            /\ WF_vars(HandlerReturns)
            /\ WF_vars(Tick)

-----------------------------------------------------------------------------
(* Properties.                                                               *)

(* The types; a frame puts at most the maximum into the queue, and no stream's *)
(* head is ever behind its bytes.                                              *)
TypeOK ==
  /\ socket \in Seq(Datagrams)
  /\ now \in StartTime..MaxTime
  /\ phase \in {"idle", "reading", "processing", "handling"}
  /\ phase = "handling" => queue # <<>>
  /\ count \in 0..kMaxPacketsPerFrameCount
  /\ inputStream.capacity \in 1..PacketSize /\ inputStream.head = 0
  /\ DOMAIN inputStream.data = 1..PacketSize
  /\ Len(queue) <= Len(taken)
  /\ \A i \in DOMAIN queue :
       /\ queue[i].time <= now
       /\ queue[i].stream.head \in 0..Len(queue[i].stream.data)
       /\ queue[i].stream.capacity \in 0..Len(queue[i].stream.data)

\* The calls up to call i that have returned.
Returned(i) == {j \in 1..i : handled[j].returned}

\* What reaches the handler of a datagram: its sender, and its bytes as far as the buffer holds them.
IsPacketOf(from, bytes, d) ==
  /\ from = d.from
  /\ Len(bytes) = Min({Len(d.bytes), PacketSize})
  /\ bytes = SubSeq(d.bytes, 1, Len(bytes))

(* Every datagram is handled in the order it arrived, with its own sender and *)
(* bytes, and none is lost or handled twice with success: what has been       *)
(* handled and what waits in the queue are together what was received,        *)
(* although all packets came through one buffer, that still has the bytes of  *)
(* longer datagrams, and although processPacket may throw.  A datagram that   *)
(* is longer than the buffer loses its end, and nothing else does.            *)
HandledInOrder ==
  LET n == Cardinality(Returned(Len(handled)))
  IN  /\ Len(taken) = n + Len(queue)
      /\ \A i \in Returned(Len(handled)) :
           IsPacketOf(handled[i].from, handled[i].bytes, taken[Cardinality(Returned(i))])
      /\ \A k \in DOMAIN queue : IsPacketOf(queue[k].from, queue[k].stream.data, taken[n + k])

(* A packet that processPacket threw at is the next to be handled: nothing    *)
(* behind it is handled before it.                                            *)
NoOvertaking ==
  [][\A i \in DOMAIN handled :
        /\ i = Len(handled) /\ ~handled[i].returned /\ Len(handled') = i + 1
        => handled'[i + 1].bytes = handled[i].bytes /\ handled'[i + 1].from = handled[i].from]_vars

(* A frame that comes back to a packet goes on where the call that threw has  *)
(* stopped: what the calls for one packet read follows upon each other from   *)
(* the first byte on, none is read twice, and the packet's head is behind the *)
(* last one, unless a handler has reset the head or a count it gave wrapped.  *)
ReadsFollowUpon ==
  /\ \A i \in DOMAIN handled : ~handled[i].moved => IsPrefix(handled[i].seen, handled[i].bytes)
  /\ queue # <<>> /\ ~front.moved => front.seen = SubSeq(FirstStream.data, 1, FirstStream.head)

(* A frame's reading ends, also when no datagram arrives: "keep reading until *)
(* we don't have anything to read (or we hit a max number that we'll process  *)
(* per frame)".                                                               *)
ReadingEnds == phase = "reading" ~> phase # "reading"

=============================================================================
