---------------------------- MODULE MemoryStream ----------------------------
(***************************************************************************)
(* evnt::OutputMemoryStream and evnt::InputMemoryStream                    *)
(* (src/core/memory_stream.h, .cpp) as values with operators: the modules  *)
(* that own an input stream keep it in a variable of theirs.  (An output   *)
(* stream is the sequence of what was written.)                            *)
(***************************************************************************)
EXTENDS Integers, Sequences

CONSTANT UInt32Range     \* 2^32: the head after a read is computed in 32 bits

ASSUME UInt32RangeAssumption == UInt32Range \in Nat \ {0}

\* An input stream over a buffer of its own, all of it readable.
NewInput(buffer) == [data |-> buffer, head |-> 0, capacity |-> Len(buffer)]

\* A copy has as many bytes as the capacity says, and the same head.
Copy(in) == [in EXCEPT !.data = SubSeq(@, 1, in.capacity)]

ResetHead(in)             == [in EXCEPT !.head = 0]
SetCapacity(in, capacity) == [in EXCEPT !.capacity = capacity]

getRemainingDataSize(in) == in.capacity - in.head

\* What another party stores at getCurPosPtr().
Overwrite(in, data) ==
  [in EXCEPT !.data = [i \in DOMAIN @ |-> IF i - in.head \in DOMAIN data THEN data[i - in.head] ELSE @[i]]]

(* read: it throws range_error and leaves the head where it is, or it hands  *)
(* out the next n bytes and moves the head, also of a const stream.  The     *)
(* count is any 32-bit number (a string's is read from the stream): with a   *)
(* sum that wraps, the head moves back, and the bytes are not the stream's.  *)
Counts            == 0..(UInt32Range - 1)
Wraps(in, n)      == in.head + n >= UInt32Range
ResultHead(in, n) == (in.head + n) % UInt32Range
CanRead(in, n)    == ResultHead(in, n) <= in.capacity
NextBytes(in, n)  == SubSeq(in.data, in.head + 1, in.head + n)
AfterRead(in, n)  == [in EXCEPT !.head = ResultHead(in, n)]

=============================================================================
