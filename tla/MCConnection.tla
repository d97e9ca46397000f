----------------------------- MODULE MCConnection -----------------------------
(* Connection on a small instance: datagrams of no byte and of one byte, and of one more
   byte than the buffer has from another sender. *)
EXTENDS Connection
CONSTANTS b1, b2, near, far
SomeDatagrams == {[from |-> near, bytes |-> <<>>], [from |-> near, bytes |-> <<b1>>],
                  [from |-> far, bytes |-> <<b2, b1, b1>>]}
=============================================================================
