--------------------------- MODULE MCSerialization ---------------------------
(* Serialization on a small instance. *)
EXTENDS Serialization
=============================================================================
