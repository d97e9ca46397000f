--------------------------- MODULE MCObjectManager ---------------------------
(* ObjectManager on a small instance. *)
EXTENDS ObjectManager
=============================================================================
