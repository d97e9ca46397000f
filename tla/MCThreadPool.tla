---------------------------- MODULE MCThreadPool ----------------------------
(* ThreadPool on a small instance; the values are in MCThreadPool.cfg. *)
EXTENDS ThreadPool
=============================================================================
