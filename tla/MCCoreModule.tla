---------------------------- MODULE MCCoreModule ----------------------------
(* CoreModule on a small instance: the log as the repository's config.json has
   it, in a file only, and on the console only. *)
EXTENDS CoreModule
SomeConfigs == {[output |-> "all", severity |-> "all"],
                [output |-> "file", severity |-> "error"],
                [output |-> "console", severity |-> "warning"]}
=============================================================================
