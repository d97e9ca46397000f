--------------------------------- MODULE Log ---------------------------------
(***************************************************************************)
(* evnt::Log's set-up (src/log/log.cpp): the sinks that InitBoostLog adds  *)
(* to boost's logging core and the severity that SetSeverityFilter puts on *)
(* them.  A record passes a sink if its severity is not below the filter.  *)
(* Formatting and output of records are boost's.                           *)
(***************************************************************************)
EXTENDS Integers

VARIABLES
  g_output,  \* all, console or file
  g_sink,    \* per kind, g_sink_f or g_sink_c points to a sink that the logging core has
  sinks,     \* per kind, the number of sinks that the logging core has
  filter     \* per kind, the severity filter of the sink made last, or "none"

logVars == <<g_output, g_sink, sinks, filter>>

Kinds      == {"file", "console"}
Severities == {"notification", "warning", "error"}

(* What is not the name of a severity or of an output means the lowest, and   *)
(* all of them.                                                               *)
ConvertStrToSeverity(text) == IF text \in {"warning", "error"} THEN text ELSE "notification"
ConvertStrToOutput(text)   == IF text \in {"console", "file"} THEN text ELSE "all"

KindsOf(output) == {k \in Kinds : output \in {"all", k}}

LogInit ==
  /\ g_output = "all"
  /\ g_sink = [k \in Kinds |-> FALSE]
  /\ sinks = [k \in Kinds |-> 0]
  /\ filter = [k \in Kinds |-> "none"]

One(b) == IF b THEN 1 ELSE 0

\* Mutant: the sinks of an earlier call stay in the core.
RenewKeepsSinks(output, made) ==
  /\ g_output' = output
  /\ g_sink' = [k \in Kinds |-> k \in made]
  /\ sinks' = [k \in Kinds |-> sinks[k] + One(k \in made)]
  /\ filter' = [k \in Kinds |-> IF k \in made THEN "none" ELSE filter[k]]

(* InitBoostLog takes the two sinks it knows out of the core (remove_sink of  *)
(* one that is not there does nothing), then makes a sink of each kind in     *)
(* made, which the core gets (add_file_log adds the file's itself, and the    *)
(* second add_sink of it does nothing), without a filter.                     *)
Renew(output, made) ==
  /\ g_output' = output
  /\ g_sink' = [k \in Kinds |-> k \in made]
  /\ sinks' = [k \in Kinds |-> sinks[k] - One(g_sink[k]) + One(k \in made)]
  /\ filter' = [k \in Kinds |-> IF k \in made THEN "none" ELSE filter[k]]

InitBoostLog(output) == Renew(output, KindsOf(output))

(* An exception, of an allocation, the file or a locale: no sink is made, or  *)
(* the file's alone, or all of them and the formatters or attributes fail.    *)
InitBoostLogThrows(output) ==
  \E made \in {{}, {"file"}, KindsOf(output)} : made \subseteq KindsOf(output) /\ Renew(output, made)

Filters(severity, kinds) ==
  /\ filter' = [k \in Kinds |-> IF k \in kinds THEN severity ELSE filter[k]]
  /\ UNCHANGED <<g_output, g_sink, sinks>>

SetSeverityFilter(severity) == Filters(severity, KindsOf(g_output))

\* The file's filter is set before the console's.
SetSeverityFilterThrows(severity) ==
  \E kinds \in {{}, {"file"}} : kinds \subseteq KindsOf(g_output) /\ Filters(severity, kinds)

=============================================================================
