------------------------------- MODULE Config -------------------------------
(***************************************************************************)
(* The configuration as far as a reload tells its fields apart             *)
(* (config/reload.rs): the fields bound at startup, and the rest, of which *)
(* only the clusters and their nodes matter here.  Constant-level          *)
(* operators: who holds a configuration is the business of the modules     *)
(* that extend this one.                                                   *)
(***************************************************************************)
EXTENDS Sequences, Naturals

CONSTANTS
  Files,    \* the configurations the file may hold
  Broken    \* a file that cannot be read, parsed or validated

\* The fields requires_restart compares, in its order.
StartupFields == <<"server.listen", "server.pgpass", "server.workers",
                   "admin.listen", "otel.endpoint", "otel.service_name",
                   "logging.format", "logging.level">>

ASSUME ConfigAssumption ==
  /\ Broken \notin Files
  /\ \A f \in Files :
       f.startup = [i \in 1 .. Len(StartupFields) |-> f.startup[i]]

\* Mutant: the last field is forgotten.
DifferingButLast(old, new) ==
  {i \in 1 .. Len(StartupFields) - 1 : old.startup[i] # new.startup[i]}

Differing(old, new) ==
  {i \in 1 .. Len(StartupFields) : old.startup[i] # new.startup[i]}

\* requires_restart: the first field that differs, if one does.
RequiresRestart(old, new) ==
  {StartupFields[i] : i \in {j \in Differing(old, new) :
                               \A k \in Differing(old, new) : j <= k}}

\* reload_config: what became of the attempt, and the configuration after it.
Outcome(file, config) ==
  IF file = Broken THEN "parse_failed"
  ELSE IF RequiresRestart(config, file) # {} THEN "restart_required"
  ELSE "success"

Reloaded(file, config) ==
  IF Outcome(file, config) = "success" THEN file ELSE config
=============================================================================
