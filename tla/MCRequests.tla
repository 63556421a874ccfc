----------------------------- MODULE MCRequests -----------------------------
(***************************************************************************)
(* Small instances of the components around jobs and users: executions and *)
(* their triggers, the alert rules for those that fail, the log check of a *)
(* cron job, sessions and access requests, and the sealed passwords.  They *)
(* share no state, so one of them moves, chosen at the start: the          *)
(* behaviours are those of the components.  Pairs and Twins are pools of   *)
(* interchangeable ids, of which each component takes what it needs.       *)
(***************************************************************************)
EXTENDS JobExecution, AlertRules, LogStatus, Access, SecretKeys, TLC

CONSTANTS Pairs, Twins

VARIABLE part

Symmetry == Permutations(Pairs) \cup Permutations(Twins)

RequestsInit ==
  /\ part \in {"jobs", "alerts", "logs", "access", "secrets"}
  /\ Init
  /\ AlertInit
  /\ LogInit
  /\ AccessInit
  /\ SecretInit
  /\ part # "secrets" => stored = Nothing

JobPart ==
  /\ part = "jobs" /\ Next
  /\ UNCHANGED <<part, alertVars, logVars, accessVars, secretVars>>

AlertPart ==
  /\ part = "alerts" /\ AlertNext
  /\ UNCHANGED <<part, vars, logVars, accessVars, secretVars>>

LogPart ==
  /\ part = "logs" /\ LogNext
  /\ UNCHANGED <<part, vars, alertVars, accessVars, secretVars>>

AccessPart ==
  /\ part = "access" /\ AccessNext
  /\ UNCHANGED <<part, vars, alertVars, logVars, secretVars>>

SecretPart ==
  /\ part = "secrets" /\ SecretNext
  /\ UNCHANGED <<part, vars, alertVars, logVars, accessVars>>

RequestsNext == JobPart \/ AlertPart \/ LogPart \/ AccessPart \/ SecretPart

RequestsSpec ==
  RequestsInit /\ [][RequestsNext]_<<part, vars, alertVars, logVars, accessVars, secretVars>>
=============================================================================
