------------------------------ MODULE Retention ------------------------------
(***************************************************************************)
(* The purge of purge-service.ts and routes/admin.ts over the rows of the  *)
(* escalation engine: a run reads the configuration of the table, deletes  *)
(* what is older than the cutoff, and stamps the configuration, whatever   *)
(* came of it.  The engine and the administrators go on in between.        *)
(***************************************************************************)
EXTENDS Escalation

CONSTANTS Purges,         \* runs that can be in flight at a time
          RetainSettings  \* values of retainDays

VARIABLES setting,        \* the PurgeConfig row of escalatedAlert
          purge           \* purge[p]: the run in flight and the setting it read

retentionVars == <<clock, alert, run, lastMail, early, setting, purge>>

Settings == [enabled : BOOLEAN, retain : RetainSettings, lastPurgeAt : Date]
NoPurge(s) == [stage |-> "idle", cfg |-> s]

RetentionInit ==
  /\ Init
  /\ setting \in {s \in Settings : s.enabled /\ s.lastPurgeAt = Never}
  /\ purge = [p \in Purges |-> NoPurge(setting)]

SaveSetting ==
  /\ \E on \in BOOLEAN, d \in RetainSettings :
       setting' = [setting EXCEPT !.enabled = on, !.retain = d]
  /\ UNCHANGED <<clock, alert, run, lastMail, early, purge>>

RunAll(p) ==
  /\ purge[p].stage = "idle"
  /\ purge' = [purge EXCEPT ![p] = [stage |-> "delete", cfg |-> setting]]
  /\ UNCHANGED <<clock, alert, run, lastMail, early, setting>>

Skipped(cfg) == ~cfg.enabled \/ cfg.retain < 0
Cutoff(cfg) == clock - cfg.retain
Purgeable(cfg) ==
  {a \in rows : /\ alert[a].resolvedAt # Never /\ alert[a].resolvedAt < Cutoff(cfg)
                /\ alert[a].status \in {"ACKNOWLEDGED", "SUPPRESSED"}}

Deletes(p) ==
  IF Skipped(purge[p].cfg) THEN alert' = alert
  ELSE alert' = [a \in rows \ Purgeable(purge[p].cfg) |-> alert[a]]

RunOne(p) ==
  /\ purge[p].stage = "delete"
  /\ Deletes(p)
  /\ purge' = [purge EXCEPT ![p].stage = "stamp"]
  /\ UNCHANGED <<clock, run, lastMail, early, setting>>

RunFails(p) ==
  /\ Faults /\ purge[p].stage = "delete"
  /\ purge' = [purge EXCEPT ![p].stage = "stamp"]
  /\ UNCHANGED <<clock, alert, run, lastMail, early, setting>>

StampPurge(p) ==
  /\ purge[p].stage = "stamp"
  /\ setting' = [setting EXCEPT !.lastPurgeAt = clock]
  /\ purge' = [purge EXCEPT ![p].stage = "idle"]
  /\ UNCHANGED <<clock, alert, run, lastMail, early>>

RetentionNext ==
  \/ Next /\ UNCHANGED <<setting, purge>>
  \/ SaveSetting
  \/ \E p \in Purges : RunAll(p) \/ RunOne(p) \/ RunFails(p) \/ StampPurge(p)

RetentionSpec == RetentionInit /\ [][RetentionNext]_retentionVars

(***************************************************************************)
(* "Only purge resolved/suppressed alerts older than cutoff": a run that   *)
(* is neither skipped nor failed leaves no alert that was resolved before  *)
(* its cutoff.                                                             *)
(***************************************************************************)
ResolvedIsPurged ==
  [][\A p \in Purges : RunOne(p) /\ ~Skipped(purge[p].cfg) =>
       \A a \in DOMAIN alert' :
         alert'[a].resolvedAt = Never \/ alert'[a].resolvedAt >= Cutoff(purge[p].cfg)]_retentionVars
=============================================================================
