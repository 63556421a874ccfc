------------------------------ MODULE MCRecords ------------------------------
(***************************************************************************)
(* Small instances of the components that read and write records and       *)
(* caches of their own.  They share no state, so one of them moves, chosen *)
(* at the start: the behaviours are those of the components, each beside   *)
(* the others at rest.  Pairs and Twins are pools of interchangeable ids.  *)
(***************************************************************************)
EXTENDS BatchCache, Maintenance, PunchAlerts, Payroll, ConfigStore, StatusChecks, TLC

CONSTANTS Pairs, Twins

VARIABLE part

recordVars == <<part, vars, maintenanceVars, punchVars, payVars, configVars, checkVars>>

Symmetry == Permutations(Pairs) \cup Permutations(Twins)

\* A component at rest has one initial state.
RecordsInit ==
  /\ part \in {"batch", "maintenance", "punches", "payroll", "config", "checks"}
  /\ Init /\ MaintenanceInit /\ PunchInit /\ PayInit /\ ConfigInit /\ CheckInit
  /\ part # "payroll" => queue = CHOOSE q \in Queues : TRUE
  /\ part # "config" => \A k \in Keys : row[k] = "a"

BatchPart ==
  /\ part = "batch" /\ Next
  /\ UNCHANGED <<part, maintenanceVars, punchVars, payVars, configVars, checkVars>>

MaintenancePart ==
  /\ part = "maintenance" /\ MaintenanceNext
  /\ UNCHANGED <<part, vars, punchVars, payVars, configVars, checkVars>>

PunchPart ==
  /\ part = "punches" /\ PunchNext
  /\ UNCHANGED <<part, vars, maintenanceVars, payVars, configVars, checkVars>>

PayrollPart ==
  /\ part = "payroll" /\ PayNext
  /\ UNCHANGED <<part, vars, maintenanceVars, punchVars, configVars, checkVars>>

ConfigPart ==
  /\ part = "config" /\ ConfigNext
  /\ UNCHANGED <<part, vars, maintenanceVars, punchVars, payVars, checkVars>>

CheckPart ==
  /\ part = "checks" /\ CheckNext
  /\ UNCHANGED <<part, vars, maintenanceVars, punchVars, payVars, configVars>>

RecordsNext ==
  BatchPart \/ MaintenancePart \/ PunchPart \/ PayrollPart \/ ConfigPart \/ CheckPart

RecordsSpec == RecordsInit /\ [][RecordsNext]_recordVars
=============================================================================
