------------------------------- MODULE MCDesk -------------------------------
(***************************************************************************)
(* Small instances of what an operator works with: the escalated alerts    *)
(* and their report, one pass of the engine at a time, and the calculator  *)
(* of outage impact.  They share no state, so one of the two moves, chosen *)
(* at the start.                                                           *)
(***************************************************************************)
EXTENDS MCEscalation, OutageImpact

VARIABLE part

deskVars == <<part, vars, impactVars>>

DeskInit == part \in {"alerts", "impact"} /\ Init /\ ImpactInit

AlertPart  == part = "alerts" /\ Next /\ UNCHANGED <<part, impactVars>>
ImpactPart == part = "impact" /\ ImpactNext /\ UNCHANGED <<part, vars>>

DeskNext == AlertPart \/ ImpactPart

DeskSpec == DeskInit /\ [][DeskNext]_deskVars
=============================================================================
