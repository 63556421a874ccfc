------------------------------ MODULE PunchAlerts ------------------------------
(***************************************************************************)
(* The alert row of each client with unprocessed punches, which users      *)
(* acknowledge, suppress and mail about                                    *)
(* (services/unproc-punch-alert-service.ts, routes/escalations.ts).        *)
(*                                                                         *)
(* No timer ends a suppression: whoever reads the statuses writes OPEN for *)
(* those that had expired in its snapshot, one update after the other.     *)
(***************************************************************************)
EXTENDS Integers, FiniteSets

CONSTANTS
  PunchClients,   \* clients with payrollEnabled
  PunchCalls,     \* API calls that can be in flight at a time
  PunchCooldown,  \* threshold.notifyCooldownMins
  PunchHorizon    \* bound on the clock

NeverSent == -1

VARIABLES
  minute,      \* the clock
  punchAlert,  \* rows of UnprocPunchAlert; status "NONE" where there is none
  punchCall    \* calls in flight

punchVars == <<minute, punchAlert, punchCall>>

NoPunchAlert == [status |-> "NONE", until |-> NeverSent, sent |-> NeverSent]
NoRows == [c \in PunchClients |-> NoPunchAlert]

\* read: the rows as findMany returned them, over: those of them still to be reopened
NoPunchCall == [op |-> "none", read |-> NoRows, at |-> 0, over |-> {}, rows |-> {}]

PunchInit ==
  /\ minute = 0
  /\ punchAlert = [c \in PunchClients |-> NoPunchAlert]
  /\ punchCall = [r \in PunchCalls |-> NoPunchCall]

PunchTick ==
  /\ minute < PunchHorizon /\ minute' = minute + 1
  /\ UNCHANGED <<punchAlert, punchCall>>

acknowledge(c) ==
  /\ punchAlert' = [punchAlert EXCEPT ![c].status = "ACKNOWLEDGED", ![c].until = NeverSent]
  /\ UNCHANGED <<minute, punchCall>>

suppress(c, mins) ==
  /\ minute + mins <= PunchHorizon
  /\ punchAlert' = [punchAlert EXCEPT ![c].status = "SUPPRESSED", ![c].until = minute + mins]
  /\ UNCHANGED <<minute, punchCall>>

\* mutant: a suppression is over one tick early
SuppressionOverEarly(a, now) == a.status = "SUPPRESSED" /\ a.until <= now

SuppressionOver(a, now) == a.status = "SUPPRESSED" /\ a.until < now

getAlertStatuses(r, op, rows) ==
  /\ punchCall[r] = NoPunchCall
  /\ punchCall' = [punchCall EXCEPT ![r] =
       [op |-> op, read |-> punchAlert, at |-> minute,
        over |-> {c \in PunchClients : SuppressionOver(punchAlert[c], minute)}, rows |-> rows]]
  /\ UNCHANGED <<minute, punchAlert>>

\* one update of its loop, whatever the row has become since
ReopenPunchAlert(r, c) ==
  /\ c \in punchCall[r].over
  /\ punchAlert' = [punchAlert EXCEPT ![c].status = "OPEN", ![c].until = NeverSent]
  /\ punchCall' = [punchCall EXCEPT ![r].over = @ \ {c}]
  /\ UNCHANGED minute

\* a client whose suppression was over is not in the result, so its mail is not seen
filterNotifyEligible(call) ==
  {c \in call.rows : \/ SuppressionOver(call.read[c], call.at)
                     \/ call.read[c].sent = NeverSent
                     \/ call.read[c].sent < minute - PunchCooldown}

\* notify-punch: one mail about all eligible rows; before it, a query or the
\* mail server may refuse
SendPunchMail(r) ==
  LET eligible == filterNotifyEligible(punchCall[r]) IN
  /\ punchCall[r].op = "notify" /\ punchCall[r].over = {} /\ eligible # {}
  /\ punchCall' = [punchCall EXCEPT ![r] =
       [NoPunchCall EXCEPT !.op = "record", !.rows = eligible, !.at = minute]]
  /\ UNCHANGED <<minute, punchAlert>>

recordEmailSent(r, c) ==
  /\ punchCall[r].op = "record" /\ c \in punchCall[r].rows
  /\ punchAlert' = [punchAlert EXCEPT ![c].sent = punchCall[r].at,
                      ![c].status = IF @ = "NONE" THEN "OPEN" ELSE @]
  /\ punchCall' = [punchCall EXCEPT ![r].rows = @ \ {c}]
  /\ UNCHANGED minute

\* the answer, or the 500 of a query that throws: what was written stays
PunchAnswer(r) ==
  /\ punchCall[r] # NoPunchCall
  /\ punchCall' = [punchCall EXCEPT ![r] = NoPunchCall]
  /\ UNCHANGED <<minute, punchAlert>>

PunchNext ==
  \/ PunchTick
  \/ \E c \in PunchClients : acknowledge(c) \/ \E m \in 1..PunchHorizon : suppress(c, m)
  \/ \E r \in PunchCalls :
       \/ getAlertStatuses(r, "statuses", {})
       \/ \E rows \in SUBSET PunchClients \ {{}} : getAlertStatuses(r, "notify", rows)
       \/ \E c \in PunchClients : ReopenPunchAlert(r, c) \/ recordEmailSent(r, c)
       \/ SendPunchMail(r) \/ PunchAnswer(r)

PunchSpec == PunchInit /\ [][PunchNext]_punchVars

----------------------------------------------------------------------------
(* Properties *)

\* A suppression that is not over is reopened only by a call that had read an
\* earlier suppression of the client, however reads, users and mails overlap.
SuppressionOutlivesReads ==
  [][\A c \in PunchClients :
       /\ punchAlert[c].status = "SUPPRESSED" /\ minute <= punchAlert[c].until
       /\ punchAlert'[c].status = "OPEN"
       => \E r \in PunchCalls : /\ c \in punchCall[r].over
                                /\ punchCall[r].read[c].until < punchAlert[c].until]_punchVars
=============================================================================
