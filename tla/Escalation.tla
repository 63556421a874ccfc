----------------------------- MODULE Escalation -----------------------------
(***************************************************************************)
(* Queue-buildup escalation: the EscalatedAlert rows, and the requests     *)
(* that read and write them one awaited Prisma call at a time              *)
(* (services/escalation-service.ts, driven by routes/db-monitor.ts and     *)
(* routes/escalations.ts).                                                 *)
(*                                                                         *)
(* The backend is one Node process: code between two awaits is atomic, and *)
(* any other request may run at an await.  A request in flight is a member *)
(* of Runs; run[r] holds the local variables of its handler, pc the await  *)
(* it is suspended at.  One action is one database or SMTP call together   *)
(* with the synchronous code that follows it.                              *)
(***************************************************************************)
EXTENDS Integers, FiniteSets

CONSTANTS
  Clients,        \* database clients whose batch queues are watched
  Users,          \* the userIds a request body can name
  Runs,           \* requests that can be in flight at the same time
  AlertIds,       \* pool of row ids, in creation order (bounds the table)
  MaxTime,        \* last value of the clock (bound)
  EscalationMins, \* threshold.escalationMins
  CooldownMins,   \* threshold.notifyCooldownMins
  AutoAckMins,    \* threshold.defaultSuppressMins
  SuppressMins,   \* durations a user can suppress an alert for
  AutoNotify,     \* engine.autoEscalationNotifyEnabled
  Requests,       \* kinds of request served: "all", "one", "notify"
  Unreachable,    \* clients whose DB2 query can fail
  Faults          \* TRUE: an awaited call may reject, or the process die

System == "system"       \* SYSTEM_ESCALATION_ACTOR
Nobody == "nobody"       \* a null acknowledgedBy
Never  == -1             \* a null date

ASSUME ConstantsAssumption ==
  /\ AlertIds \subseteq Nat /\ MaxTime \in Nat
  /\ EscalationMins \in Nat /\ CooldownMins \in Nat
  /\ AutoAckMins \in Nat \ {0} /\ SuppressMins \subseteq Nat \ {0}
  /\ AutoNotify \in BOOLEAN /\ Faults \in BOOLEAN
  /\ Requests \subseteq {"all", "one", "notify"}
  /\ Unreachable \subseteq Clients
  /\ Nobody \notin Users

VARIABLES
  clock,     \* Date.now(), in minutes
  alert,     \* the EscalatedAlert table: a function of the ids that exist
  run,       \* local state of the requests in flight
  lastMail,  \* history: newest stamp of an e-mail delivered for an alert
  early      \* history: alerts e-mailed again within the cooldown

vars == <<clock, alert, run, lastMail, early>>

Time   == 0..MaxTime
Date   == Time \cup {Never}
Status == {"OPEN", "ACKNOWLEDGED", "SUPPRESSED"}

Row == [client: Clients, status: Status,
        ackBy: Users \cup {System, Nobody}, ackAt: Date,
        supUntil: Int, firstSeen: Time, resolvedAt: Date, emailAt: Date]

Points == {"idle", "find", "create", "reopen", "clear", "resolve",
           "send", "smtp", "mark", "ack"}

Idle == [pc |-> "idle", auto |-> FALSE, now |-> 0, pending |-> {},
         queried |-> {}, todo |-> {}, cur |-> {}, seen |-> {},
         ids |-> {}, batch |-> {}]

----------------------------------------------------------------------------
(* Queries *)

rows == DOMAIN alert

Active(c) == {a \in rows : alert[a].client = c /\ alert[a].resolvedAt = Never}
Unresolved == {a \in rows : alert[a].resolvedAt = Never}

\* findFirst({ where: ..., orderBy: { createdAt: 'desc' } })
NewestActive(c) == {a \in Active(c) : \A b \in Active(c) : b <= a}

SuppressionOver(row, t) ==
  row.status = "SUPPRESSED" /\ row.supUntil # Never /\ row.supUntil < t

AutoAckOver(row, t) ==
  /\ row.status = "ACKNOWLEDGED" /\ row.ackBy = System /\ row.ackAt # Never
  /\ row.ackAt + AutoAckMins <= t

LongPending(row, t) == row.firstSeen <= t - EscalationMins

\* mutant: the cooldown is not looked at
MailDueAlways(row, t) == row.emailAt \in Date

MailDue(row, t) == row.emailAt = Never \/ row.emailAt < t - CooldownMins

----------------------------------------------------------------------------
(* The report of a month or a quarter, the days from..to (getMonthlyReport) *)

\* rows that were active at some point of the period
Overlaps(row, from, to) ==
  row.firstSeen <= to /\ (row.resolvedAt = Never \/ from <= row.resolvedAt)

\* mutant: open at the end of the period is open today
OpenToday(row, asOf) == row.resolvedAt = Never

\* isOpenAtPeriodEnd
OpenAt(row, asOf) == row.resolvedAt = Never \/ asOf < row.resolvedAt

\* the current period is reported as of now, any other as of its end
Report(from, to) ==
  LET asOf == IF clock \in from..to THEN clock ELSE to
      ids == {a \in rows : Overlaps(alert[a], from, to)}
  IN [rows |-> ids, open |-> {a \in ids : OpenAt(alert[a], asOf)}]

\* the columns a report selects by
dates == [a \in rows |-> <<alert[a].firstSeen, alert[a].resolvedAt>>]

----------------------------------------------------------------------------
Init ==
  /\ clock = 0 /\ early = {}
  /\ alert = [a \in {} |-> {}]
  /\ run = [r \in Runs |-> Idle]
  /\ lastMail = [a \in AlertIds |-> Never]

\* Prisma's update: one row, some columns.
SetRow(a, row) == alert' = [alert EXCEPT ![a] = row]

Goto(r, local) == run' = [run EXCEPT ![r] = local]
Finish(r) == Goto(r, Idle)

\* The suspension points of the handlers, and the locals each one sets.
ToFind(l, T)      == [l EXCEPT !.pc = "find", !.todo = T, !.cur = {}, !.seen = {}]
ToCreate(l, c)    == [l EXCEPT !.pc = "create", !.todo = @ \ {c}, !.cur = {c}]
ToReopen(l, c, s) == [l EXCEPT !.pc = "reopen", !.todo = @ \ {c}, !.seen = {s}]
ToResolve(l, S)   == [l EXCEPT !.pc = "resolve", !.ids = S]
ToSend(l, S, t)   == [l EXCEPT !.pc = "send", !.ids = S, !.now = t]
ToSmtp(l, S)      == [l EXCEPT !.pc = "smtp", !.batch = S]
ToAck(l)          == [l EXCEPT !.pc = "ack", !.batch = {}]

Tick ==
  /\ clock < MaxTime /\ clock' = clock + 1
  /\ UNCHANGED <<alert, run, lastMail, early>>

----------------------------------------------------------------------------
(* Requests arriving.  What DB2 answered is any set of clients with stale  *)
(* critical jobs; a client whose query failed has no job groups in the     *)
(* summary and therefore counts as not pending.                            *)

Start(r, pc, auto, P, Q, S) ==
  Goto(r, [pc |-> pc, auto |-> auto, now |-> clock, pending |-> P,
           queried |-> Q, todo |-> P, cur |-> {}, seen |-> {}, ids |-> S,
           batch |-> {}])

\* GET batch-status-all
RefreshAll(r) ==
  /\ "all" \in Requests /\ run[r].pc = "idle"
  /\ \E failed \in SUBSET Unreachable : \E P \in SUBSET (Clients \ failed) :
       Start(r, "find", TRUE, P, Clients \ failed, {})
  /\ UNCHANGED <<clock, alert, lastMail, early>>

\* GET :clientId/batch-status, critical jobs stale: processEscalations([c])
RefreshOneStale(r, c) ==
  /\ "one" \in Requests /\ run[r].pc = "idle"
  /\ Start(r, "find", TRUE, {c}, {c}, {})
  /\ UNCHANGED <<clock, alert, lastMail, early>>

\* the same request, nothing stale: resolveClientEscalation(c), its findMany
RefreshOneClear(r, c) ==
  /\ "one" \in Requests /\ run[r].pc = "idle" /\ Active(c) # {}
  /\ Start(r, "clear", FALSE, {}, {c}, Active(c))
  /\ UNCHANGED <<clock, alert, lastMail, early>>

\* POST notify, for the rows in S, or for all open ones when S is empty
Notify(r, S) ==
  /\ "notify" \in Requests /\ run[r].pc = "idle"
  /\ Start(r, "send", FALSE, {}, {}, S)
  /\ UNCHANGED <<clock, alert, lastMail, early>>

----------------------------------------------------------------------------
(* processEscalations, first loop: one pending client at a time *)

\* mutant: a new row without looking for an active one
FindNoneBlind(r, c) ==
  /\ run[r].pc = "find" /\ c \in run[r].todo
  /\ Goto(r, ToCreate(run[r], c))
  /\ UNCHANGED <<clock, alert, lastMail, early>>

FindNone(r, c) ==
  /\ run[r].pc = "find" /\ c \in run[r].todo /\ Active(c) = {}
  /\ Goto(r, ToCreate(run[r], c))
  /\ UNCHANGED <<clock, alert, lastMail, early>>

\* mutant: every acknowledged or suppressed row is reopened
FindExistingEager(r, c) ==
  /\ run[r].pc = "find" /\ c \in run[r].todo
  /\ \E a \in NewestActive(c) :
       IF alert[a].status # "OPEN"
         THEN Goto(r, ToReopen(run[r], c, <<a, alert[a]>>))
         ELSE Goto(r, ToFind(run[r], run[r].todo \ {c}))
  /\ UNCHANGED <<clock, alert, lastMail, early>>

\* findFirst returns a row; the snapshot decides whether it is reopened
FindExisting(r, c) ==
  /\ run[r].pc = "find" /\ c \in run[r].todo
  /\ \E a \in NewestActive(c) :
       IF \/ SuppressionOver(alert[a], run[r].now)
          \/ AutoAckOver(alert[a], run[r].now)
         THEN Goto(r, ToReopen(run[r], c, <<a, alert[a]>>))
         ELSE Goto(r, ToFind(run[r], run[r].todo \ {c}))
  /\ UNCHANGED <<clock, alert, lastMail, early>>

\* mutant: the whole snapshot is written back
ReopenedSnapshot(row, snapshot) ==
  [snapshot EXCEPT !.status = "OPEN", !.ackBy = Nobody, !.ackAt = Never]

Reopened(row, snapshot) ==
  IF snapshot.status = "SUPPRESSED"
    THEN [row EXCEPT !.status = "OPEN", !.supUntil = Never]
    ELSE [row EXCEPT !.status = "OPEN", !.ackBy = Nobody, !.ackAt = Never]

Reopen(r) ==
  /\ run[r].pc = "reopen"
  /\ \E s \in run[r].seen : SetRow(s[1], Reopened(alert[s[1]], s[2]))
  /\ Goto(r, ToFind(run[r], run[r].todo))
  /\ UNCHANGED <<clock, lastMail, early>>

NewRow(c, t) == [client |-> c, status |-> "OPEN", ackBy |-> Nobody,
                 ackAt |-> Never, supUntil |-> Never, firstSeen |-> t,
                 resolvedAt |-> Never, emailAt |-> Never]

Create(r) ==
  /\ run[r].pc = "create"
  /\ \E a \in AlertIds \ rows, c \in run[r].cur :
       /\ \A b \in AlertIds \ rows : a <= b
       /\ alert' = [b \in rows \cup {a} |->
                      IF b = a THEN NewRow(c, run[r].now) ELSE alert[b]]
  /\ Goto(r, ToFind(run[r], run[r].todo))
  /\ UNCHANGED <<clock, lastMail, early>>

(* second loop: resolve the rows whose client is not in the pending list *)

\* mutant: only the open rows are resolved
ListOpen(r) ==
  /\ run[r].pc = "find" /\ run[r].todo = {}
  /\ Goto(r, ToResolve(run[r], {a \in Unresolved :
                               /\ alert[a].status = "OPEN"
                               /\ alert[a].client \notin run[r].pending}))
  /\ UNCHANGED <<clock, alert, lastMail, early>>

ListUnresolved(r) ==
  /\ run[r].pc = "find" /\ run[r].todo = {}
  /\ Goto(r, ToResolve(run[r], {a \in Unresolved : alert[a].client \notin run[r].pending}))
  /\ UNCHANGED <<clock, alert, lastMail, early>>

\* mutant: a status the schema does not know
ResolvedStatusRow(row, t) == [row EXCEPT !.resolvedAt = t, !.status = "RESOLVED"]

ResolvedRow(row, t) == [row EXCEPT !.resolvedAt = t, !.status = "OPEN"]

Resolve(r) ==
  /\ run[r].pc \in {"resolve", "clear"}
  /\ \E a \in run[r].ids :
       /\ SetRow(a, ResolvedRow(alert[a], run[r].now))
       /\ IF run[r].pc = "clear" /\ run[r].ids = {a}
            THEN Finish(r)
            ELSE Goto(r, [run[r] EXCEPT !.ids = @ \ {a}])
  /\ UNCHANGED <<clock, lastMail, early>>

----------------------------------------------------------------------------
(* processAutoEscalationNotifyAndAck and sendEscalationEmails *)

Eligible == {a \in Unresolved : /\ alert[a].status = "OPEN"
                                /\ LongPending(alert[a], clock)
                                /\ MailDue(alert[a], clock)}

AutoEligible(r) ==
  /\ run[r].pc = "resolve" /\ run[r].ids = {}
  /\ IF AutoNotify /\ Eligible # {}
       THEN Goto(r, ToSend(run[r], Eligible, clock))
       ELSE Finish(r)
  /\ UNCHANGED <<clock, alert, lastMail, early>>

\* Step 3 of sendEscalationEmails re-reads the rows: with ids, whatever their
\* status; without, the open and long-pending ones.
ToMail(r) ==
  {a \in Unresolved :
     /\ MailDue(alert[a], run[r].now)
     /\ IF run[r].ids # {} THEN a \in run[r].ids
                           ELSE alert[a].status = "OPEN" /\ LongPending(alert[a], clock)}

SendSelect(r) ==
  /\ run[r].pc = "send"
  /\ IF ToMail(r) # {}
       THEN Goto(r, ToSmtp(run[r], ToMail(r)))
       ELSE Finish(r)
  /\ UNCHANGED <<clock, alert, lastMail, early>>

\* mutant: the result of the mail is not looked at
SendFailsIgnored(r) ==
  /\ run[r].pc \in {"send", "smtp"}
  /\ IF run[r].auto THEN Goto(r, ToAck(run[r]))
                    ELSE Finish(r)
  /\ UNCHANGED <<clock, alert, lastMail, early>>

\* SMTP not configured, no active recipient, or the server refuses the mail
SendFails(r) ==
  /\ run[r].pc \in {"send", "smtp"}
  /\ Finish(r)
  /\ UNCHANGED <<clock, alert, lastMail, early>>

SendMail(r) ==
  /\ run[r].pc = "smtp"
  /\ lastMail' = [a \in AlertIds |->
                    IF a \in run[r].batch /\ lastMail[a] < run[r].now
                      THEN run[r].now ELSE lastMail[a]]
  /\ early' = early \cup {a \in run[r].batch : /\ lastMail[a] # Never
                                               /\ run[r].now - lastMail[a] <= CooldownMins}
  /\ Goto(r, [run[r] EXCEPT !.pc = "mark"])
  /\ UNCHANGED <<clock, alert>>

MailedRow(row, t) == [row EXCEPT !.emailAt = t]

Mark(r) ==
  /\ run[r].pc = "mark"
  /\ \E a \in run[r].batch :
       /\ SetRow(a, MailedRow(alert[a], run[r].now))
       /\ IF run[r].batch # {a}
            THEN Goto(r, [run[r] EXCEPT !.batch = @ \ {a}])
            ELSE IF run[r].auto
              THEN Goto(r, ToAck(run[r]))
              ELSE Finish(r)
  /\ UNCHANGED <<clock, lastMail, early>>

AckedRow(row, by, t) ==
  [row EXCEPT !.status = "ACKNOWLEDGED", !.ackBy = by, !.ackAt = t]

\* autoAcknowledgeEscalation, for every alert found eligible
AutoAck(r) ==
  /\ run[r].pc = "ack"
  /\ \E a \in run[r].ids :
       /\ SetRow(a, AckedRow(alert[a], System, clock))
       /\ IF run[r].ids = {a} THEN Finish(r)
                              ELSE Goto(r, [run[r] EXCEPT !.ids = @ \ {a}])
  /\ UNCHANGED <<clock, lastMail, early>>

----------------------------------------------------------------------------
(* Users, and failures *)

\* u is the userId of the body, or "system" when it names none: a body of the
\* page's own client never does
Acknowledge(a, u) ==
  /\ a \in rows
  /\ SetRow(a, AckedRow(alert[a], u, clock))
  /\ UNCHANGED <<clock, run, lastMail, early>>

SuppressedRow(row, until) ==
  [row EXCEPT !.status = "SUPPRESSED", !.supUntil = until]

Suppress(a, mins) ==
  /\ a \in rows
  /\ SetRow(a, SuppressedRow(alert[a], clock + mins))
  /\ UNCHANGED <<clock, run, lastMail, early>>

\* An awaited call rejects: the handler's catch logs it and the rest is skipped.
\* A crash of the process is this step taken by every request in flight.
Fail(r) ==
  /\ Faults /\ run[r].pc # "idle"
  /\ Finish(r)
  /\ UNCHANGED <<clock, alert, lastMail, early>>

Step(r) ==
  \/ \E c \in Clients : FindNone(r, c) \/ FindExisting(r, c)
  \/ Create(r) \/ Reopen(r) \/ ListUnresolved(r) \/ Resolve(r)
  \/ AutoEligible(r) \/ SendSelect(r) \/ SendFails(r) \/ SendMail(r)
  \/ Mark(r) \/ AutoAck(r)

Arrive(r) ==
  \/ RefreshAll(r)
  \/ \E c \in Clients : RefreshOneStale(r, c) \/ RefreshOneClear(r, c)
  \/ \E S \in SUBSET rows : Notify(r, S)

User ==
  \E a \in rows : \/ \E u \in Users \cup {System} : Acknowledge(a, u)
                  \/ \E m \in SuppressMins : Suppress(a, m)

Next == Tick \/ User \/ \E r \in Runs : Step(r) \/ Arrive(r) \/ Fail(r)

Spec == Init /\ [][Next]_vars

----------------------------------------------------------------------------
(* Properties *)

Local == [pc: Points, auto: BOOLEAN, now: Time, pending: SUBSET Clients,
          queried: SUBSET Clients, todo: SUBSET Clients, cur: SUBSET Clients,
          seen: SUBSET (rows \X Row), ids: SUBSET rows, batch: SUBSET rows]

\* Types of the table, of the handlers' locals and of the history.
TypeOK ==
  /\ clock \in Time
  /\ rows \subseteq AlertIds /\ alert \in [rows -> Row]
  /\ run \in [Runs -> Local]
  /\ lastMail \in [AlertIds -> Date] /\ early \subseteq AlertIds

\* processEscalations looks for an active alert of the client before it creates
\* one (findFirst, then create): with one request at a time no client ever has
\* two active alerts.
OneActivePerClient ==
  \A a, b \in Unresolved : alert[a].client = alert[b].client => a = b

\* No alert is e-mailed again within the notify cooldown.
NoMailWithinCooldown == early = {}

\* When the second loop of processEscalations is over, the clients with an
\* active alert are exactly the clients it found pending (one request at a time).
RefreshTracksPending ==
  \A r \in Runs :
    \/ run[r].pc = "resolve" /\ run[r].ids = {}
    \/ run[r].pc \in {"send", "smtp", "mark", "ack"} /\ run[r].auto
    => {alert[a].client : a \in Unresolved} = run[r].pending

\* A resolved alert never becomes active again: a client that queues up again
\* gets a new row, so the report's durations are those of one episode.
ResolutionIsFinal ==
  [][\A a \in rows : /\ a \in DOMAIN alert'
                     /\ alert[a].resolvedAt # Never => alert'[a].resolvedAt # Never]_vars

\* The engine silences an alert only if somebody was told of it: when the automatic
\* acknowledgement writes a row, a mail that names the alert was delivered within the
\* cooldown before the pass selected it, by this pass or by another one, or the alert
\* is already resolved.  Passes overlap, the batch may have lost alerts between the
\* two reads, mails fail, and people acknowledge under the engine's own name.
AutoAckMeansNotified ==
  [][\A r \in Runs, a \in rows :
       run[r].pc = "ack" /\ run'[r] # run[r] /\ alert'[a] # alert[a] =>
         \/ alert[a].resolvedAt # Never
         \/ lastMail[a] # Never /\ run[r].now - CooldownMins <= lastMail[a]]_vars

\* A request resolves only alerts of clients whose queue it has just seen.
ResolvesOnlyQueried ==
  [][\A r \in Runs : \A a \in rows :
       /\ run[r].pc \in {"resolve", "clear"} /\ run'[r] # run[r]
       /\ alert[a].resolvedAt = Never /\ alert'[a].resolvedAt # Never
       => alert[a].client \in run[r].queried]_vars

\* An acknowledgement or a suppression that has not expired is undone only by a
\* request that read the row before it was last written.
ReopensOnlyExpired ==
  [][\A a \in rows :
       /\ alert[a].status # "OPEN" /\ alert'[a].status = "OPEN"
       /\ alert'[a].resolvedAt = Never
       => \/ SuppressionOver(alert[a], clock) \/ AutoAckOver(alert[a], clock)
          \/ \E r \in Runs : \E s \in run[r].seen : s[1] = a /\ s[2] # alert[a]]_vars

\* The report of a period that is over says the same whenever it is asked for: which
\* alerts were active in the period and which were open at its end.  Only a pass that
\* began before the end may still write a date that lies before it.
PastReportIsFinal ==
  [][dates' # dates =>
       \A to \in 0..clock - 1 : \A from \in 0..to :
         (\A r \in Runs : run[r].pc # "idle" => to < run[r].now)
            => Report(from, to)' = Report(from, to)]_vars

\* "Suppress an escalated alert for a given duration": until it is over only a
\* user's decision or the end of the pending state changes the status.
SuppressionHolds ==
  [][\A a \in Unresolved :
       /\ alert[a].status = "SUPPRESSED" /\ clock < alert[a].supUntil
       /\ alert'[a].resolvedAt = Never
       => alert'[a].status = "SUPPRESSED" \/ User]_vars
=============================================================================
