--------------------------- MODULE Records_proofs ---------------------------
(***************************************************************************)
(* Theorems of the components that keep records of their own: maintenance  *)
(* windows, punch alerts, the payroll snapshot, the configuration and the  *)
(* status checks.  They share no variable, so each has its own inductive   *)
(* invariant: XxxInv holds initially, every step keeps it, and it implies  *)
(* the property the run Records checks.                                    *)
(***************************************************************************)
EXTENDS Maintenance, PunchAlerts, Payroll, ConfigStore, StatusChecks, TLAPS

-----------------------------------------------------------------------------
\* Maintenance windows.

\* A stored window, and what a PATCH may write over it: both bounds or neither.
WindowRows == {r \in [status : WindowStates, from : Instants, to : Instants] : r.from < r.to}
Changes ==
  {c \in [status : WindowStates \cup {Keep}, from : Instants \cup {KeepTime},
          to : Instants \cup {KeepTime}] :
     \/ c.from = KeepTime /\ c.to = KeepTime
     \/ c.from \in Instants /\ c.to \in Instants /\ c.from < c.to}

VisitRows ==
  [op : {"none", "bulk", "patch", "list", "calendar"}, win : WindowIds \cup {Keep},
   set : Changes \cup {NoWindow}, rest : Seq(Instants \X Instants),
   todo : SUBSET (WindowIds \X WindowStates)]

PatchIsChange(q) == q.op = "patch" => q.win \in WindowIds /\ q.set \in Changes

MaintenanceInv ==
  /\ instant \in Instants
  /\ windows \in [WindowIds -> WindowRows \cup {NoWindow}]
  /\ visit \in [Visits -> VisitRows]
  /\ \A v \in Visits : PatchIsChange(visit[v])

LEMMA NoWindowIsNoRow == NoWindow \notin WindowRows
BY DEF NoWindow, WindowRows, WindowStates

LEMMA StatusTyped ==
  ASSUME MaintenanceInv, NEW r \in WindowRows
  PROVE  /\ computeWindowStatus(r.from, r.to) \in WindowStates
         /\ NextStatus(r) \in WindowStates
BY DEF WindowRows, computeWindowStatus, NextStatus, WindowStates

LEMMA NoVisitTyped == NoVisit \in VisitRows /\ PatchIsChange(NoVisit)
BY DEF NoVisit, VisitRows, PatchIsChange

\* The bounds a PATCH writes: it is refused unless the result is an interval.
LEMMA PatchTyped ==
  ASSUME NEW old \in WindowRows, NEW status \in WindowStates \cup {Keep},
         NEW from \in Instants \cup {KeepTime}, NEW to \in Instants \cup {KeepTime},
         NEW new,
         new = [status |-> status,
                from |-> IF (from # KeepTime \/ to # KeepTime) /\ from = KeepTime
                           THEN old.from ELSE from,
                to   |-> IF (from # KeepTime \/ to # KeepTime) /\ to = KeepTime
                           THEN old.to ELSE to],
         (from # KeepTime \/ to # KeepTime) => new.to > new.from
  PROVE  new \in Changes
<1>1. old.from \in Instants /\ old.to \in Instants
  BY DEF WindowRows
<1>2. \A t \in Instants : t # KeepTime /\ t \in Int
  BY MaintenanceAssumption DEF Instants, KeepTime
<1>3. new \in [status : WindowStates \cup {Keep}, from : Instants \cup {KeepTime},
          to : Instants \cup {KeepTime}]
  BY <1>1
<1>4. CASE from = KeepTime /\ to = KeepTime
  BY <1>3, <1>4 DEF Changes
<1>5. CASE from # KeepTime \/ to # KeepTime
  <2>1. new.from \in Instants /\ new.to \in Instants /\ new.to > new.from
    BY <1>1, <1>5
  <2> QED
    BY <1>2, <1>3, <2>1 DEF Changes
<1> QED
  BY <1>4, <1>5

\* Applied to any stored window it leaves an interval.
LEMMA ChangeKeepsInterval ==
  ASSUME NEW old \in WindowRows, NEW new \in Changes
  PROVE  [status |-> IF new.status = Keep THEN old.status ELSE new.status,
          from |-> IF new.from = KeepTime THEN old.from ELSE new.from,
          to   |-> IF new.to = KeepTime THEN old.to ELSE new.to] \in WindowRows
<1>1. /\ old.from \in Instants /\ old.to \in Instants /\ old.from < old.to
      /\ old.status \in WindowStates
  BY DEF WindowRows
<1>2. new.status # Keep => new.status \in WindowStates
  BY DEF Changes
<1>3. \A t \in Instants : t # KeepTime
  BY MaintenanceAssumption DEF Instants, KeepTime
<1>4. CASE new.from = KeepTime /\ new.to = KeepTime
  BY <1>1, <1>2, <1>4 DEF WindowRows
<1>5. CASE new.from \in Instants /\ new.to \in Instants /\ new.from < new.to
  BY <1>1, <1>2, <1>3, <1>5 DEF WindowRows
<1> QED
  BY <1>4, <1>5 DEF Changes

LEMMA EnterTyped ==
  ASSUME MaintenanceInv, NEW v \in Visits, NEW q \in VisitRows, PatchIsChange(q),
         visit' = [visit EXCEPT ![v] = q]
  PROVE  visit' \in [Visits -> VisitRows] /\ \A x \in Visits : PatchIsChange(visit'[x])
BY DEF MaintenanceInv

LEMMA WriteTyped ==
  ASSUME MaintenanceInv, NEW w \in WindowIds, NEW r \in WindowRows \cup {NoWindow},
         windows' = [windows EXCEPT ![w] = r]
  PROVE  windows' \in [WindowIds -> WindowRows \cup {NoWindow}]
BY DEF MaintenanceInv

\* The windows, calendars and requests at start are of their types, and every stored window is an
\* interval of time.
THEOREM MaintenanceInitially == MaintenanceInit => MaintenanceInv
BY NoVisitTyped, MaintenanceAssumption DEF MaintenanceInit, MaintenanceInv, Instants

\* Every request of maintenance.ts keeps it: an import stores intervals only, and a PATCH was
\* checked against the row it writes over, whose bounds it gives both or neither.
THEOREM MaintenanceInvariance == MaintenanceInv /\ [MaintenanceNext]_maintenanceVars => MaintenanceInv'
<1> SUFFICES ASSUME MaintenanceInv, [MaintenanceNext]_maintenanceVars PROVE MaintenanceInv'
  OBVIOUS
<1> USE DEF PatchIsChange
<1>1. CASE MaintenanceTick
  BY <1>1, MaintenanceAssumption DEF MaintenanceTick, MaintenanceInv, Instants
<1>2. CASE DeleteCalendar
  BY <1>2 DEF DeleteCalendar, MaintenanceInv
<1>3. ASSUME NEW w \in WindowIds, DeleteWindow(w) PROVE MaintenanceInv'
  BY <1>3 DEF DeleteWindow, MaintenanceInv
<1>4. ASSUME NEW v \in Visits, NEW p \in Instants \X Instants,
             Import(v, <<p>>) \/ Import(v, <<p, <<0, 1>>>>)
      PROVE MaintenanceInv'
  <2>1. <<p>> \in Seq(Instants \X Instants) /\ <<p, <<0, 1>>>> \in Seq(Instants \X Instants)
    <3>1. 0 \in Instants /\ 1 \in Instants
      BY MaintenanceAssumption DEF Instants
    <3>2. <<0, 1>> \in Instants \X Instants
      BY <3>1
    <3> QED
      BY <3>2
  <2>2. PICK rows \in Seq(Instants \X Instants) : Import(v, rows)
    BY <1>4, <2>1
  <2>3. [NoVisit EXCEPT !.op = "bulk", !.rest = rows] \in VisitRows
    BY NoVisitTyped DEF VisitRows
  <2>4. PatchIsChange([NoVisit EXCEPT !.op = "bulk", !.rest = rows])
    BY DEF NoVisit
  <2>5. visit' \in [Visits -> VisitRows] /\ \A x \in Visits : PatchIsChange(visit'[x])
    BY <2>2, <2>3, <2>4, EnterTyped DEF Import, Enter
  <2> QED
    BY <2>2, <2>5 DEF Import, MaintenanceInv
<1>5. ASSUME NEW v \in Visits, NEW w \in WindowIds, ImportRow(v, w) PROVE MaintenanceInv'
  <2>1. visit[v] \in VisitRows /\ visit[v].rest \in Seq(Instants \X Instants)
    BY DEF MaintenanceInv, VisitRows
  <2>2. Head(visit[v].rest) \in Instants \X Instants
        /\ Tail(visit[v].rest) \in Seq(Instants \X Instants)
    BY <1>5, <2>1 DEF ImportRow
  <2>3. [visit[v] EXCEPT !.rest = Tail(@)] \in VisitRows
        /\ PatchIsChange([visit[v] EXCEPT !.rest = Tail(@)])
    BY <1>5, <2>1, <2>2 DEF VisitRows, ImportRow
  <2>4. visit' \in [Visits -> VisitRows] /\ \A x \in Visits : PatchIsChange(visit'[x])
    <3>1. visit' = [visit EXCEPT ![v] = [visit[v] EXCEPT !.rest = Tail(@)]]
      BY <1>5 DEF ImportRow
    <3> QED
      BY <2>3, <3>1, EnterTyped
  <2>5. windows' \in [WindowIds -> WindowRows \cup {NoWindow}]
    <3> DEFINE from == Head(visit[v].rest)[1]
               to == Head(visit[v].rest)[2]
               new == [status |-> computeWindowStatus(from, to), from |-> from, to |-> to]
    <3>1. CASE UNCHANGED windows
      BY <3>1 DEF MaintenanceInv
    <3>2. CASE to > from /\ windows' = [windows EXCEPT ![w] = new]
      <4>1. from \in Instants /\ to \in Instants
        BY <2>2
      <4>2. computeWindowStatus(from, to) \in WindowStates
        BY DEF computeWindowStatus, WindowStates
      <4>3. new \in WindowRows
        BY <3>2, <4>1, <4>2, MaintenanceAssumption DEF WindowRows, Instants
      <4> QED
        BY <3>2, <4>3, WriteTyped
    <3> QED
      BY <1>5, <3>1, <3>2 DEF ImportRow
  <2> QED
    BY <1>5, <2>4, <2>5 DEF ImportRow, MaintenanceInv
<1>6. ASSUME NEW v \in Visits, NEW w \in WindowIds, NEW s \in WindowStates \cup {Keep},
             NEW from \in Instants \cup {KeepTime}, NEW to \in Instants \cup {KeepTime},
             PatchWindow(v, w, s, from, to)
      PROVE MaintenanceInv'
  <2> DEFINE old == windows[w]
             new == [status |-> s,
                from |-> IF (from # KeepTime \/ to # KeepTime) /\ from = KeepTime
                           THEN old.from ELSE from,
                to   |-> IF (from # KeepTime \/ to # KeepTime) /\ to = KeepTime
                           THEN old.to ELSE to]
             q == [NoVisit EXCEPT !.op = "patch", !.win = w, !.set = new]
  <2>1. old \in WindowRows
    BY <1>6 DEF PatchWindow, MaintenanceInv
  <2>2. ((from # KeepTime \/ to # KeepTime) => new.to > new.from) /\ Enter(v, q)
        /\ UNCHANGED <<instant, windows, calendar>>
    BY <1>6 DEF PatchWindow
  <2>3. new \in Changes
    BY <2>1, <2>2, PatchTyped
  <2> HIDE DEF new
  <2>4. q \in VisitRows /\ PatchIsChange(q)
    BY <2>3, NoVisitTyped DEF VisitRows
  <2> HIDE DEF q
  <2>5. visit' \in [Visits -> VisitRows] /\ \A x \in Visits : PatchIsChange(visit'[x])
    BY <2>2, <2>4, EnterTyped DEF Enter
  <2> QED
    BY <2>2, <2>5 DEF MaintenanceInv
<1>7. ASSUME NEW v \in Visits, NEW listed \in SUBSET {w \in WindowIds : windows[w] # NoWindow},
             ListWindows(v, listed)
      PROVE MaintenanceInv'
  <2> DEFINE due == {<<w, NextStatus(windows[w])>> :
                   w \in {x \in listed : NextStatus(windows[x]) # windows[x].status}}
             q == [NoVisit EXCEPT !.op = "list", !.todo = due]
  <2>1. \A w \in listed : w \in WindowIds /\ windows[w] \in WindowRows
    BY DEF MaintenanceInv
  <2>2. \A w \in listed : NextStatus(windows[w]) \in WindowStates
    BY <2>1, StatusTyped
  <2>3. due \in SUBSET (WindowIds \X WindowStates)
    BY <2>1, <2>2
  <2> HIDE DEF due
  <2>4. q \in VisitRows /\ PatchIsChange(q)
    BY <2>3, NoVisitTyped DEF VisitRows
  <2>5. visit' \in [Visits -> VisitRows] /\ \A x \in Visits : PatchIsChange(visit'[x])
    <3>1. visit' = [visit EXCEPT ![v] = q]
      BY <1>7 DEF ListWindows, Enter, due
    <3> HIDE DEF q
    <3> QED
      BY <2>4, <3>1, EnterTyped
  <2> QED
    BY <1>7, <2>5 DEF ListWindows, MaintenanceInv
<1>8. ASSUME NEW v \in Visits, NEW u \in visit[v].todo, AutoUpdate(v, u) PROVE MaintenanceInv'
  <2>1. visit[v] \in VisitRows /\ visit[v].todo \in SUBSET (WindowIds \X WindowStates)
    BY DEF MaintenanceInv, VisitRows
  <2>2. u[1] \in WindowIds /\ u[2] \in WindowStates
    BY <2>1
  <2>3. [visit[v] EXCEPT !.todo = @ \ {u}] \in VisitRows
        /\ PatchIsChange([visit[v] EXCEPT !.todo = @ \ {u}])
    BY <1>8, <2>1 DEF VisitRows, AutoUpdate
  <2>4. visit' \in [Visits -> VisitRows] /\ \A x \in Visits : PatchIsChange(visit'[x])
    <3>1. visit' = [visit EXCEPT ![v] = [visit[v] EXCEPT !.todo = @ \ {u}]]
      BY <1>8 DEF AutoUpdate
    <3> QED
      BY <2>3, <3>1, EnterTyped
  <2>5. windows' \in [WindowIds -> WindowRows \cup {NoWindow}]
    <3>1. CASE windows[u[1]] = NoWindow
      BY <1>8, <3>1 DEF AutoUpdate, MaintenanceInv
    <3>2. CASE windows[u[1]] # NoWindow
      <4>1. windows[u[1]] \in WindowRows
        BY <2>2, <3>2 DEF MaintenanceInv
      <4>2. [windows[u[1]] EXCEPT !.status = u[2]] \in WindowRows
        BY <2>2, <4>1 DEF WindowRows
      <4>3. windows' = [windows EXCEPT ![u[1]] = [windows[u[1]] EXCEPT !.status = u[2]]]
        BY <1>8, <3>2 DEF AutoUpdate
      <4> QED
        BY <2>2, <4>2, <4>3, WriteTyped
    <3> QED
      BY <3>1, <3>2
  <2> QED
    BY <1>8, <2>4, <2>5 DEF AutoUpdate, MaintenanceInv
<1>9. ASSUME NEW v \in Visits, WriteWindow(v) PROVE MaintenanceInv'
  <2> DEFINE w == visit[v].win
             new == visit[v].set
  <2>1. w \in WindowIds /\ new \in Changes
    BY <1>9 DEF WriteWindow, MaintenanceInv
  <2>2. windows' \in [WindowIds -> WindowRows \cup {NoWindow}]
    <3>1. CASE windows[w] = NoWindow
      BY <1>9, <3>1 DEF WriteWindow, MaintenanceInv
    <3>2. CASE windows[w] # NoWindow
      <4> DEFINE rec == [status |-> IF new.status = Keep THEN windows[w].status ELSE new.status,
                         from |-> IF new.from = KeepTime THEN windows[w].from ELSE new.from,
                         to   |-> IF new.to = KeepTime THEN windows[w].to ELSE new.to]
      <4>1. windows[w] \in WindowRows
        BY <2>1, <3>2 DEF MaintenanceInv
      <4>2. rec \in WindowRows
        BY <2>1, <4>1, ChangeKeepsInterval
      <4>3. windows' = [windows EXCEPT ![w] = rec]
        BY <1>9, <3>2 DEF WriteWindow
      <4> HIDE DEF rec, w
      <4> QED
        BY <2>1, <4>2, <4>3, WriteTyped
    <3> QED
      BY <3>1, <3>2
  <2>3. visit' \in [Visits -> VisitRows] /\ \A x \in Visits : PatchIsChange(visit'[x])
    BY <1>9, NoVisitTyped, EnterTyped DEF WriteWindow, Leave
  <2> QED
    BY <1>9, <2>2, <2>3 DEF WriteWindow, MaintenanceInv
<1>10. ASSUME NEW v \in Visits, Imported(v) \/ ListingDone(v) \/ CreateCalendar(v)
       PROVE MaintenanceInv'
  <2>1. Leave(v) /\ UNCHANGED <<instant, windows>>
    BY <1>10 DEF Imported, ListingDone, CreateCalendar
  <2>2. visit' \in [Visits -> VisitRows] /\ \A x \in Visits : PatchIsChange(visit'[x])
    BY <2>1, NoVisitTyped, EnterTyped DEF Leave
  <2> QED
    BY <2>1, <2>2 DEF MaintenanceInv
<1>11. ASSUME NEW v \in Visits, ReplaceCalendar(v) PROVE MaintenanceInv'
  <2>1. [NoVisit EXCEPT !.op = "calendar"] \in VisitRows
        /\ PatchIsChange([NoVisit EXCEPT !.op = "calendar"])
    BY NoVisitTyped DEF VisitRows, NoVisit
  <2>2. visit' \in [Visits -> VisitRows] /\ \A x \in Visits : PatchIsChange(visit'[x])
    BY <1>11, <2>1, EnterTyped DEF ReplaceCalendar, Enter
  <2> QED
    BY <1>11, <2>2 DEF ReplaceCalendar, MaintenanceInv
<1>12. CASE UNCHANGED maintenanceVars
  BY <1>12 DEF maintenanceVars, MaintenanceInv
<1> QED
  BY <1>1, <1>2, <1>3, <1>4, <1>5, <1>6, <1>7, <1>8, <1>9, <1>10, <1>11, <1>12
  DEF MaintenanceNext

\* A stored window is an interval whatever PATCHes, imports and expiries interleave
\* (maintenance.ts, the check of both bounds before the update).
THEOREM IntervalHolds == MaintenanceSpec => []WindowIsInterval
<1>1. MaintenanceInv => WindowIsInterval
  BY DEF MaintenanceInv, WindowIsInterval, WindowRows
<1> QED
  BY <1>1, MaintenanceInitially, MaintenanceInvariance, PTL DEF MaintenanceSpec

-----------------------------------------------------------------------------
\* Punch alerts.

PunchRows ==
  [status : {"NONE", "OPEN", "ACKNOWLEDGED", "SUPPRESSED"}, until : Int, sent : Int]

PunchCallRows ==
  [op : {"none", "statuses", "notify", "record"}, read : [PunchClients -> PunchRows],
   at : Nat, over : SUBSET PunchClients, rows : SUBSET PunchClients]

\* What a call is still to reopen had expired when it read the rows.
OverHadExpired(q) == q.at <= minute /\ \A c \in q.over : SuppressionOver(q.read[c], q.at)

PunchInv ==
  /\ minute \in Nat
  /\ punchAlert \in [PunchClients -> PunchRows]
  /\ punchCall \in [PunchCalls -> PunchCallRows]
  /\ \A r \in PunchCalls : OverHadExpired(punchCall[r])

LEMMA NoPunchCallTyped ==
  /\ NoPunchAlert \in PunchRows
  /\ NoPunchCall \in PunchCallRows
  /\ NoPunchCall.at = 0 /\ NoPunchCall.over = {}
BY DEF NoPunchCall, NoRows, NoPunchAlert, NeverSent, PunchRows, PunchCallRows

LEMMA PunchRowUpdates ==
  ASSUME NEW x \in PunchRows, NEW s \in {"OPEN", "ACKNOWLEDGED", "SUPPRESSED"}, NEW t \in Int
  PROVE  /\ [x EXCEPT !.status = s, !.until = t] \in PunchRows
         /\ [x EXCEPT !.sent = t, !.status = IF @ = "NONE" THEN "OPEN" ELSE @] \in PunchRows
<1> DEFINE y == [x EXCEPT !.status = s]
           z == [x EXCEPT !.sent = t]
<1>1. y \in PunchRows /\ z \in PunchRows
  BY DEF PunchRows
<1> HIDE DEF y, z
<1>2. [y EXCEPT !.until = t] \in PunchRows
  BY <1>1 DEF PunchRows
<1>3. [z EXCEPT !.status = IF @ = "NONE" THEN "OPEN" ELSE @] \in PunchRows
  BY <1>1 DEF PunchRows
<1> QED
  BY <1>2, <1>3 DEF y, z

LEMMA RecordTyped ==
  ASSUME NEW rows \in SUBSET PunchClients, NEW t \in Nat
  PROVE  LET q == [NoPunchCall EXCEPT !.op = "record", !.rows = rows, !.at = t]
         IN  q \in PunchCallRows /\ q.at = t /\ q.over = {}
<1> DEFINE y == [NoPunchCall EXCEPT !.op = "record"]
           z == [y EXCEPT !.rows = rows]
<1>1. y \in PunchCallRows /\ y.over = {}
  BY NoPunchCallTyped DEF PunchCallRows
<1> HIDE DEF y
<1>2. z \in PunchCallRows /\ z.over = {}
  BY <1>1 DEF PunchCallRows
<1> HIDE DEF z
<1>3. [z EXCEPT !.at = t] \in PunchCallRows /\ [z EXCEPT !.at = t].at = t
      /\ [z EXCEPT !.at = t].over = {}
  BY <1>2 DEF PunchCallRows
<1> QED
  BY <1>3 DEF y, z

\* A step of one call, which may also write one row.
LEMMA PunchCallStep ==
  ASSUME PunchInv, NEW r \in PunchCalls, NEW q \in PunchCallRows, OverHadExpired(q),
         minute' = minute, punchAlert' \in [PunchClients -> PunchRows],
         punchCall' = [punchCall EXCEPT ![r] = q]
  PROVE  PunchInv'
BY DEF PunchInv, OverHadExpired, SuppressionOver

LEMMA PunchRowStep ==
  ASSUME PunchInv, NEW c \in PunchClients, NEW rec \in PunchRows,
         punchAlert' = [punchAlert EXCEPT ![c] = rec]
  PROVE  punchAlert' \in [PunchClients -> PunchRows]
BY DEF PunchInv

\* At start no alert is suppressed and no call is under way.
THEOREM PunchInitially == PunchInit => PunchInv
BY NoPunchCallTyped DEF PunchInit, PunchInv, OverHadExpired

\* Every step of unproc-punch-alert-service.ts keeps it: a call reopens only rows whose
\* suppression was over when it read them, and time does not go back.
THEOREM PunchInvariance == PunchInv /\ [PunchNext]_punchVars => PunchInv'
<1> SUFFICES ASSUME PunchInv, [PunchNext]_punchVars PROVE PunchInv'
  OBVIOUS
<1>0. \A c \in PunchClients : punchAlert[c] \in PunchRows
  BY DEF PunchInv
<1>1. CASE PunchTick
  BY <1>1 DEF PunchTick, PunchInv, OverHadExpired, PunchCallRows, SuppressionOver
<1>2. ASSUME NEW c \in PunchClients, acknowledge(c) PROVE PunchInv'
  <2>1. [punchAlert[c] EXCEPT !.status = "ACKNOWLEDGED", !.until = NeverSent] \in PunchRows
    <3>1. NeverSent \in Int
      BY DEF NeverSent
    <3> QED
      BY <1>0, <3>1, PunchRowUpdates
  <2>2. punchAlert' = [punchAlert EXCEPT ![c] =
          [punchAlert[c] EXCEPT !.status = "ACKNOWLEDGED", !.until = NeverSent]]
    BY <1>2 DEF acknowledge, PunchInv
  <2>3. punchAlert' \in [PunchClients -> PunchRows]
    BY <2>1, <2>2, PunchRowStep
  <2> QED
    BY <1>2, <2>3 DEF acknowledge, PunchInv, OverHadExpired, SuppressionOver
<1>3. ASSUME NEW c \in PunchClients, NEW m \in 1..PunchHorizon, suppress(c, m) PROVE PunchInv'
  <2>1. [punchAlert[c] EXCEPT !.status = "SUPPRESSED", !.until = minute + m] \in PunchRows
    <3>1. minute + m \in Int
      BY DEF PunchInv
    <3> QED
      BY <1>0, <3>1, PunchRowUpdates
  <2>2. punchAlert' = [punchAlert EXCEPT ![c] =
          [punchAlert[c] EXCEPT !.status = "SUPPRESSED", !.until = minute + m]]
    BY <1>3 DEF suppress, PunchInv
  <2>3. punchAlert' \in [PunchClients -> PunchRows]
    BY <2>1, <2>2, PunchRowStep
  <2> QED
    BY <1>3, <2>3 DEF suppress, PunchInv, OverHadExpired, SuppressionOver
<1>4. ASSUME NEW r \in PunchCalls, NEW op \in {"statuses", "notify"},
             NEW rows \in SUBSET PunchClients, getAlertStatuses(r, op, rows)
      PROVE PunchInv'
  <2> DEFINE q == [op |-> op, read |-> punchAlert, at |-> minute,
        over |-> {c \in PunchClients : SuppressionOver(punchAlert[c], minute)}, rows |-> rows]
  <2>1. q \in PunchCallRows
    BY DEF PunchInv, PunchCallRows
  <2>2. OverHadExpired(q)
    BY DEF PunchInv, OverHadExpired
  <2>3. minute' = minute /\ punchAlert' = punchAlert /\ punchCall' = [punchCall EXCEPT ![r] = q]
    BY <1>4 DEF getAlertStatuses
  <2> HIDE DEF q
  <2> QED
    BY <2>1, <2>2, <2>3, PunchCallStep DEF PunchInv
<1>5. ASSUME NEW r \in PunchCalls, NEW c \in PunchClients, ReopenPunchAlert(r, c) PROVE PunchInv'
  <2> DEFINE q == [punchCall[r] EXCEPT !.over = @ \ {c}]
             rec == [punchAlert[c] EXCEPT !.status = "OPEN", !.until = NeverSent]
  <2>1. rec \in PunchRows
    <3>1. NeverSent \in Int
      BY DEF NeverSent
    <3> QED
      BY <1>0, <3>1, PunchRowUpdates
  <2>2. q \in PunchCallRows /\ OverHadExpired(q)
    BY DEF PunchInv, PunchCallRows, OverHadExpired
  <2>3. minute' = minute /\ punchAlert' = [punchAlert EXCEPT ![c] = rec]
        /\ punchCall' = [punchCall EXCEPT ![r] = q]
    BY <1>5 DEF ReopenPunchAlert, PunchInv
  <2> HIDE DEF q, rec
  <2> QED
    BY <2>1, <2>2, <2>3, PunchCallStep, PunchRowStep
<1>6. ASSUME NEW r \in PunchCalls, NEW c \in PunchClients, recordEmailSent(r, c) PROVE PunchInv'
  <2> DEFINE q == [punchCall[r] EXCEPT !.rows = @ \ {c}]
             rec == [punchAlert[c] EXCEPT !.sent = punchCall[r].at,
                                          !.status = IF @ = "NONE" THEN "OPEN" ELSE @]
  <2>1. rec \in PunchRows
    <3>1. punchCall[r].at \in Int
      BY DEF PunchInv, PunchCallRows
    <3> QED
      BY <1>0, <3>1, PunchRowUpdates
  <2>2. q \in PunchCallRows /\ OverHadExpired(q)
    BY DEF PunchInv, PunchCallRows, OverHadExpired
  <2>3. minute' = minute /\ punchAlert' = [punchAlert EXCEPT ![c] = rec]
        /\ punchCall' = [punchCall EXCEPT ![r] = q]
    BY <1>6 DEF recordEmailSent, PunchInv
  <2> HIDE DEF q, rec
  <2> QED
    BY <2>1, <2>2, <2>3, PunchCallStep, PunchRowStep
<1>7. ASSUME NEW r \in PunchCalls, SendPunchMail(r) PROVE PunchInv'
  <2> DEFINE q == [NoPunchCall EXCEPT !.op = "record",
                     !.rows = filterNotifyEligible(punchCall[r]), !.at = minute]
  <2>1. filterNotifyEligible(punchCall[r]) \in SUBSET PunchClients
    BY DEF filterNotifyEligible, PunchInv, PunchCallRows
  <2>2. q \in PunchCallRows /\ OverHadExpired(q)
    <3>1. minute \in Nat
      BY DEF PunchInv
    <3>2. q \in PunchCallRows /\ q.at = minute /\ q.over = {}
      BY <2>1, <3>1, RecordTyped
    <3> HIDE DEF q
    <3> QED
      BY <3>1, <3>2 DEF OverHadExpired
  <2>3. minute' = minute /\ punchAlert' = punchAlert /\ punchCall' = [punchCall EXCEPT ![r] = q]
    BY <1>7 DEF SendPunchMail
  <2> HIDE DEF q
  <2> QED
    BY <2>2, <2>3, PunchCallStep DEF PunchInv
<1>8. ASSUME NEW r \in PunchCalls, PunchAnswer(r) PROVE PunchInv'
  <2>1. OverHadExpired(NoPunchCall)
    BY NoPunchCallTyped DEF PunchInv, OverHadExpired
  <2> QED
    BY <1>8, <2>1, NoPunchCallTyped, PunchCallStep DEF PunchAnswer, PunchInv
<1>9. CASE UNCHANGED punchVars
  BY <1>9 DEF punchVars, PunchInv, OverHadExpired, SuppressionOver
<1> QED
  BY <1>1, <1>2, <1>3, <1>4, <1>5, <1>6, <1>7, <1>8, <1>9 DEF PunchNext

\* Only the loop of a call that lists the client reopens its suppression.
LEMMA ReopenedByCall ==
  ASSUME PunchInv, PunchNext, NEW c \in PunchClients,
         punchAlert[c].status = "SUPPRESSED", punchAlert'[c].status = "OPEN"
  PROVE  \E r \in PunchCalls : ReopenPunchAlert(r, c)
<1>1. punchAlert[c] \in PunchRows
  BY DEF PunchInv
<1>2. ASSUME NEW d \in PunchClients, acknowledge(d) PROVE FALSE
  BY <1>1, <1>2 DEF acknowledge, PunchInv
<1>3. ASSUME NEW d \in PunchClients, NEW m \in 1..PunchHorizon, suppress(d, m) PROVE FALSE
  BY <1>1, <1>3 DEF suppress, PunchInv
<1>4. ASSUME NEW r \in PunchCalls, NEW d \in PunchClients, recordEmailSent(r, d) PROVE FALSE
  BY <1>1, <1>4 DEF recordEmailSent, PunchInv, PunchRows
<1>5. ASSUME NEW r \in PunchCalls, NEW d \in PunchClients, ReopenPunchAlert(r, d), d # c
      PROVE FALSE
  BY <1>1, <1>5 DEF ReopenPunchAlert, PunchInv
<1>6. punchAlert' # punchAlert
  OBVIOUS
<1> QED
  BY <1>2, <1>3, <1>4, <1>5, <1>6
  DEF PunchNext, PunchTick, getAlertStatuses, SendPunchMail, PunchAnswer

\* A suppression that is not over is reopened only by a call that had read an earlier,
\* expired one of the client (getStatuses of unproc-punch-alert-service.ts).
THEOREM SuppressionHolds == PunchSpec => SuppressionOutlivesReads
<1>1. ASSUME PunchInv, [PunchNext]_punchVars, NEW c \in PunchClients,
             punchAlert[c].status = "SUPPRESSED", minute <= punchAlert[c].until,
             punchAlert'[c].status = "OPEN"
      PROVE  \E r \in PunchCalls : /\ c \in punchCall[r].over
                                   /\ punchCall[r].read[c].until < punchAlert[c].until
  <2>1. PunchNext
    BY <1>1 DEF punchVars
  <2>2. PICK r \in PunchCalls : ReopenPunchAlert(r, c)
    BY <1>1, <2>1, ReopenedByCall
  <2>3. c \in punchCall[r].over
    BY <2>2 DEF ReopenPunchAlert
  <2>4. punchCall[r] \in PunchCallRows /\ OverHadExpired(punchCall[r]) /\ punchAlert[c] \in PunchRows
    BY <1>1 DEF PunchInv
  <2>5. punchCall[r].read[c].until \in Int /\ punchCall[r].at \in Nat /\ punchAlert[c].until \in Int
        /\ minute \in Nat
    BY <1>1, <2>4 DEF PunchCallRows, PunchRows, PunchInv
  <2>6. punchCall[r].read[c].until < punchCall[r].at /\ punchCall[r].at <= minute
    BY <2>3, <2>4 DEF OverHadExpired, SuppressionOver
  <2> QED
    BY <1>1, <2>3, <2>5, <2>6
<1>2. PunchInv /\ [PunchNext]_punchVars =>
        [\A c \in PunchClients :
           /\ punchAlert[c].status = "SUPPRESSED" /\ minute <= punchAlert[c].until
           /\ punchAlert'[c].status = "OPEN"
           => \E r \in PunchCalls :
                /\ c \in punchCall[r].over
                /\ punchCall[r].read[c].until < punchAlert[c].until]_punchVars
  BY <1>1
<1> QED
  BY <1>2, PunchInitially, PunchInvariance, PTL DEF PunchSpec, SuppressionOutlivesReads

-----------------------------------------------------------------------------
\* Status checks.

\* A timer is the only one of its run and precedes its check; a check has begun only
\* after its run; and a timer whose key has been forgotten is of a run in the past.
CheckInv ==
  /\ time \in 0 .. CheckHorizon /\ eligible \subseteq CheckJobs
  /\ queued \subseteq CheckKeys /\ checking \subseteq fired /\ fired \subseteq CheckKeys
  /\ armed \in [CheckKeys -> {0, 1}]
  /\ \A k \in fired : armed[k] = 0 /\ k[2] <= time
  /\ \A k \in CheckKeys : armed[k] = 1 /\ k \notin queued => k[2] <= time

LEMMA NextMultiple ==
  ASSUME NEW n \in Nat, NEW p \in Nat \ {0}
  PROVE  \E m \in (n + 1) .. (n + p) :
            /\ m % p = 0
            /\ \A u \in Nat : u > n /\ u % p = 0 => m <= u
<1> DEFINE m == n + p - (n % p)
<1>1. n % p \in 0 .. p - 1
  OBVIOUS
<1>2. m \in (n + 1) .. (n + p)
  BY <1>1
<1>3. m % p = 0
  OBVIOUS
<1>4. ASSUME NEW u \in Nat, u > n, u % p = 0 PROVE m <= u
  <2>1. u = p * (u \div p) /\ u \div p \in Nat
    BY <1>4
  <2>2. n = p * (n \div p) + (n % p) /\ n \div p \in Nat
    OBVIOUS
  <2>3. u \div p > n \div p
    <3> DEFINE a == u \div p
               b == n \div p
    <3>1. SUFFICES ASSUME ~ (a > b) PROVE FALSE
      OBVIOUS
    <3>2. b - a \in Nat
      BY <2>1, <2>2, <3>1
    <3>3. p * (b - a) >= 0
      BY <3>2
    <3>4. p * b >= p * a
      BY <3>3, <2>1, <2>2
    <3> QED
      BY <1>1, <1>4, <2>1, <2>2, <3>4
  <2>4. u \div p - n \div p - 1 \in Nat
    BY <2>1, <2>2, <2>3
  <2>5. p * (u \div p - n \div p - 1) >= 0
    BY <2>4
  <2>6. p * (u \div p) - p * (n \div p) - p >= 0
    BY <2>5, <2>1, <2>2
  <2> QED
    BY <1>1, <2>1, <2>2, <2>6
<1> QED
  BY <1>2, <1>3, <1>4

\* There is a next run, and it is yet to come.
LEMMA NextRunIsAhead ==
  ASSUME time \in 0 .. CheckHorizon
  PROVE  NextRun \in Runs /\ NextRun > time
<1>1. time \in Nat /\ Period \in Nat \ {0} /\ CheckHorizon \in Nat /\ time <= CheckHorizon
  BY CheckAssumption
<1>2. PICK m \in (time + 1) .. (time + Period) :
        m % Period = 0 /\ \A u \in Nat : u > time /\ u % Period = 0 => m <= u
  BY <1>1, NextMultiple
<1>3. m \in Runs /\ m > time
  BY <1>1, <1>2 DEF Runs
<1>4. \A u \in Runs : u > time => m <= u
  BY <1>2 DEF Runs
<1> QED
  BY <1>3, <1>4 DEF NextRun

\* At start no check is queued, armed or under way.
THEOREM CheckInitially == CheckInit => CheckInv
BY CheckAssumption DEF CheckInit, CheckInv

\* Every step of the scheduler keeps it: scan, timer, check, cleanup, stop and start.
THEOREM CheckInvariance == CheckInv /\ [CheckNext]_checkVars => CheckInv'
<1> SUFFICES ASSUME CheckInv, [CheckNext]_checkVars PROVE CheckInv'
  OBVIOUS
<1>0. \A k \in CheckKeys : k[2] \in Nat
  BY DEF CheckKeys, Runs
<1>1. CASE CheckTick
  BY <1>0, <1>1, CheckAssumption DEF CheckTick, CheckInv
<1>2. CASE Start \/ Toggle \/ ScanBegins
  BY <1>2 DEF Start, Toggle, ScanBegins, CheckInv
<1>3. CASE Stop
  BY <1>3 DEF Stop, CheckInv
<1>4. CASE Exit
  BY <1>4 DEF Exit, CheckInv
<1>5. CASE ScanEnds
  <2>1. \A k \in Queue : k \in CheckKeys /\ k[2] > time /\ k \notin queued
    <3>1. NextRun \in Runs /\ NextRun > time
      BY NextRunIsAhead DEF CheckInv
    <3> QED
      BY <3>1 DEF Queue, CheckInv, CheckKeys
  <2>2. \A k \in Queue : armed[k] = 0 /\ k \notin fired
    BY <1>0, <2>1, CheckAssumption DEF CheckInv
  <2>3. armed' \in [CheckKeys -> {0, 1}]
    BY <1>5, <2>2 DEF ScanEnds, CheckInv
  <2>4. \A k \in CheckKeys : armed'[k] = 1 /\ k \notin queued' => k[2] <= time
    <3> SUFFICES ASSUME NEW k \in CheckKeys, armed'[k] = 1, k \notin queued' PROVE k[2] <= time
      OBVIOUS
    <3>1. k[2] \in Nat /\ time \in Nat /\ Delay \in Nat
      BY <1>0, CheckAssumption DEF CheckInv
    <3>2. CASE k \in queued \cup Queue
      BY <1>5, <3>1, <3>2 DEF ScanEnds
    <3>3. CASE k \notin queued \cup Queue
      BY <1>5, <3>3 DEF ScanEnds, CheckInv
    <3> QED
      BY <3>2, <3>3
  <2>5. \A k \in fired : armed'[k] = 0
    BY <1>5, <2>2 DEF ScanEnds, CheckInv
  <2>6. queued' \subseteq CheckKeys
    BY <1>5, <2>1 DEF ScanEnds, CheckInv
  <2> QED
    BY <1>5, <2>3, <2>4, <2>5, <2>6 DEF ScanEnds, CheckInv
<1>6. ASSUME NEW k \in CheckKeys, Fire(k) PROVE CheckInv'
  <2>1. k[2] <= time /\ armed[k] = 1
    BY <1>0, <1>6, CheckAssumption DEF Fire, Due, CheckInv
  <2> QED
    BY <1>6, <2>1 DEF Fire, CheckInv
<1>7. ASSUME NEW k \in CheckKeys, CheckEnds(k) PROVE CheckInv'
  BY <1>7 DEF CheckEnds, CheckInv
<1>8. CASE UNCHANGED checkVars
  BY <1>8 DEF checkVars, CheckInv
<1> QED
  BY <1>1, <1>2, <1>3, <1>4, <1>5, <1>6, <1>7, <1>8 DEF CheckNext

\* Each run of a job is checked at most once, through repeated scans, cleanups, stops and
\* starts (scheduler.ts, pendingStatusChecks).
THEOREM CheckedOnce == CheckSpec => []ChecksOnce
<1>1. CheckInv => ChecksOnce
  BY DEF CheckInv, ChecksOnce
<1> QED
  BY <1>1, CheckInitially, CheckInvariance, PTL DEF CheckSpec

-----------------------------------------------------------------------------
\* Payroll snapshot.

PaySlots == PayClients \X StoreGroups

PayQueueRows ==
  [status : {"R", "S"}, last : Int, jobs : BOOLEAN, total : Nat, pending : Nat,
   schedule : Schedules]

PayGens ==
  [group : StoreGroups, running : BOOLEAN, last : Int, jobs : BOOLEAN, schedule : Schedules]

PayScans ==
  [stage : {"idle", "waiting", "periods", "queue", "units", "scanned"}, gens : SUBSET PayGens]

PayRowsTyped == \A r \in payRows : r.client \in PayClients

PayTypeOK ==
  /\ payTime \in Int
  /\ queue \in [PaySlots -> PayQueueRows]
  /\ scan \in [PayClients -> PayScans]
  /\ PayRowsTyped

\* The generators a client has still to be asked about are of different groups,
\* and none of them has a row.
GensWithoutRow ==
  \A c \in PayClients : scan[c].stage = "units" =>
    /\ scan[c].gens # {}
    /\ \A g, h \in scan[c].gens : g.group = h.group => g = h
    /\ \A g \in scan[c].gens, r \in payRows : r.client = c => r.group # g.group

\* A client has rows once its queue has been read, and one when it is done.
RowsFollowScan ==
  /\ \A r \in payRows : scan[r.client].stage \in {"units", "scanned"}
  /\ \A c \in PayClients : scan[c].stage = "scanned" => \E r \in payRows : r.client = c

OneRowEach ==
  \A r, s \in payRows : r.client = s.client /\ r.group = s.group => r = s

\* Files that have been written stay.
CompleteStays ==
  \A r \in payRows :
    r.phase = "complete" => /\ r.group \in StoreGroups
                            /\ queue[<<r.client, r.group>>].pending = 0

PayInv == PayTypeOK /\ GensWithoutRow /\ RowsFollowScan /\ OneRowEach /\ CompleteStays

\* A client without rows: one whose queue has not been read.
LEMMA NoRowsYet ==
  ASSUME PayInv, NEW c \in PayClients, scan[c].stage \in {"waiting", "periods", "queue"}
  PROVE  \A r \in payRows : r.client # c
BY DEF PayInv, RowsFollowScan

LEMMA ClientsTyped ==
  ASSUME PayInv
  PROVE  /\ \A r \in payRows : r.client \in PayClients
         /\ \A c \in PayClients : scan[c] \in PayScans
         /\ scan \in [PayClients -> PayScans]
         /\ queue \in [PaySlots -> PayQueueRows]
BY DEF PayInv, PayTypeOK, PayRowsTyped

LEMMA OnlyWholeIsComplete ==
  ASSUME NEW g, NEW total \in Nat, NEW pending \in Nat, NEW now
  PROVE  classifyMonitorPhase(g, total, pending, now) = "complete" => pending = 0
BY DEF classifyMonitorPhase

\* At start no client has been scanned and the snapshot is empty.
THEOREM PayInitially == PayInit => PayInv
<1> SUFFICES ASSUME PayInit PROVE PayInv
  OBVIOUS
<1>1. \A s \in PaySlots : queue[s] \in PayQueueRows
  <2> SUFFICES ASSUME NEW s \in PaySlots PROVE queue[s] \in PayQueueRows
    OBVIOUS
  <2>1. PICK n \in {<<0, 0>>, <<1, 0>>, <<1, 1>>}, sc \in Schedules :
          queue[s] = [status |-> "R", last |-> NoTime, jobs |-> FALSE, total |-> n[1],
                      pending |-> n[2], schedule |-> sc]
    BY DEF PayInit, Queues, PaySlots
  <2>2. n[1] \in Nat /\ n[2] \in Nat /\ NoTime \in Int
    BY DEF NoTime
  <2> QED
    BY <2>1, <2>2 DEF PayQueueRows
<1>2. queue \in [PaySlots -> PayQueueRows]
  BY <1>1 DEF PayInit, Queues, PaySlots
<1> QED
  BY <1>2 DEF PayInit, PayInv, PayTypeOK, PayRowsTyped, PayScans, NotScanned, GensWithoutRow,
              RowsFollowScan, OneRowEach, CompleteStays

\* A client that has no rows yet gets an error row and is done.
LEMMA ErrorRowStep ==
  ASSUME PayInv, NEW c \in PayClients, ErrorRow(c), scan[c].stage \in {"periods", "queue"}
  PROVE  PayInv'
<1> DEFINE new == [client |-> c, group |-> NoGroup, phase |-> "unknown", stalled |-> FALSE]
<1>1. payRows' = payRows \cup {new} /\ queue' = queue
      /\ scan' = [scan EXCEPT ![c] = [scan[c] EXCEPT !.stage = "scanned"]]
  BY DEF ErrorRow, PayInv, PayTypeOK
<1>2. [scan[c] EXCEPT !.stage = "scanned"] \in PayScans
  BY DEF PayInv, PayTypeOK, PayScans
<1>3. \A r \in payRows : r.client # c /\ r.client \in PayClients
  BY NoRowsYet, ClientsTyped
<1>4. PayTypeOK'
  <2>1. new.client = c
    OBVIOUS
  <2> HIDE DEF new
  <2>2. \A r \in payRows' : r.client \in PayClients
    BY <1>1, <2>1, ClientsTyped
  <2>3. scan' \in [PayClients -> PayScans]
    BY <1>1, <1>2, ClientsTyped
  <2> QED
    BY <1>1, <2>2, <2>3 DEF PayInv, PayTypeOK, PayRowsTyped, ErrorRow
<1>5. GensWithoutRow'
  <2> SUFFICES ASSUME NEW d \in PayClients, scan'[d].stage = "units"
               PROVE  /\ scan'[d].gens # {}
                      /\ \A x, y \in scan'[d].gens : x.group = y.group => x = y
                      /\ \A x \in scan'[d].gens, r \in payRows' : r.client = d => r.group # x.group
    BY DEF GensWithoutRow
  <2>1. d # c /\ scan'[d] = scan[d]
    BY <1>1, <1>2, ClientsTyped
  <2>2. new.client = c
    OBVIOUS
  <2> HIDE DEF new
  <2> QED
    BY <1>1, <2>1, <2>2 DEF PayInv, GensWithoutRow
<1>6. RowsFollowScan'
  <2>1. new.client = c
    OBVIOUS
  <2> HIDE DEF new
  <2>2. \A d \in PayClients : d # c => scan'[d] = scan[d]
    BY <1>1, ClientsTyped
  <2>3. scan'[c].stage = "scanned"
    BY <1>1, ClientsTyped DEF PayScans
  <2> QED
    BY <1>1, <1>3, <2>1, <2>2, <2>3 DEF PayInv, RowsFollowScan
<1>7. OneRowEach'
  <2>1. new.client = c
    OBVIOUS
  <2> HIDE DEF new
  <2> QED
    BY <1>1, <1>3, <2>1 DEF PayInv, OneRowEach
<1>8. CompleteStays'
  BY <1>1 DEF PayInv, CompleteStays
<1> QED
  BY <1>4, <1>5, <1>6, <1>7, <1>8 DEF PayInv

\* A client moves to another stage and has no rows.
LEMMA RowlessStep ==
  ASSUME PayInv, NEW c \in PayClients, scan[c].stage \in {"waiting", "periods", "queue"},
         NEW s \in PayScans, s.stage \in {"periods", "queue", "units"},
         s.stage = "units" => /\ s.gens # {}
                              /\ \A g, h \in s.gens : g.group = h.group => g = h,
         scan' = [scan EXCEPT ![c] = s], UNCHANGED <<payTime, queue, payRows>>
  PROVE  PayInv'
<1>1. \A r \in payRows : r.client # c /\ r.client \in PayClients
  BY NoRowsYet, ClientsTyped
<1>2. PayTypeOK'
  <2>1. scan' \in [PayClients -> PayScans]
    BY ClientsTyped
  <2> QED
    BY <2>1 DEF PayInv, PayTypeOK, PayRowsTyped
<1>3. GensWithoutRow'
  BY <1>1 DEF PayInv, PayTypeOK, GensWithoutRow
<1>4. RowsFollowScan'
  BY <1>1 DEF PayInv, PayTypeOK, RowsFollowScan
<1> QED
  BY <1>2, <1>3, <1>4 DEF PayInv, OneRowEach, CompleteStays

\* A group is rated, or gets an error row.
LEMMA UnitsStep ==
  ASSUME PayInv, NEW c \in PayClients, NEW g \in scan[c].gens, Units(c, g)
  PROVE  PayInv'
<1> DEFINE q == queue[<<c, g.group>>]
           rec == [client |-> c, group |-> g.group,
                   phase |-> classifyMonitorPhase(g, q.total, q.pending, payTime),
                   stalled |-> evaluateStalledGeneration(g, q.pending, payTime)]
           bad == [client |-> c, group |-> g.group, phase |-> "unknown", stalled |-> FALSE]
           s == [stage |-> IF scan[c].gens = {g} THEN "scanned" ELSE "units",
                 gens |-> scan[c].gens \ {g}]
<1>1. scan[c] \in PayScans /\ g \in PayGens /\ g.group \in StoreGroups
  <2>1. scan[c] \in PayScans
    BY ClientsTyped
  <2>2. g \in PayGens
    BY <2>1 DEF PayScans
  <2> QED
    BY <2>1, <2>2 DEF PayGens
<1>2. q \in PayQueueRows
  BY <1>1 DEF PayInv, PayTypeOK, PaySlots
<1>3. rec.phase = "complete" => q.pending = 0
  BY <1>2, OnlyWholeIsComplete DEF PayQueueRows
<1>4. \E r \in {rec, bad} : payRows' = payRows \cup {r}
  <2>1. [rec EXCEPT !.phase = "unknown", !.stalled = FALSE] = bad
    <3> DEFINE half == [rec EXCEPT !.phase = "unknown"]
    <3>1. half = [client |-> c, group |-> g.group, phase |-> "unknown", stalled |-> rec.stalled]
      OBVIOUS
    <3> HIDE DEF rec, half
    <3>2. ASSUME NEW off
          PROVE  [half EXCEPT !.stalled = off]
                 = [client |-> c, group |-> g.group, phase |-> "unknown", stalled |-> off]
      BY <3>1
    <3>3. [half EXCEPT !.stalled = FALSE] = bad
      BY <3>2
    <3> QED
      BY <3>3 DEF half
  <2>2. \/ payRows' = payRows \cup {rec}
        \/ payRows' = payRows \cup {[rec EXCEPT !.phase = "unknown", !.stalled = FALSE]}
    BY DEF Units
  <2> QED
    BY <2>1, <2>2
<1>5. PICK new : /\ payRows' = payRows \cup {new}
                 /\ new.client = c /\ new.group = g.group
                 /\ new.phase = "complete" => q.pending = 0
  BY <1>1, <1>3, <1>4
<1>6. queue' = queue /\ scan' = [scan EXCEPT ![c] = s] /\ scan[c].stage = "units"
  BY DEF Units
<1>7. s \in PayScans
  BY <1>1 DEF PayScans
<1>8. \A r \in payRows : r.client = c => r.group # g.group
  BY <1>6 DEF PayInv, GensWithoutRow
<1> HIDE DEF rec, bad
<1>9. PayTypeOK'
  <2>1. scan' \in [PayClients -> PayScans]
    BY <1>6, <1>7, ClientsTyped
  <2>2. \A r \in payRows' : r.client \in PayClients
    BY <1>5, ClientsTyped
  <2> QED
    BY <1>6, <2>1, <2>2 DEF PayInv, PayTypeOK, PayRowsTyped, Units
<1>10. GensWithoutRow'
  <2> SUFFICES ASSUME NEW d \in PayClients, scan'[d].stage = "units"
               PROVE  /\ scan'[d].gens # {}
                      /\ \A x, y \in scan'[d].gens : x.group = y.group => x = y
                      /\ \A x \in scan'[d].gens, r \in payRows' : r.client = d => r.group # x.group
    BY DEF GensWithoutRow
  <2>1. CASE d = c
    <3>1. scan'[d] = s /\ scan[c].gens # {g}
      BY <1>6, <2>1 DEF PayInv, PayTypeOK
    <3>2. \A x \in s.gens : x \in scan[c].gens /\ x # g
      OBVIOUS
    <3>3. \A x \in s.gens : x.group # g.group
      BY <1>6, <3>2 DEF PayInv, GensWithoutRow
    <3>4. \A x, y \in s.gens : x.group = y.group => x = y
      BY <1>6, <3>2 DEF PayInv, GensWithoutRow
    <3>5. \A x \in s.gens, r \in payRows' : r.client = d => r.group # x.group
      BY <1>5, <1>6, <2>1, <3>2, <3>3 DEF PayInv, GensWithoutRow
    <3>6. s.gens # {}
      BY <3>1
    <3> QED
      BY <3>1, <3>4, <3>5, <3>6
  <2>2. CASE d # c
    BY <1>5, <1>6, <2>2 DEF PayInv, PayTypeOK, GensWithoutRow
  <2> QED
    BY <2>1, <2>2
<1>11. RowsFollowScan'
  BY <1>5, <1>6 DEF PayInv, PayTypeOK, PayRowsTyped, RowsFollowScan
<1>12. OneRowEach'
  BY <1>5, <1>8 DEF PayInv, OneRowEach
<1>13. CompleteStays'
  BY <1>1, <1>5, <1>6 DEF PayInv, CompleteStays
<1> QED
  BY <1>9, <1>10, <1>11, <1>12, <1>13 DEF PayInv

LEMMA GeneratorStep ==
  ASSUME PayInv, NEW c \in PayClients, NEW g \in StoreGroups, Generator(c, g)
  PROVE  PayInv'
<1>1. queue[<<c, g>>] \in PayQueueRows /\ UNCHANGED <<scan, payRows>>
  BY DEF Generator, PayInv, PayTypeOK, PaySlots
<1>2. \E rec \in PayQueueRows :
        /\ queue' = [queue EXCEPT ![<<c, g>>] = rec]
        /\ queue[<<c, g>>].pending = 0 => rec.pending = 0
  <2>1. ASSUME NEW jobs \in BOOLEAN,
               queue' = [queue EXCEPT ![<<c, g>>] = [@ EXCEPT !.status = "R", !.jobs = jobs]]
        PROVE  \E rec \in PayQueueRows :
                 /\ queue' = [queue EXCEPT ![<<c, g>>] = rec]
                 /\ queue[<<c, g>>].pending = 0 => rec.pending = 0
    <3> DEFINE x == [queue[<<c, g>>] EXCEPT !.status = "R"]
               y == [x EXCEPT !.jobs = jobs]
    <3>1. x \in PayQueueRows /\ x.pending = queue[<<c, g>>].pending
      BY <1>1 DEF PayQueueRows
    <3> HIDE DEF x
    <3>2. y \in PayQueueRows /\ y.pending = x.pending
      BY <3>1 DEF PayQueueRows
    <3>3. queue' = [queue EXCEPT ![<<c, g>>] = y]
      BY <2>1 DEF x
    <3> HIDE DEF y
    <3> QED
      BY <3>1, <3>2, <3>3
  <2>2. ASSUME NEW n \in 0..queue[<<c, g>>].pending,
               queue' = [queue EXCEPT ![<<c, g>>] =
                           [@ EXCEPT !.status = "S", !.last = payTime, !.pending = n]],
               payTime \in Int
        PROVE  \E rec \in PayQueueRows :
                 /\ queue' = [queue EXCEPT ![<<c, g>>] = rec]
                 /\ queue[<<c, g>>].pending = 0 => rec.pending = 0
    <3> DEFINE x == [queue[<<c, g>>] EXCEPT !.status = "S"]
               y == [x EXCEPT !.last = payTime]
               z == [y EXCEPT !.pending = n]
    <3>1. x \in PayQueueRows
      BY <1>1 DEF PayQueueRows
    <3> HIDE DEF x
    <3>2. y \in PayQueueRows
      BY <2>2, <3>1 DEF PayQueueRows
    <3> HIDE DEF y
    <3>3. n \in Nat /\ (queue[<<c, g>>].pending = 0 => n = 0)
      BY <1>1 DEF PayQueueRows
    <3>4. z \in PayQueueRows /\ z.pending = n
      BY <3>2, <3>3 DEF PayQueueRows
    <3>5. queue' = [queue EXCEPT ![<<c, g>>] = z]
      BY <2>2 DEF x, y
    <3> HIDE DEF z
    <3> QED
      BY <3>3, <3>4, <3>5
  <2>3. payTime \in Int
    BY DEF PayInv, PayTypeOK
  <2> QED
    BY <2>1, <2>2, <2>3 DEF Generator
<1>3. PICK rec \in PayQueueRows :
        /\ queue' = [queue EXCEPT ![<<c, g>>] = rec]
        /\ queue[<<c, g>>].pending = 0 => rec.pending = 0
  BY <1>2
<1>4. PayTypeOK'
  <2>1. queue' \in [PaySlots -> PayQueueRows]
    BY <1>3, ClientsTyped DEF PaySlots
  <2> QED
    BY <1>1, <2>1 DEF PayInv, PayTypeOK, PayRowsTyped, Generator
<1>5. CompleteStays'
  <2> SUFFICES ASSUME NEW r \in payRows, r.phase = "complete"
               PROVE  r.group \in StoreGroups /\ queue'[r.client, r.group].pending = 0
    BY <1>1 DEF CompleteStays
  <2>1. r.group \in StoreGroups /\ r.client \in PayClients
        /\ queue[<<r.client, r.group>>].pending = 0
    BY DEF PayInv, CompleteStays, PayTypeOK, PayRowsTyped
  <2> QED
    BY <1>3, <2>1 DEF PayInv, PayTypeOK, PaySlots
<1> QED
  BY <1>1, <1>4, <1>5 DEF PayInv, GensWithoutRow, RowsFollowScan, OneRowEach

\* Every step of a snapshot keeps it: a row is added for a generator that had none.
THEOREM PayInvariance == PayInv /\ [PayNext]_payVars => PayInv'
<1> SUFFICES ASSUME PayInv, [PayNext]_payVars PROVE PayInv'
  OBVIOUS
<1>1. CASE StartSnapshot
  BY <1>1 DEF StartSnapshot, PayInv, PayTypeOK, PayRowsTyped, PayScans, NotScanned,
              GensWithoutRow, RowsFollowScan, OneRowEach, CompleteStays
<1>2. CASE PayTick
  BY <1>2 DEF PayTick, PayInv, PayTypeOK, PayRowsTyped, GensWithoutRow,
              RowsFollowScan, OneRowEach, CompleteStays
<1>3. ASSUME NEW c \in PayClients, NextClient(c) PROVE PayInv'
  <2> DEFINE s == [scan[c] EXCEPT !.stage = "periods"]
  <2>1. s \in PayScans /\ s.stage = "periods"
    BY ClientsTyped DEF PayScans
  <2> HIDE DEF s
  <2>2. [scan EXCEPT ![c].stage = "periods"] = [scan EXCEPT ![c] = s]
    BY DEF s
  <2> QED
    BY <1>3, <2>1, <2>2, RowlessStep DEF NextClient
<1>4. ASSUME NEW c \in PayClients, Periods(c) PROVE PayInv'
  <2> DEFINE s == [scan[c] EXCEPT !.stage = "queue"]
  <2>1. s \in PayScans /\ s.stage = "queue"
    BY ClientsTyped DEF PayScans
  <2> HIDE DEF s
  <2>2. [scan EXCEPT ![c].stage = "queue"] = [scan EXCEPT ![c] = s]
    BY DEF s
  <2> QED
    BY <1>4, <2>1, <2>2, RowlessStep, ErrorRowStep DEF Periods
<1>5. ASSUME NEW c \in PayClients, Generators(c) PROVE PayInv'
  <2> DEFINE on == {g \in StoreGroups : queue[<<c, g>>].status = "R"}
             Gen(g) == [group |-> g, running |-> queue[<<c, g>>].status = "R",
                        last |-> queue[<<c, g>>].last, jobs |-> queue[<<c, g>>].jobs,
                        schedule |-> queue[<<c, g>>].schedule]
             s == [stage |-> "units", gens |-> {Gen(g) : g \in on}]
  <2>1. CASE on # {} /\ scan' = [scan EXCEPT ![c] = s] /\ UNCHANGED <<payTime, queue, payRows>>
    <3>1. \A g \in on : queue[<<c, g>>] \in PayQueueRows
      BY DEF PayInv, PayTypeOK, PaySlots
    <3>2. \A g \in on : Gen(g) \in PayGens /\ Gen(g).group = g
      BY <3>1 DEF PayGens, PayQueueRows
    <3> HIDE DEF Gen
    <3>3. s \in PayScans
      BY <3>2 DEF PayScans
    <3>4. s.gens # {} /\ \A g, h \in s.gens : g.group = h.group => g = h
      <4>1. s.gens = {Gen(g) : g \in on}
        OBVIOUS
      <4> HIDE DEF s
      <4>2. \A x \in s.gens : \E g \in on : x = Gen(g) /\ x.group = g
        BY <3>2, <4>1
      <4>3. \E g \in on : Gen(g) \in s.gens
        BY <2>1, <4>1
      <4> QED
        BY <4>2, <4>3
    <3>5. s.stage = "units" /\ scan[c].stage = "queue"
      BY <1>5 DEF Generators
    <3> HIDE DEF s
    <3> QED
      BY <2>1, <3>3, <3>4, <3>5, RowlessStep
  <2>2. CASE ErrorRow(c)
    BY <1>5, <2>2, ErrorRowStep DEF Generators
  <2> QED
    BY <1>5, <2>1, <2>2 DEF Generators
<1>6. CASE UNCHANGED payVars
  BY <1>6 DEF payVars, PayInv, PayTypeOK, PayRowsTyped, GensWithoutRow,
              RowsFollowScan, OneRowEach, CompleteStays
<1> QED
  BY <1>1, <1>2, <1>3, <1>4, <1>5, <1>6, UnitsStep, GeneratorStep DEF PayNext, ScanStep

\* In a finished snapshot no client is missing, no row is doubled and a group called complete
\* has all its files, whatever its queue does meanwhile (payroll-service.ts, constants/payroll.ts).
THEOREM SnapshotHolds == PaySpec => []SnapshotIsSound
<1>1. PayInv => SnapshotIsSound
  <2> SUFFICES ASSUME PayInv, SnapshotDone
               PROVE  /\ {r.client : r \in payRows} = PayClients
                      /\ \A r, s \in payRows : r.client = s.client /\ r.group = s.group => r = s
                      /\ \A r \in payRows :
                           r.phase = "complete" => queue[<<r.client, r.group>>].pending = 0
    BY DEF SnapshotIsSound
  <2>1. {r.client : r \in payRows} = PayClients
    BY DEF PayInv, PayTypeOK, PayRowsTyped, RowsFollowScan, SnapshotDone
  <2> QED
    BY <2>1 DEF PayInv, OneRowEach, CompleteStays
<1> QED
  BY <1>1, PayInitially, PayInvariance, PTL DEF PaySpec

\* What the run payroll_stalled shows on one schedule holds on all of them: the rows the
\* scan reads are those of queues that run, so what it rates is never idle.
NeverIdle ==
  /\ \A c \in PayClients : \A g \in scan[c].gens : g.running = TRUE
  /\ \A r \in payRows : r.stalled = FALSE

LEMMA RunningIsNotStalled ==
  ASSUME NEW g, g.running = TRUE, NEW pending, NEW now
  PROVE  evaluateStalledGeneration(g, pending, now) = FALSE
BY DEF evaluateStalledGeneration

\* A client leaves a stage without generators, with an error row or with none.
LEMMA IdleStage ==
  ASSUME PayInv, NeverIdle, NEW c \in PayClients, NEW st,
         \/ scan' = [scan EXCEPT ![c].stage = st]
         \/ UNCHANGED scan,
         \/ payRows' = payRows \cup {[client |-> c, group |-> NoGroup, phase |-> "unknown",
                                      stalled |-> FALSE]}
         \/ UNCHANGED payRows
  PROVE  NeverIdle'
<1>1. \A d \in PayClients : scan'[d].gens = scan[d].gens
  BY ClientsTyped DEF PayScans
<1>2. \A r \in payRows' : r.stalled = FALSE
  BY DEF NeverIdle
<1> QED
  BY <1>1, <1>2 DEF NeverIdle

LEMMA IdleUnits ==
  ASSUME PayInv, NeverIdle, NEW c \in PayClients, NEW g \in scan[c].gens, Units(c, g)
  PROVE  NeverIdle'
<1> DEFINE q == queue[<<c, g.group>>]
           phase == classifyMonitorPhase(g, q.total, q.pending, payTime)
           flag == evaluateStalledGeneration(g, q.pending, payTime)
           rec == [client |-> c, group |-> g.group, phase |-> phase, stalled |-> flag]
           half == [rec EXCEPT !.phase = "unknown"]
           s == [stage |-> IF scan[c].gens = {g} THEN "scanned" ELSE "units",
                 gens |-> scan[c].gens \ {g}]
<1>1. flag = FALSE
  BY RunningIsNotStalled DEF NeverIdle
<1>2. payRows' = payRows \cup {rec} \/ payRows' = payRows \cup {[half EXCEPT !.stalled = FALSE]}
  BY DEF Units
<1>3. scan' = [scan EXCEPT ![c] = s]
  BY DEF Units
<1>4. \A d \in PayClients : scan'[d].gens \subseteq scan[d].gens
  <2>1. s.gens \subseteq scan[c].gens
    OBVIOUS
  <2> HIDE DEF s
  <2> QED
    BY <1>3, <2>1, ClientsTyped
<1> HIDE DEF phase, flag
<1>5. rec.stalled = FALSE
  BY <1>1
<1>6. [half EXCEPT !.stalled = FALSE].stalled = FALSE
  <2>1. half = [client |-> c, group |-> g.group, phase |-> "unknown", stalled |-> flag]
    OBVIOUS
  <2> HIDE DEF half
  <2> QED
    BY <2>1
<1> HIDE DEF rec, half, s
<1> QED
  BY <1>2, <1>4, <1>5, <1>6 DEF NeverIdle

LEMMA IdleGenerators ==
  ASSUME PayInv, NeverIdle, NEW c \in PayClients, Generators(c)
  PROVE  NeverIdle'
<1> DEFINE on == {g \in StoreGroups : queue[<<c, g>>].status = "R"}
           Gen(g) == [group |-> g, running |-> queue[<<c, g>>].status = "R",
                      last |-> queue[<<c, g>>].last, jobs |-> queue[<<c, g>>].jobs,
                      schedule |-> queue[<<c, g>>].schedule]
           s == [stage |-> "units", gens |-> {Gen(g) : g \in on}]
<1>1. CASE scan' = [scan EXCEPT ![c] = s] /\ UNCHANGED payRows
  <2>1. \A g \in on : Gen(g).running = TRUE
    OBVIOUS
  <2>2. s.gens = {Gen(g) : g \in on}
    OBVIOUS
  <2> HIDE DEF Gen, s
  <2>3. \A x \in s.gens : x.running = TRUE
    BY <2>1, <2>2
  <2> HIDE DEF on
  <2> QED
    BY <1>1, <2>3, ClientsTyped DEF NeverIdle
<1>2. CASE ErrorRow(c)
  BY <1>2, IdleStage DEF ErrorRow
<1> QED
  BY <1>1, <1>2 DEF Generators

\* Idle generators with units still to do are what the flag is for; the scan reads the
\* queues with QUEUE_STATUS = 'R' and calls those running, so no snapshot ever has a
\* flagged row, for any clock, grace time and schedule (payroll-service.ts 756, 770).
THEOREM NeverStalled == PaySpec => [](\A r \in payRows : ~ r.stalled)
<1>1. PayInit => NeverIdle
  BY DEF PayInit, NeverIdle, NotScanned
<1>2. PayInv /\ NeverIdle /\ [PayNext]_payVars => NeverIdle'
  <2> SUFFICES ASSUME PayInv, NeverIdle, [PayNext]_payVars PROVE NeverIdle'
    OBVIOUS
  <2>1. CASE StartSnapshot
    BY <2>1 DEF StartSnapshot, NeverIdle, NotScanned
  <2>2. CASE PayTick \/ UNCHANGED payVars
    BY <2>2 DEF PayTick, payVars, NeverIdle
  <2>3. ASSUME NEW c \in PayClients, NextClient(c) \/ Periods(c) PROVE NeverIdle'
    BY <2>3, IdleStage DEF NextClient, Periods, ErrorRow
  <2>4. ASSUME NEW c \in PayClients, NEW g \in StoreGroups, Generator(c, g) PROVE NeverIdle'
    BY <2>4 DEF Generator, NeverIdle
  <2> QED
    BY <2>1, <2>2, <2>3, <2>4, IdleGenerators, IdleUnits DEF PayNext, ScanStep
<1>3. NeverIdle => \A r \in payRows : ~ r.stalled
  BY DEF NeverIdle
<1> QED
  BY <1>1, <1>2, <1>3, PayInitially, PayInvariance, PTL DEF PaySpec

-----------------------------------------------------------------------------
\* Configuration.

\* The suffixes of BootSteps: what load() may have still to do.
Boots == {BootSteps, <<"added", "user", "hash", "legacy", "apply">>,
          <<"user", "hash", "legacy", "apply">>, <<"hash", "legacy", "apply">>,
          <<"legacy", "apply">>, <<"apply">>, << >>}

PatchRows ==
  [stage : {"idle", "next", "write", "written", "done", "failed"}, todo : Seq(Updates),
   secrets : BOOLEAN]

\* What a request writes, or has written, is a key of the table.
WritesKey(q) == q.stage \in {"write", "written"} => q.todo # << >> /\ Head(q.todo)[1] \in Keys

ConfigTyped ==
  /\ row \in [Keys -> Values \cup {Absent}] /\ cache \in [Keys -> Values \cup {Absent}]
  /\ boot \in Boots
  /\ patch \in [Patches -> PatchRows]
  /\ \A p \in Patches : WritesKey(patch[p])

OneInFlight == \A p, q \in Patches : InFlight(p) /\ InFlight(q) => p = q
NoneBeforeUp == ~Up => \A p \in Patches : ~InFlight(p)

\* What a request has written and not yet cached is what the table holds.
WrittenStands ==
  \A p \in Patches :
    patch[p].stage = "written" => row[Head(patch[p].todo)[1]] = Head(patch[p].todo)[2]

\* Once the rows have been read, only such a key differs in the cache.
CacheFollows ==
  boot # BootSteps =>
    \A k \in Keys : cache[k] = row[k] \/ \E p \in Patches : /\ patch[p].stage = "written"
                                                            /\ k = Head(patch[p].todo)[1]

Reloads(p) == InFlight(p) /\ patch[p].secrets

\* The mailer is behind only while a request is under way that will reload it, or
\* after one that failed.
MailerFollows ==
  Up => \/ transport = cache["smtp"]
        \/ \E p \in Patches : patch[p].stage = "failed" \/ Reloads(p)

ConfigInv ==
  ConfigTyped /\ OneInFlight /\ NoneBeforeUp /\ WrittenStands /\ CacheFollows /\ MailerFollows

\* One step of load() leaves a shorter suffix; completing the master account may skip one.
Steps(b) ==
  /\ Tail(b) \in Boots /\ Tail(b) # BootSteps
  /\ Head(b) = "user" => /\ Tail(Tail(b)) \in Boots /\ Tail(Tail(b)) # BootSteps
                         /\ Tail(Tail(b)) # << >>
  /\ Head(b) # "apply" => Tail(b) # << >>
  /\ Head(b) # "read" => b # BootSteps
  /\ Head(b) \in {"read", "added", "user", "hash", "legacy", "apply"}

LEMMA BootTails ==
  ASSUME NEW b \in Boots, b # << >>
  PROVE  Steps(b)
<1>1. CASE b = <<"read", "added", "user", "hash", "legacy", "apply">>
  <2>1. Tail(b) = <<"added", "user", "hash", "legacy", "apply">> /\ Head(b) = "read"
    BY <1>1
  <2> QED
    BY <1>1, <2>1 DEF Steps, Boots, BootSteps
<1>2. CASE b = <<"added", "user", "hash", "legacy", "apply">>
  <2>1. Tail(b) = <<"user", "hash", "legacy", "apply">> /\ Head(b) = "added"
    BY <1>2
  <2> QED
    BY <1>2, <2>1 DEF Steps, Boots, BootSteps
<1>3. CASE b = <<"user", "hash", "legacy", "apply">>
  <2>1. Tail(b) = <<"hash", "legacy", "apply">> /\ Head(b) = "user"
    BY <1>3
  <2>2. Tail(Tail(b)) = <<"legacy", "apply">>
    <3>1. Tail(<<"hash", "legacy", "apply">>) = <<"legacy", "apply">>
      OBVIOUS
    <3> QED
      BY <2>1, <3>1, Zenon
  <2> QED
    BY <1>3, <2>1, <2>2 DEF Steps, Boots, BootSteps
<1>4. CASE b = <<"hash", "legacy", "apply">>
  <2>1. Tail(b) = <<"legacy", "apply">> /\ Head(b) = "hash"
    BY <1>4
  <2> QED
    BY <1>4, <2>1 DEF Steps, Boots, BootSteps
<1>5. CASE b = <<"legacy", "apply">>
  <2>1. Tail(b) = <<"apply">> /\ Head(b) = "legacy"
    BY <1>5
  <2> QED
    BY <1>5, <2>1 DEF Steps, Boots, BootSteps
<1>6. CASE b = <<"apply">>
  <2>1. Tail(b) = << >> /\ Head(b) = "apply"
    BY <1>6
  <2> QED
    BY <1>6, <2>1 DEF Steps, Boots, BootSteps
<1> QED
  BY <1>1, <1>2, <1>3, <1>4, <1>5, <1>6 DEF Boots, BootSteps

LEMMA UpdatesTyped ==
  ASSUME NEW u \in Updates
  PROVE  u[1] \in {"smtp", "limit", "ghost"} /\ u[2] \in Values
BY DEF Updates, Values, Mask

LEMMA HeadTyped ==
  ASSUME ConfigTyped, NEW p \in Patches, patch[p].todo # << >>
  PROVE  /\ Head(patch[p].todo) \in Updates /\ Tail(patch[p].todo) \in Seq(Updates)
         /\ Head(patch[p].todo)[2] \in Values
         /\ Head(patch[p].todo)[1] # "ghost" => Head(patch[p].todo)[1] \in Keys
<1>1. patch[p].todo \in Seq(Updates)
  BY DEF ConfigTyped, PatchRows
<1>2. Head(patch[p].todo) \in Updates /\ Tail(patch[p].todo) \in Seq(Updates)
  BY <1>1
<1> QED
  BY <1>2, UpdatesTyped DEF Keys

LEMMA NoPatchTyped == NoPatch \in PatchRows /\ NoPatch.stage = "idle"
BY DEF NoPatch, PatchRows

\* Before the first read nothing is cached and no request is in flight.
THEOREM ConfigInitially == ConfigInit => ConfigInv
<1> SUFFICES ASSUME ConfigInit PROVE ConfigInv
  OBVIOUS
<1>1. BootSteps \in Boots /\ BootSteps # << >>
  BY DEF Boots, BootSteps
<1>2. ConfigTyped
  BY <1>1, NoPatchTyped DEF ConfigInit, ConfigTyped, WritesKey, Values, Absent
<1> QED
  BY <1>1, <1>2, NoPatchTyped DEF ConfigInit, ConfigInv, OneInFlight, NoneBeforeUp, InFlight,
     WrittenStands, CacheFollows, MailerFollows, Up

LEMMA BootStepKeeps ==
  ASSUME ConfigInv, BootStep
  PROVE  ConfigInv'
<1>1. boot \in Boots /\ boot # << >> /\ patch' = patch
  BY DEF ConfigInv, ConfigTyped, BootStep, Up
<1>2. Steps(boot)
  BY <1>1, BootTails
<1>3. \A p \in Patches : ~InFlight(p) /\ patch[p].stage # "written"
  BY <1>1 DEF ConfigInv, NoneBeforeUp, Up, InFlight
<1>4. \A p \in Patches : ~InFlight(p)'
  BY <1>1, <1>3 DEF InFlight
<1>5. boot' \in Boots /\ boot' # BootSteps /\ (Head(boot) # "apply" => boot' # << >>)
  BY <1>2 DEF BootStep, EnsureMaster, Steps
<1>6. /\ row' \in [Keys -> Values \cup {Absent}] /\ cache' \in [Keys -> Values \cup {Absent}]
      /\ \A k \in Keys : cache'[k] = row'[k]
  <2>0. /\ row \in [Keys -> Values \cup {Absent}] /\ cache \in [Keys -> Values \cup {Absent}]
        /\ boot # BootSteps => \A k \in Keys : cache[k] = row[k]
    BY <1>3 DEF ConfigInv, ConfigTyped, CacheFollows
  <2>1. ASSUME NEW k \in Keys, NEW v \in Values \cup {Absent}, Store(k, v), boot # BootSteps
        PROVE  /\ row' \in [Keys -> Values \cup {Absent}]
               /\ cache' \in [Keys -> Values \cup {Absent}]
               /\ \A x \in Keys : cache'[x] = row'[x]
    BY <2>0, <2>1 DEF Store
  <2>2. "a" \in Values \cup {Absent} /\ Absent \in Values \cup {Absent}
        /\ "added" \in Keys /\ "user" \in Keys /\ "hash" \in Keys /\ "legacy" \in Keys
    BY DEF Values, Keys
  <2>3. CASE Head(boot) = "read"
    BY <2>0, <2>3 DEF BootStep, Load
  <2>4. CASE Head(boot) = "added"
    BY <1>2, <2>0, <2>1, <2>2, <2>4 DEF BootStep, Ensure, SameRows, Steps
  <2>5. CASE Head(boot) = "user"
    BY <1>2, <2>0, <2>1, <2>2, <2>5 DEF BootStep, EnsureMaster, SameRows, Steps
  <2>6. CASE Head(boot) = "hash"
    BY <1>2, <2>0, <2>1, <2>2, <2>6 DEF BootStep, Steps
  <2>7. CASE Head(boot) = "legacy"
    BY <1>2, <2>0, <2>1, <2>2, <2>7 DEF BootStep, CleanupLegacy, SameRows, Steps
  <2>8. CASE Head(boot) = "apply"
    BY <1>2, <2>0, <2>8 DEF BootStep, SameRows, Steps
  <2> QED
    BY <1>2, <2>3, <2>4, <2>5, <2>6, <2>7, <2>8 DEF Steps
<1>7. ConfigTyped'
  BY <1>1, <1>5, <1>6 DEF ConfigInv, ConfigTyped, WritesKey
<1>8. CacheFollows'
  BY <1>6 DEF CacheFollows
<1>9. MailerFollows'
  <2>1. Head(boot) = "apply" => transport' = cache["smtp"] /\ cache' = cache
    BY DEF BootStep, ApplyDbConfig, SameRows
  <2> QED
    BY <1>5, <2>1 DEF MailerFollows, Up
<1>10. WrittenStands'
  BY <1>1, <1>3 DEF WrittenStands
<1> QED
  BY <1>4, <1>7, <1>8, <1>9, <1>10 DEF ConfigInv, OneInFlight, NoneBeforeUp

LEMMA RestartKeeps ==
  ASSUME ConfigInv, RestartServer
  PROVE  ConfigInv'
<1>1. BootSteps \in Boots /\ BootSteps # << >>
  BY DEF Boots, BootSteps
<1>2. \A p \in Patches : patch'[p] \in PatchRows /\ patch'[p].stage \in {"idle", "done", "failed"}
  BY NoPatchTyped DEF RestartServer, ConfigInv, ConfigTyped, PatchRows, InFlight
<1>3. patch' \in [Patches -> PatchRows]
  BY <1>2 DEF RestartServer
<1>4. ConfigTyped'
  BY <1>1, <1>2, <1>3 DEF RestartServer, ConfigInv, ConfigTyped, WritesKey, Absent
<1> QED
  BY <1>1, <1>2, <1>4 DEF RestartServer, ConfigInv, OneInFlight, NoneBeforeUp, InFlight, Up,
     WrittenStands, CacheFollows, MailerFollows

\* c differs from r in no key but the one request row q has written and not yet cached.
AllBut(q, r, c) ==
  /\ q.stage = "written" => r[Head(q.todo)[1]] = Head(q.todo)[2]
  /\ \A k \in Keys : c[k] # r[k] => q.stage = "written" /\ k = Head(q.todo)[1]

\* The mailer is up to date or will be when the request that leaves row q is over.
MailerStep(p, q) ==
  \/ transport' = cache'["smtp"]
  \/ q.stage = "failed"
  \/ Reloads(p)'
  \/ transport' = transport /\ cache'["smtp"] = cache["smtp"] /\ ~Reloads(p)

LEMMA AllButExact ==
  ASSUME NEW q, NEW r, NEW c
  PROVE  /\ q.stage # "written" /\ (\A k \in Keys : c[k] = r[k]) => AllBut(q, r, c)
         /\ AllBut(q, r, c) /\ q.stage # "written" => \A k \in Keys : c[k] = r[k]
BY DEF AllBut

\* A step of the only request in flight.
LEMMA PatchStep ==
  ASSUME ConfigInv, NEW p \in Patches, NEW q \in PatchRows, WritesKey(q),
         InFlight(p), patch' = [patch EXCEPT ![p] = q],
         UNCHANGED boot,
         row' \in [Keys -> Values \cup {Absent}], cache' \in [Keys -> Values \cup {Absent}],
         AllBut(q, row', cache'), MailerStep(p, q)
  PROVE  ConfigInv'
<1>1. patch'[p] = q /\ \A x \in Patches : x # p => patch'[x] = patch[x]
  BY DEF ConfigInv, ConfigTyped
<1>2. Up /\ Up' /\ \A x \in Patches : x # p => ~InFlight(x) /\ ~InFlight(x)'
  BY <1>1 DEF ConfigInv, OneInFlight, NoneBeforeUp, InFlight, Up
<1>3. ConfigTyped'
  BY <1>1 DEF ConfigInv, ConfigTyped
<1>4. CacheFollows'
  BY <1>1 DEF CacheFollows, AllBut
<1>6. WrittenStands'
  BY <1>1, <1>2 DEF WrittenStands, AllBut, InFlight
<1>5. MailerFollows'
  <2>1. CASE transport' = cache'["smtp"] \/ q.stage = "failed" \/ Reloads(p)'
    BY <1>1, <2>1 DEF MailerFollows
  <2>2. CASE transport' = transport /\ cache'["smtp"] = cache["smtp"] /\ ~Reloads(p)
    <3>1. CASE transport = cache["smtp"]
      BY <2>2, <3>1 DEF MailerFollows
    <3>2. CASE transport # cache["smtp"]
      <4>1. PICK x \in Patches : patch[x].stage = "failed" \/ Reloads(x)
        BY <1>2, <3>2 DEF ConfigInv, MailerFollows
      <4>2. x # p /\ patch[x].stage = "failed"
        BY <1>2, <2>2, <4>1 DEF Reloads, InFlight
      <4> QED
        BY <1>1, <4>2 DEF MailerFollows
    <3> QED
      BY <3>1, <3>2
  <2> QED
    BY <2>1, <2>2, Zenon DEF MailerStep
<1> QED
  BY <1>2, <1>3, <1>4, <1>5, <1>6 DEF ConfigInv, OneInFlight, NoneBeforeUp

\* With one request in flight the cache differs from the table in what it has written.
LEMMA OnlyWritten ==
  ASSUME ConfigInv, NEW p \in Patches, InFlight(p)
  PROVE  AllBut(patch[p], row, cache)
<1>1. boot # BootSteps
  BY DEF ConfigInv, NoneBeforeUp, Up, BootSteps
<1>2. \A x \in Patches : patch[x].stage = "written" => x = p
  BY DEF ConfigInv, OneInFlight, InFlight
<1>3. ASSUME NEW k \in Keys, cache[k] # row[k]
      PROVE  patch[p].stage = "written" /\ k = Head(patch[p].todo)[1]
  <2>1. PICK x \in Patches : patch[x].stage = "written" /\ k = Head(patch[x].todo)[1]
    BY <1>1, <1>3 DEF ConfigInv, CacheFollows
  <2> QED
    BY <1>2, <2>1
<1>4. patch[p].stage = "written" => row[Head(patch[p].todo)[1]] = Head(patch[p].todo)[2]
  BY DEF ConfigInv, WrittenStands
<1> QED
  BY <1>3, <1>4 DEF AllBut

LEMMA BodiesTyped == Bodies \subseteq Seq(Updates)
<1> SUFFICES ASSUME NEW us \in Bodies PROVE us \in Seq(Updates)
  OBVIOUS
<1>1. CASE us \in {<<u, v>> : u, v \in Updates}
  <2>1. PICK u \in Updates, v \in Updates : us = <<u, v>>
    BY <1>1
  <2> QED
    BY <2>1
<1>2. CASE us \in {<<u>> : u \in Updates}
  <2>1. PICK u \in Updates : us = <<u>>
    BY <1>2
  <2> QED
    BY <2>1
<1> QED
  BY <1>1, <1>2 DEF Bodies

LEMMA StageTyped ==
  ASSUME ConfigInv, NEW p \in Patches, NEW s \in {"write", "written", "done", "failed"},
         Set(p, s)
  PROVE  /\ \E q \in PatchRows : /\ patch' = [patch EXCEPT ![p] = q] /\ q.stage = s
                                 /\ q.todo = patch[p].todo
         /\ s \in {"write", "written"} => (Reloads(p) => Reloads(p)')
<1> DEFINE q == [patch[p] EXCEPT !.stage = s]
<1>1. q \in PatchRows /\ q.stage = s /\ q.todo = patch[p].todo /\ q.secrets = patch[p].secrets
  BY DEF ConfigInv, ConfigTyped, PatchRows
<1>2. patch' = [patch EXCEPT ![p] = q]
  BY DEF Set
<1>3. patch'[p] = q
  BY <1>2 DEF ConfigInv, ConfigTyped
<1> HIDE DEF q
<1>4. s \in {"write", "written"} => InFlight(p)'
  BY <1>1, <1>3 DEF InFlight
<1>5. Reloads(p) /\ InFlight(p)' => Reloads(p)'
  <2>1. patch'[p].secrets = patch[p].secrets
    BY <1>1, <1>3
  <2> QED
    BY <2>1, Zenon DEF Reloads
<1> QED
  BY <1>1, <1>2, <1>4, <1>5

\* Every step of load() and of a PATCH keeps it, failures and restarts included, while
\* requests come one at a time.
THEOREM ConfigInvariance ==
  ASSUME ~Overlap
  PROVE  ConfigInv /\ [ConfigNext]_configVars => ConfigInv'
<1> SUFFICES ASSUME ConfigInv, [ConfigNext]_configVars PROVE ConfigInv'
  OBVIOUS
<1>0. /\ ConfigTyped /\ OneInFlight
      /\ row \in [Keys -> Values \cup {Absent}] /\ cache \in [Keys -> Values \cup {Absent}]
      /\ \A p \in Patches : patch[p] \in PatchRows
  BY DEF ConfigInv, ConfigTyped
<1>1. ASSUME NEW p \in Patches, Patch(p) PROVE ConfigInv'
  <2>1. PICK us \in Bodies :
          patch' = [patch EXCEPT ![p] = [stage |-> "next", todo |-> us, secrets |-> FALSE]]
    BY <1>1, Zenon DEF Patch
  <2>2. us \in Seq(Updates)
    BY BodiesTyped
  <2> DEFINE q == [stage |-> "next", todo |-> us, secrets |-> FALSE]
  <2>3. q \in PatchRows /\ WritesKey(q) /\ q.stage = "next"
    BY <2>2 DEF PatchRows, WritesKey
  <2>4. patch' = [patch EXCEPT ![p] = q]
    BY <2>1
  <2> HIDE DEF q
  <2>5. patch'[p] = q /\ \A x \in Patches : x # p => patch'[x] = patch[x]
    BY <2>4 DEF ConfigInv, ConfigTyped
  <2>6. Up /\ patch[p].stage = "idle" /\ \A x \in Patches : ~InFlight(x)
        /\ UNCHANGED <<row, cache, transport, boot>>
    BY <1>1 DEF Patch
  <2>7. ConfigTyped' /\ Up'
    BY <2>3, <2>5, <2>4, <2>6 DEF ConfigInv, ConfigTyped, Up
  <2>8. CacheFollows'
    <3>1. boot # BootSteps /\ \A x \in Patches : patch[x].stage # "written"
      BY <2>6 DEF Up, BootSteps, InFlight
    <3>2. \A k \in Keys : cache[k] = row[k]
      BY <3>1 DEF ConfigInv, CacheFollows
    <3> QED
      <4>1. \A k \in Keys : cache'[k] = row'[k]
        BY <2>6, <3>2
      <4> QED
        BY <4>1 DEF CacheFollows
  <2>9. MailerFollows'
    <3>1. transport = cache["smtp"] \/ \E x \in Patches : patch[x].stage = "failed"
      BY <2>6 DEF ConfigInv, MailerFollows, Reloads
    <3>2. ASSUME NEW x \in Patches, patch[x].stage = "failed" PROVE patch'[x].stage = "failed"
      BY <2>5, <2>6, <3>2
    <3>3. transport' = transport /\ cache' = cache
      BY <2>6
    <3> QED
      BY <3>1, <3>2, <3>3 DEF MailerFollows
  <2>10. OneInFlight'
    BY <2>5, <2>6 DEF OneInFlight, InFlight
  <2>11. WrittenStands'
    BY <2>3, <2>5, <2>6 DEF WrittenStands, InFlight
  <2> QED
    BY <2>7, <2>8, <2>9, <2>10, <2>11 DEF ConfigInv, NoneBeforeUp
<1>2. ASSUME NEW p \in Patches, Update(p) PROVE ConfigInv'
  <2> DEFINE u == Head(patch[p].todo)
  <2>1. /\ InFlight(p) /\ patch[p].stage = "next" /\ patch[p].todo # << >>
        /\ UNCHANGED <<row, cache, transport, boot>>
    BY <1>2 DEF Update, InFlight
  <2>2. /\ u \in Updates /\ Tail(patch[p].todo) \in Seq(Updates)
        /\ u[1] # "ghost" => u[1] \in Keys
    BY <1>0, <2>1, HeadTyped
  <2>3. \A k \in Keys : cache[k] = row[k]
    BY <2>1, OnlyWritten, AllButExact
  <2>4. CASE u[1] = "ghost"
    <3>1. Set(p, "failed")
      BY <1>2, <2>4 DEF Update
    <3>2. PICK q \in PatchRows : /\ patch' = [patch EXCEPT ![p] = q] /\ q.stage = "failed"
      BY <3>1, StageTyped
    <3>3. WritesKey(q) /\ MailerStep(p, q) /\ AllBut(q, row', cache')
      BY <2>1, <2>3, <3>2, AllButExact DEF WritesKey, MailerStep
    <3> QED
      BY <1>0, <2>1, <3>2, <3>3, PatchStep
  <2>5. CASE u = <<"smtp", Mask>>
    <3> DEFINE q == [stage |-> "next", todo |-> Tail(patch[p].todo), secrets |-> TRUE]
    <3>2. q \in PatchRows /\ q.stage = "next" /\ q.secrets
      BY <2>2 DEF PatchRows
    <3>3. patch' = [patch EXCEPT ![p] = q]
      BY <1>2, <2>5 DEF Update
    <3> HIDE DEF q
    <3>4. patch'[p] = q
      BY <3>3 DEF ConfigInv, ConfigTyped
    <3>5. Reloads(p)'
      <4>1. InFlight(p)'
        BY <3>2, <3>4 DEF InFlight
      <4> QED
        BY <3>2, <3>4, <4>1, Zenon DEF Reloads
    <3>7. WritesKey(q) /\ MailerStep(p, q) /\ AllBut(q, row', cache')
      BY <2>1, <2>3, <3>2, <3>5, AllButExact DEF WritesKey, MailerStep
    <3> QED
      BY <1>0, <2>1, <3>2, <3>3, <3>7, PatchStep
  <2>6. CASE u[1] # "ghost" /\ u # <<"smtp", Mask>>
    <3>1. Set(p, "write")
      BY <1>2, <2>6 DEF Update
    <3>2. PICK q \in PatchRows : /\ patch' = [patch EXCEPT ![p] = q] /\ q.stage = "write"
                                 /\ q.todo = patch[p].todo
      BY <3>1, StageTyped
    <3>4. Reloads(p) => Reloads(p)'
      BY <3>1, StageTyped
    <3>3. WritesKey(q)
      BY <2>1, <2>2, <2>6, <3>2 DEF WritesKey
    <3>5. MailerStep(p, q) /\ AllBut(q, row', cache')
      BY <2>1, <2>3, <3>2, <3>4, AllButExact DEF MailerStep
    <3> QED
      BY <1>0, <2>1, <3>2, <3>3, <3>5, PatchStep
  <2> QED
    BY <2>4, <2>5, <2>6
<1>3. ASSUME NEW p \in Patches, Write(p) PROVE ConfigInv'
  <2> DEFINE u == Head(patch[p].todo)
  <2>1. /\ InFlight(p) /\ patch[p].stage = "write" /\ patch[p].todo # << >> /\ u[1] \in Keys
        /\ UNCHANGED <<cache, transport, boot>>
    BY <1>0, <1>3 DEF Write, InFlight, ConfigTyped, WritesKey
  <2>2. u[2] \in Values
    BY <1>0, <2>1, HeadTyped
  <2>3. \A k \in Keys : cache[k] = row[k]
    BY <2>1, OnlyWritten, AllButExact
  <2>4. CASE row' = [row EXCEPT ![u[1]] = u[2]] /\ Set(p, "written")
    <3>1. PICK q \in PatchRows : /\ patch' = [patch EXCEPT ![p] = q] /\ q.stage = "written"
                                 /\ q.todo = patch[p].todo
      BY <2>4, StageTyped
    <3>5. Reloads(p) => Reloads(p)'
      BY <2>4, StageTyped
    <3>2. WritesKey(q)
      BY <2>1, <3>1 DEF WritesKey
    <3>3. row' \in [Keys -> Values \cup {Absent}]
      BY <1>0, <2>2, <2>4
    <3>4. AllBut(q, row', cache')
      BY <1>0, <2>1, <2>3, <2>4, <3>1 DEF AllBut
    <3>6. MailerStep(p, q)
      BY <2>1, <3>5 DEF MailerStep
    <3> QED
      BY <1>0, <2>1, <3>1, <3>2, <3>3, <3>4, <3>6, PatchStep
  <2>5. CASE Set(p, "failed") /\ UNCHANGED row
    <3>1. PICK q \in PatchRows : /\ patch' = [patch EXCEPT ![p] = q] /\ q.stage = "failed"
      BY <2>5, StageTyped
    <3>2. WritesKey(q) /\ MailerStep(p, q) /\ AllBut(q, row', cache')
      BY <2>1, <2>3, <2>5, <3>1, AllButExact DEF WritesKey, MailerStep
    <3> QED
      BY <1>0, <2>1, <2>5, <3>1, <3>2, PatchStep
  <2> QED
    BY <1>3, <2>4, <2>5 DEF Write
<1>4. ASSUME NEW p \in Patches, Written(p) PROVE ConfigInv'
  <2> DEFINE u == Head(patch[p].todo)
             q == [stage |-> "next", todo |-> Tail(patch[p].todo),
                   secrets |-> patch[p].secrets \/ u[1] = "smtp"]
  <2>1. /\ InFlight(p) /\ patch[p].stage = "written" /\ patch[p].todo # << >> /\ u[1] \in Keys
        /\ cache' = [cache EXCEPT ![u[1]] = u[2]]
        /\ patch' = [patch EXCEPT ![p] = q]
        /\ UNCHANGED <<row, transport, boot>>
    BY <1>0, <1>4 DEF Written, InFlight, ConfigTyped, WritesKey
  <2>2. u[2] \in Values /\ Tail(patch[p].todo) \in Seq(Updates)
    BY <1>0, <2>1, HeadTyped
  <2>3. q \in PatchRows /\ q.stage = "next"
    BY <1>0, <2>2 DEF PatchRows
  <2>9. u[1] = "smtp" \/ patch[p].secrets => q.secrets
    BY Zenon
  <2> HIDE DEF q
  <2>10. patch'[p] = q
    BY <2>1 DEF ConfigInv, ConfigTyped
  <2>11. u[1] = "smtp" \/ Reloads(p) => Reloads(p)'
    <3>1. InFlight(p)'
      BY <2>3, <2>10 DEF InFlight
    <3> QED
      BY <2>9, <2>10, <3>1, Zenon DEF Reloads
  <2>4. cache' \in [Keys -> Values \cup {Absent}]
    BY <1>0, <2>1, <2>2
  <2>5. row[u[1]] = u[2] /\ \A k \in Keys : cache[k] # row[k] => k = u[1]
    <3>1. AllBut(patch[p], row, cache)
      BY <2>1, OnlyWritten
    <3>2. patch[p].stage = "written"
      BY <2>1
    <3> QED
      BY <3>1, <3>2 DEF AllBut
  <2>6. \A k \in Keys : cache'[k] = row'[k]
    <3> HIDE DEF u
    <3>1. u[1] \in Keys /\ cache' = [cache EXCEPT ![u[1]] = u[2]] /\ row' = row
      BY <2>1
    <3> QED
      BY <1>0, <2>5, <3>1
  <2>7. u[1] # "smtp" => cache'["smtp"] = cache["smtp"]
    BY <1>0, <2>1 DEF Keys
  <2>8. MailerStep(p, q)
    <3>1. transport' = transport
      BY <2>1
    <3> QED
      BY <3>1, <2>7, <2>11, Zenon DEF MailerStep
  <2>12. WritesKey(q) /\ AllBut(q, row', cache')
    BY <2>3, <2>6, AllButExact DEF WritesKey
  <2> QED
    BY <1>0, <2>1, <2>3, <2>4, <2>8, <2>12, PatchStep
<1>5. ASSUME NEW p \in Patches, Replied(p) PROVE ConfigInv'
  <2>1. /\ InFlight(p) /\ patch[p].stage = "next" /\ Set(p, "done")
        /\ UNCHANGED <<row, cache, boot>>
    BY <1>5 DEF Replied, InFlight
  <2>2. PICK q \in PatchRows : /\ patch' = [patch EXCEPT ![p] = q] /\ q.stage = "done"
    BY <2>1, StageTyped
  <2>3. \A k \in Keys : cache[k] = row[k]
    BY <2>1, OnlyWritten, AllButExact
  <2>4. transport' = cache'["smtp"] \/ (transport' = transport /\ ~Reloads(p))
    <3>0. cache' = cache
      BY <2>1
    <3>1. CASE patch[p].secrets
      <4>1. transport' = cache["smtp"]
        BY <1>5, <3>1, Zenon DEF Replied, ApplyDbConfig
      <4> QED
        BY <3>0, <4>1
    <3>2. CASE ~patch[p].secrets
      BY <1>5, <3>2, Zenon DEF Replied, Reloads
    <3> QED
      BY <3>1, <3>2
  <2>5. WritesKey(q) /\ MailerStep(p, q) /\ AllBut(q, row', cache')
    BY <2>1, <2>2, <2>3, <2>4, AllButExact DEF WritesKey, MailerStep
  <2> QED
    BY <1>0, <2>1, <2>2, <2>5, PatchStep
<1>6. CASE UNCHANGED configVars
  BY <1>6 DEF configVars, ConfigInv, ConfigTyped, OneInFlight, NoneBeforeUp, InFlight, Up,
     WrittenStands, CacheFollows, MailerFollows, Reloads
<1> QED
  BY <1>1, <1>2, <1>3, <1>4, <1>5, <1>6, BootStepKeeps, RestartKeeps DEF ConfigNext

\* Requests one at a time: when the server is up and idle, table and cache agree, and so does
\* the mailer unless a request failed (config-service.ts, routes/config.ts, applyDbConfig).
THEOREM QuietConfigHolds == ~Overlap => (ConfigSpec => []QuietConfigAgrees)
<1> SUFFICES ASSUME ~Overlap PROVE ConfigSpec => []QuietConfigAgrees
  OBVIOUS
<1>1. ConfigInv => QuietConfigAgrees
  <2> SUFFICES ASSUME ConfigInv, Up, \A p \in Patches : ~InFlight(p)
               PROVE  /\ cache = row
                      /\ transport = cache["smtp"] \/ \E p \in Patches : patch[p].stage = "failed"
    BY DEF QuietConfigAgrees
  <2>1. boot # BootSteps
    BY DEF Up, BootSteps
  <2>2. \A k \in Keys : cache[k] = row[k]
    BY <2>1 DEF ConfigInv, CacheFollows, InFlight
  <2>3. cache = row
    BY <2>2 DEF ConfigInv, ConfigTyped
  <2> QED
    BY <2>3 DEF ConfigInv, MailerFollows, Reloads
<1>2. ConfigInv /\ [ConfigNext]_configVars => ConfigInv'
  BY ConfigInvariance
<1> QED
  BY <1>1, <1>2, ConfigInitially, PTL DEF ConfigSpec

=============================================================================
