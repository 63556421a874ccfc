----------------------------- MODULE Maintenance -----------------------------
(***************************************************************************)
(* Maintenance windows and the yearly calendar (routes/maintenance.ts).    *)
(*                                                                         *)
(* There is no timer: GET / moves the windows it lists from SCHEDULED to   *)
(* ACTIVE to COMPLETED, from the snapshot it has read, one update per      *)
(* window, all of them in flight together.  PATCH reads a window, computes *)
(* the fields to write and writes them in a second query.  Times are UTC   *)
(* instants: what localToUtc makes of the label the user chose.            *)
(***************************************************************************)
EXTENDS Integers, Sequences, FiniteSets

CONSTANTS
  WindowIds,     \* pool of MaintenanceWindow ids (bounds the table)
  Visits,        \* calls that can be in flight at a time
  LastInstant    \* bound on the clock; windows lie in 0..LastInstant

ASSUME MaintenanceAssumption == LastInstant \in Nat \ {0}

Instants == 0..LastInstant
WindowStates == {"SCHEDULED", "ACTIVE", "COMPLETED", "CANCELLED"}
Keep == "keep"         \* the status is not in the request
KeepTime == -1         \* the bound is not in the request
NoWindow == [status |-> "none", from |-> 0, to |-> 0]

VARIABLES
  instant,     \* the clock
  windows,     \* rows, NoWindow where there is none
  calendar,    \* a MaintenanceCalendar of the year exists
  visit        \* calls in flight: what they will write

maintenanceVars == <<instant, windows, calendar, visit>>

NoVisit == [op |-> "none", win |-> Keep, set |-> NoWindow, rest |-> <<>>, todo |-> {}]

MaintenanceInit ==
  /\ instant = 0
  /\ windows = [w \in WindowIds |-> NoWindow]
  /\ calendar = FALSE
  /\ visit = [v \in Visits |-> NoVisit]

MaintenanceTick ==
  /\ instant < LastInstant
  /\ instant' = instant + 1
  /\ UNCHANGED <<windows, calendar, visit>>

Enter(v, new) == visit[v] = NoVisit /\ visit' = [visit EXCEPT ![v] = new]
Leave(v) == visit' = [visit EXCEPT ![v] = NoVisit]

computeWindowStatus(from, to) ==
  IF to < instant THEN "COMPLETED" ELSE IF from <= instant THEN "ACTIVE" ELSE "SCHEDULED"

\* POST / (one row) and POST /bulk: every row is validated and created by itself
Import(v, rows) ==
  /\ Enter(v, [NoVisit EXCEPT !.op = "bulk", !.rest = rows])
  /\ UNCHANGED <<instant, windows, calendar>>

ImportRow(v, w) ==
  LET from == Head(visit[v].rest)[1]
      to   == Head(visit[v].rest)[2] IN
  /\ visit[v].op = "bulk" /\ visit[v].rest # <<>>
  /\ windows[w] = NoWindow
  /\ \/ /\ to > from
        /\ windows' = [windows EXCEPT ![w] = [status |-> computeWindowStatus(from, to),
                                            from |-> from, to |-> to]]
     \/ UNCHANGED windows                  \* refused, or the create rejected
  /\ visit' = [visit EXCEPT ![v].rest = Tail(@)]
  /\ UNCHANGED <<instant, calendar>>

Imported(v) ==
  /\ visit[v].op = "bulk" /\ visit[v].rest = <<>>
  /\ Leave(v)
  /\ UNCHANGED <<instant, windows, calendar>>

\* mutant: each bound is written only when it was sent
PatchSent(v, w, status, from, to) ==
  LET old == windows[w]
      new == [from |-> IF from = KeepTime THEN old.from ELSE from,
              to   |-> IF to = KeepTime THEN old.to ELSE to] IN
  /\ old # NoWindow /\ new.to > new.from
  /\ Enter(v, [NoVisit EXCEPT !.op = "patch", !.win = w,
                              !.set = [status |-> status, from |-> from, to |-> to]])
  /\ UNCHANGED <<instant, windows, calendar>>

\* PATCH /:id: the window is read; when a bound is sent both are checked and
\* both are written, the other one as it was read
PatchWindow(v, w, status, from, to) ==
  LET old   == windows[w]
      moved == from # KeepTime \/ to # KeepTime
      new   == [status |-> status,
                from |-> IF moved /\ from = KeepTime THEN old.from ELSE from,
                to   |-> IF moved /\ to = KeepTime THEN old.to ELSE to] IN
  /\ old # NoWindow /\ (moved => new.to > new.from)
  /\ Enter(v, [NoVisit EXCEPT !.op = "patch", !.win = w, !.set = new])
  /\ UNCHANGED <<instant, windows, calendar>>

\* the update; it rejects (500) when the row is gone
WriteWindow(v) ==
  LET w == visit[v].win  new == visit[v].set IN
  /\ visit[v].op = "patch"
  /\ windows' = IF windows[w] = NoWindow THEN windows
               ELSE [windows EXCEPT ![w] =
                 [status |-> IF new.status = Keep THEN @.status ELSE new.status,
                  from |-> IF new.from = KeepTime THEN @.from ELSE new.from,
                  to   |-> IF new.to = KeepTime THEN @.to ELSE new.to]]
  /\ Leave(v)
  /\ UNCHANGED <<instant, calendar>>

DeleteWindow(w) ==
  /\ windows[w] # NoWindow
  /\ windows' = [windows EXCEPT ![w] = NoWindow]
  /\ UNCHANGED <<instant, calendar, visit>>

\* GET /: the status a listed window is moved to, its own when it stays
NextStatus(r) ==
  IF r.status = "SCHEDULED" THEN computeWindowStatus(r.from, r.to)
  ELSE IF r.status = "ACTIVE" /\ r.to < instant THEN "COMPLETED"
  ELSE r.status

ListWindows(v, listed) ==
  /\ Enter(v, [NoVisit EXCEPT !.op = "list",
       !.todo = {<<w, NextStatus(windows[w])>> :
                   w \in {x \in listed : NextStatus(windows[x]) # windows[x].status}}])
  /\ UNCHANGED <<instant, windows, calendar>>

\* one of the updates of Promise.all; after a rejection (the row is gone) the
\* others still run
AutoUpdate(v, u) ==
  /\ visit[v].op = "list" /\ u \in visit[v].todo
  /\ windows' = IF windows[u[1]] = NoWindow THEN windows
               ELSE [windows EXCEPT ![u[1]].status = u[2]]
  /\ visit' = [visit EXCEPT ![v].todo = @ \ {u}]
  /\ UNCHANGED <<instant, calendar>>

ListingDone(v) ==
  /\ visit[v].op = "list" /\ visit[v].todo = {}
  /\ Leave(v)
  /\ UNCHANGED <<instant, windows, calendar>>

\* POST /calendar/import: the year's calendar is deleted, then created; year is
\* unique, and a create that rejects leaves the year without one
ReplaceCalendar(v) ==
  /\ Enter(v, [NoVisit EXCEPT !.op = "calendar"])
  /\ calendar' = FALSE
  /\ UNCHANGED <<instant, windows>>

CreateCalendar(v) ==
  /\ visit[v].op = "calendar"
  /\ calendar' \in {calendar, TRUE}
  /\ Leave(v)
  /\ UNCHANGED <<instant, windows>>

DeleteCalendar ==
  /\ calendar /\ calendar' = FALSE
  /\ UNCHANGED <<instant, windows, visit>>

MaintenanceNext ==
  \/ MaintenanceTick \/ DeleteCalendar
  \/ \E w \in WindowIds : DeleteWindow(w)
  \/ \E v \in Visits :
       \/ \E p \in Instants \X Instants : Import(v, <<p>>) \/ Import(v, <<p, <<0, 1>>>>)
       \/ \E w \in WindowIds : ImportRow(v, w)
       \/ \E w \in WindowIds, s \in WindowStates \cup {Keep},
             from, to \in Instants \cup {KeepTime} : PatchWindow(v, w, s, from, to)
       \/ \E listed \in SUBSET {w \in WindowIds : windows[w] # NoWindow} : ListWindows(v, listed)
       \/ \E u \in visit[v].todo : AutoUpdate(v, u)
       \/ Imported(v) \/ WriteWindow(v) \/ ListingDone(v)
       \/ ReplaceCalendar(v) \/ CreateCalendar(v)

MaintenanceSpec == MaintenanceInit /\ [][MaintenanceNext]_maintenanceVars

----------------------------------------------------------------------------
(* Properties *)

\* "End time must be after start time": of every stored window, although each
\* PATCH checks it against a row another PATCH may move before it writes.
WindowIsInterval ==
  \A w \in WindowIds : windows[w] # NoWindow => windows[w].from < windows[w].to
=============================================================================
