-------------------------------- MODULE Payroll --------------------------------
(***************************************************************************)
(* The payroll monitor: GET /monitor scans the clients with a pool of      *)
(* workers (getMonitorSnapshot of services/payroll-service.ts) and rates   *)
(* every store group with the functions of constants/payroll.ts.           *)
(*                                                                         *)
(* A client's DB2 is its environment: the queue rows and the units of its  *)
(* store groups change between the queries.  Time 0 is the end of the pay  *)
(* week, and one unit of time stands for some minutes.                     *)
(***************************************************************************)
EXTENDS Integers, FiniteSets

CONSTANTS
  PayClients,    \* clients with payrollEnabled and a DB2 host
  StoreGroups,   \* DIST_LIST_IDs with a pay generator
  PayWorkers,    \* CONCURRENCY
  GraceTime,     \* threshold.payrollStalledGraceMins
  PayHorizon     \* bound on the clock

NoTime == -1
NoGroup == "none"

VARIABLES
  payTime,     \* the clock
  queue,       \* RFX_QUEUE row and unit counts of each client's store groups
  scan,        \* each client in the running snapshot
  payRows,     \* rows of the snapshot so far
  quiet        \* nothing failed and nothing changed since the snapshot began

payVars == <<payTime, queue, scan, payRows, quiet>>

\* kind and due are the schedule: computeReleaseDueAtIso is null for an interval
Schedules == {[kind |-> "cron", due |-> t] : t \in 0..1} \cup
             {[kind |-> "interval", due |-> NoTime]}

NotScanned == [stage |-> "idle", gens |-> {}]

Queues == [PayClients \X StoreGroups ->
  {[status |-> "R", last |-> NoTime, jobs |-> FALSE, total |-> n[1], pending |-> n[2],
    schedule |-> s] : n \in {<<0, 0>>, <<1, 0>>, <<1, 1>>}, s \in Schedules}]

PayInit ==
  /\ payTime = 0
  /\ queue \in Queues
  /\ scan = [c \in PayClients |-> NotScanned] /\ payRows = {} /\ quiet = TRUE

----------------------------------------------------------------------------
(* constants/payroll.ts: g is a generator as it was read, pending the units *)
(* without a file, of total                                                 *)

jobTimeOnOrAfterPayWeekEnd(g) == g.last # NoTime

isReleaseStarted(g, now) ==
  \/ jobTimeOnOrAfterPayWeekEnd(g)
  \/ g.schedule.kind = "interval" /\ g.running
  \/ g.schedule.kind # "interval" /\ g.schedule.due # NoTime /\ now >= g.schedule.due

\* the later of release and last run, NoTime when there was neither
stalledAnchor(g, now) ==
  LET past == {t \in {g.schedule.due, g.last} : t # NoTime /\ t <= now} IN
  IF past = {} THEN NoTime ELSE CHOOSE t \in past : \A u \in past : u <= t

evaluateStalledGeneration(g, pending, now) ==
  /\ pending > 0 /\ ~ g.running /\ isReleaseStarted(g, now)
  /\ stalledAnchor(g, now) # NoTime
  /\ now - stalledAnchor(g, now) >= GraceTime

classifyMonitorPhase(g, total, pending, now) ==
  LET started == isReleaseStarted(g, now) IN
  CASE total > 0 /\ pending = 0                             -> "complete"
    [] pending > 0 /\ (g.running \/ started)                -> "live"
    [] pending > 0 /\ ~ g.running /\ ~ started              -> "upcoming"
    [] total = 0 /\ g.running /\ g.jobs                      -> "live"
    [] total = 0 /\ ~ (g.running /\ g.jobs) /\ ~ started
         /\ g.schedule.due > now                            -> "upcoming"
    [] OTHER                                                -> "unknown"

----------------------------------------------------------------------------
(* The snapshot *)

\* one snapshot after the other: they share nothing
StartSnapshot ==
  /\ \A c \in PayClients : scan[c].stage \in {"idle", "scanned"}
  /\ scan' = [c \in PayClients |-> [NotScanned EXCEPT !.stage = "waiting"]]
  /\ payRows' = {} /\ quiet' = TRUE
  /\ UNCHANGED <<payTime, queue>>

Busy == {c \in PayClients : scan[c].stage \in {"periods", "queue", "units"}}

\* worker: clients[idx++], and the query for the pay periods
NextClient(c) ==
  /\ scan[c].stage = "waiting" /\ Cardinality(Busy) < PayWorkers
  /\ scan' = [scan EXCEPT ![c].stage = "periods"]
  /\ UNCHANGED <<payTime, queue, payRows, quiet>>

\* the only row of a client whose periods or generators could not be read
ErrorRow(c) ==
  /\ scan' = [scan EXCEPT ![c].stage = "scanned"]
  /\ payRows' = payRows \cup {[client |-> c, group |-> NoGroup, phase |-> "unknown",
                               stalled |-> FALSE]}
  /\ UNCHANGED <<payTime, queue>>

Periods(c) ==
  /\ scan[c].stage = "periods"
  /\ \/ /\ scan' = [scan EXCEPT ![c].stage = "queue"]
        /\ UNCHANGED <<payTime, queue, payRows, quiet>>
     \/ ErrorRow(c) /\ quiet' = FALSE

\* mutant: a failed query for the queue ends the client without a row
GeneratorsOrNothing(c) ==
  /\ scan[c].stage = "queue"
  /\ \/ /\ scan' = [scan EXCEPT ![c].stage = "scanned"]
        /\ UNCHANGED <<payTime, queue, payRows>> /\ quiet' = FALSE
     \/ ErrorRow(c) /\ UNCHANGED quiet

\* fetchPayGenerators: the queue rows with QUEUE_STATUS = 'R', and running is
\* QUEUE_STATUS = 'R' again; a failed query gives no rows
Generators(c) ==
  LET gens == {g \in StoreGroups : queue[<<c, g>>].status = "R"} IN
  /\ scan[c].stage = "queue"
  /\ \/ /\ gens # {}
        /\ scan' = [scan EXCEPT ![c] = [stage |-> "units", gens |->
             {[group |-> g, running |-> queue[<<c, g>>].status = "R", last |-> queue[<<c, g>>].last,
               jobs |-> queue[<<c, g>>].jobs, schedule |-> queue[<<c, g>>].schedule] : g \in gens}]]
        /\ UNCHANGED <<payTime, queue, payRows, quiet>>
     \/ gens = {} /\ ErrorRow(c) /\ UNCHANGED quiet
     \/ ErrorRow(c) /\ quiet' = FALSE

\* fetchScopedUnitCounts for the next generator: a rated row, or an error row
Units(c, g) ==
  LET q == queue[<<c, g.group>>]
      row == [client |-> c, group |-> g.group,
              phase |-> classifyMonitorPhase(g, q.total, q.pending, payTime),
              stalled |-> evaluateStalledGeneration(g, q.pending, payTime)] IN
  /\ scan[c].stage = "units" /\ g \in scan[c].gens
  /\ \/ payRows' = payRows \cup {row} /\ UNCHANGED quiet
     \/ payRows' = payRows \cup {[row EXCEPT !.phase = "unknown", !.stalled = FALSE]}
          /\ quiet' = FALSE
  /\ scan' = [scan EXCEPT ![c] =
       [stage |-> IF @.gens = {g} THEN "scanned" ELSE "units", gens |-> @.gens \ {g}]]
  /\ UNCHANGED <<payTime, queue>>

----------------------------------------------------------------------------
(* The clients' systems *)

PayTick == /\ payTime < PayHorizon /\ payTime' = payTime + 1 /\ quiet' = FALSE
           /\ UNCHANGED <<queue, scan, payRows>>

\* a generator starts, or stops with or without having written the files
Generator(c, g) ==
  /\ \/ /\ queue[<<c, g>>].status # "R"
        /\ \E jobs \in BOOLEAN : queue' = [queue EXCEPT ![<<c, g>>] =
                                     [@ EXCEPT !.status = "R", !.jobs = jobs]]
     \/ /\ queue[<<c, g>>].status = "R"
        /\ \E n \in 0..queue[<<c, g>>].pending :
             queue' = [queue EXCEPT ![<<c, g>>] =
                         [@ EXCEPT !.status = "S", !.last = payTime, !.pending = n]]
  /\ quiet' = FALSE
  /\ UNCHANGED <<payTime, scan, payRows>>

ScanStep(c) ==
  NextClient(c) \/ Periods(c) \/ Generators(c) \/ \E g \in scan[c].gens : Units(c, g)

PayNext ==
  \/ StartSnapshot \/ PayTick
  \/ \E c \in PayClients : ScanStep(c) \/ \E g \in StoreGroups : Generator(c, g)

PaySpec == PayInit /\ [][PayNext]_payVars

----------------------------------------------------------------------------
(* Properties *)

SnapshotDone == \A c \in PayClients : scan[c].stage = "scanned"

\* In a finished snapshot no client is missing and no row is doubled, whichever
\* queries failed while the workers shared the list; and a store group called
\* complete has all its files, although its queue row was read before its units.
SnapshotIsSound ==
  SnapshotDone =>
    /\ {r.client : r \in payRows} = PayClients
    /\ \A r, s \in payRows : r.client = s.client /\ r.group = s.group => r = s
    /\ \A r \in payRows : r.phase = "complete" => queue[<<r.client, r.group>>].pending = 0

\* "After pay release time, flag store group as stalled when generator is idle
\* and units still pending for X mins".
StalledIsFlagged ==
  SnapshotDone /\ quiet =>
    \A c \in PayClients, g \in StoreGroups :
      LET q == queue[<<c, g>>] IN
      /\ q.status # "R" /\ q.pending > 0
      /\ q.schedule.kind = "cron" /\ payTime - q.schedule.due >= GraceTime
      /\ q.last # NoTime => payTime - q.last >= GraceTime
      => \E r \in payRows : r.client = c /\ r.group = g /\ r.stalled
=============================================================================
