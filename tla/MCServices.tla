----------------------------- MODULE MCServices -----------------------------
(***************************************************************************)
(* Small instances of the components that work in pools, queues and child  *)
(* processes and must come to an end.  They share no state, so one of them *)
(* moves, chosen at the start: the behaviours are those of the components, *)
(* each beside the others at rest.                                         *)
(***************************************************************************)
EXTENDS JobExecution, PunchCounts, FileMonitor, ProgressiveLoad, Browser, LiveMonitor,
        TLC

CONSTANTS a, b,                         \* commands of the crontab
          BatchClients, BatchLoads,     \* of BatchCache
          CronJobs, SyncRows, Syncs     \* of CronSync

VARIABLES part,
          version, entry, alerts, batchPc, window, avail, todo, query, answer,
          results, pending, stopping, base,           \* of BatchCache
          crontab, job, running, isSyncing, syncPc, batch, row, read, left,
          names, found, change, processed, failed, alone      \* of CronSync

Cache == INSTANCE BatchCache WITH
  Clients <- BatchClients, Windows <- {2}, Loads <- BatchLoads,
  Limit <- 2, MaxVersion <- 0, Backlog <- {0}, Stoppable <- TRUE, pc <- batchPc

Line(c, n) == [cmd |-> c, sched |-> n]

\* Nothing, one command under two schedules, another command.
Cron == INSTANCE CronSync WITH
  Commands <- {a, b}, Schedules <- {1, 2}, BaseName <- a :> "A" @@ b :> "B",
  Crontabs <- {<<>>, <<Line(a, 1), Line(a, 2)>>, <<Line(b, 1), Line(a, 1)>>},
  Jobs <- CronJobs, Rows <- SyncRows,
  Users <- FALSE, Faults <- TRUE, Crashes <- TRUE, pc <- syncPc

batchVars == <<version, entry, alerts, batchPc, window, avail, todo, query, answer,
               results, pending, stopping, base>>
cronVars == <<crontab, job, running, isSyncing, syncPc, batch, row, read, left,
              names, found, change, processed, failed, alone>>
screenVars == <<loadVars, browserVars, monitorVars>>
serviceVars == <<part, vars, batchVars, cronVars, countVars, scanVars, screenVars>>

ServicesInit ==
  /\ part \in {"jobs", "batch", "cron", "counts", "files", "page", "browser", "monitor"}
  /\ Init /\ Cache!Init /\ Cron!Init /\ CountInit /\ ScanInit /\ LoadInit
  /\ BrowserInit /\ MonitorInit
  /\ part # "cron" => crontab = <<>>
  /\ part # "monitor" => list = "live"

JobPart ==
  /\ part = "jobs" /\ Next
  /\ UNCHANGED <<part, batchVars, cronVars, countVars, scanVars, screenVars>>

BatchPart ==
  /\ part = "batch" /\ Cache!Next
  /\ UNCHANGED <<part, vars, cronVars, countVars, scanVars, screenVars>>

CronPart ==
  /\ part = "cron" /\ Cron!Next
  /\ UNCHANGED <<part, vars, batchVars, countVars, scanVars, screenVars>>

CountPart ==
  /\ part = "counts" /\ CountNext
  /\ UNCHANGED <<part, vars, batchVars, cronVars, scanVars, screenVars>>

FilePart ==
  /\ part = "files" /\ ScanNext
  /\ UNCHANGED <<part, vars, batchVars, cronVars, countVars, screenVars>>

PagePart ==
  /\ part = "page" /\ LoadNext
  /\ UNCHANGED <<part, vars, batchVars, cronVars, countVars, scanVars,
                 browserVars, monitorVars>>

BrowserPart ==
  /\ part = "browser" /\ BrowserNext
  /\ UNCHANGED <<part, vars, batchVars, cronVars, countVars, scanVars,
                 loadVars, monitorVars>>

MonitorPart ==
  /\ part = "monitor" /\ MonitorNext
  /\ UNCHANGED <<part, vars, batchVars, cronVars, countVars, scanVars,
                 loadVars, browserVars>>

ServicesNext == JobPart \/ BatchPart \/ CronPart \/ CountPart \/ FilePart \/ PagePart
                \/ BrowserPart \/ MonitorPart

\* The fairness of the components' own specifications.
ServicesSpec ==
  /\ ServicesInit /\ [][ServicesNext]_serviceVars
  /\ \A e \in Execs : /\ WF_vars(part = "jobs" /\ Drive(e))
                      /\ WF_vars(part = "jobs" /\ Kills(e))
                      /\ WF_vars(part = "jobs" /\ signal[e] = "KILL" /\ Ends(e))
  /\ \A l \in BatchLoads : WF_batchVars(part = "batch" /\ Cache!Progress(l))
  /\ \A t \in Tabs : WF_browserVars(part = "browser" /\ PollStep(t))
  /\ WF_monitorVars(part = "monitor" /\ Fetching)
  /\ \A s \in Syncs : WF_cronVars(part = "cron" /\ Cron!Advance(s))

----------------------------------------------------------------------------
(* Properties of the components, by the names they have there *)

\* No more at a time than is meant to be: connectors of one refresh
\* (engine.db2QueryConcurrency), DB2 fetches of punches on behalf of all who wait for
\* them, and holders of the lock of the file scan, which is free once a scan has ended
\* in whatever way.
LimitsHold == Cache!PoolIsBounded /\ FetchIsShared /\ ScanIsExclusive

\* A refresh over at least one client returns, also when the service shuts down.
RefreshReturns == Cache!RefreshReturns

\* A batch of syncs ends, so that later ones are not refused for ever.
BatchEnds == Cron!BatchEnds
=============================================================================
