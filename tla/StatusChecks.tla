---------------------------- MODULE StatusChecks ----------------------------
(***************************************************************************)
(* The upcoming-job scanner of scheduler.ts: at start and every Window     *)
(* ticks the next run of each eligible job, if it falls within the window, *)
(* gets a timer that checks its log Delay ticks after the run.  A scan     *)
(* reads the jobs in one awaited query and takes the time afterwards, so   *)
(* the windows of two scans may overlap or leave a gap.                    *)
(***************************************************************************)
EXTENDS Integers

CONSTANTS CheckJobs,
          Period,        \* a job runs at every multiple of Period
          Window,        \* engine.upcomingScanIntervalMins
          Delay,         \* engine.postRunCheckDelayMins
          CheckHorizon   \* bound on the clock

ASSUME CheckAssumption ==
  Period \in Nat \ {0} /\ Delay \in Nat /\ CheckHorizon \in Nat

VARIABLES time,
          server,        \* "off", "on" (start() was called) or "stopping" (stop() was)
          scanning,      \* "idle", "first" (the scan start() awaits) or "reading"
          scanAt,        \* when the interval fires next
          syncOn,        \* engine.syncEnabled
          eligible,      \* the jobs the query selects
          queued,        \* the keys <<job, run>> of pendingStatusChecks
          armed,         \* armed[k]: the timers set for k
          fired,         \* the keys whose check has begun
          checking,      \* those it is in progress for
          checked        \* checked[j]: the run the status of j was last taken after

checkVars == <<time, server, scanning, scanAt, syncOn, eligible, queued, armed,
               fired, checking, checked>>

Runs == {t \in 1 .. CheckHorizon + Period : t % Period = 0}
CheckKeys == CheckJobs \X Runs
NextRun == CHOOSE t \in Runs : t > time /\ \A u \in Runs : u > time => t <= u

CheckTypeOK ==
  /\ time \in 0 .. CheckHorizon /\ server \in {"off", "on", "stopping"}
  /\ scanning \in {"idle", "first", "reading"} /\ scanAt \in 0 .. CheckHorizon + Window
  /\ eligible \subseteq CheckJobs
  /\ queued \cup fired \cup checking \subseteq CheckKeys
  /\ armed \in [CheckKeys -> 0 .. 2] /\ checked \in [CheckJobs -> {0} \cup Runs]

CheckInit ==
  /\ time = 0 /\ server = "off" /\ scanning = "idle" /\ scanAt = 0
  /\ syncOn = TRUE /\ eligible = CheckJobs
  /\ queued = {} /\ armed = [k \in CheckKeys |-> 0]
  /\ fired = {} /\ checking = {} /\ checked = [j \in CheckJobs |-> 0]

Due(k) == time >= k[2] + Delay

\* Timers fire on time; queries and checks take as long as they take.
CheckTick ==
  /\ time < CheckHorizon
  /\ ~(server = "on" /\ scanning = "idle" /\ scanAt <= time)
  /\ \A k \in CheckKeys : armed[k] > 0 => ~Due(k)
  /\ time' = time + 1
  /\ UNCHANGED <<server, scanning, scanAt, syncOn, eligible, queued, armed,
                 fired, checking, checked>>

Start ==
  /\ server = "off"
  /\ server' = "on" /\ scanning' = IF syncOn THEN "first" ELSE "idle"
  /\ scanAt' = time + Window
  /\ UNCHANGED <<time, syncOn, eligible, queued, armed, fired, checking, checked>>

\* stop() clears the timers of the keys the map holds; a scan it interrupts still ends.
Stop ==
  /\ server = "on" /\ scanning # "first"
  /\ server' = "stopping"
  /\ armed' = [k \in CheckKeys |-> IF k \in queued THEN 0 ELSE armed[k]]
  /\ queued' = {}
  /\ UNCHANGED <<time, scanning, scanAt, syncOn, eligible, fired, checking, checked>>

\* The process ends, after a stop or by a crash; nothing of this is persisted but the statuses.
Exit ==
  /\ server # "off"
  /\ server' = "off" /\ scanning' = "idle"
  /\ queued' = {} /\ checking' = {} /\ armed' = [k \in CheckKeys |-> 0]
  /\ UNCHANGED <<time, scanAt, syncOn, eligible, fired, checked>>

Toggle ==
  /\ \/ syncOn' = ~syncOn /\ UNCHANGED eligible
     \/ \E j \in CheckJobs : eligible' = (eligible \ {j}) \cup ({j} \ eligible) /\ UNCHANGED syncOn
  /\ UNCHANGED <<time, server, scanning, scanAt, queued, armed, fired, checking, checked>>

ScanBegins ==
  /\ server = "on" /\ scanning = "idle" /\ scanAt <= time
  /\ scanning' = IF syncOn THEN "reading" ELSE "idle"
  /\ scanAt' = time + Window
  /\ UNCHANGED <<time, server, syncOn, eligible, queued, armed, fired, checking, checked>>

\* mutant: the test of the map is dropped
QueueAnew == IF NextRun > time + Window THEN {} ELSE {<<j, NextRun>> : j \in eligible}

Queue == (IF NextRun > time + Window THEN {} ELSE {<<j, NextRun>> : j \in eligible}) \ queued

\* The rest of the scan is synchronous; it ends by forgetting the keys whose check is long past.
ScanEnds ==
  /\ scanning # "idle"
  /\ scanning' = "idle"
  /\ scanAt' = IF scanning = "first" THEN time + Window ELSE scanAt
  /\ armed' = [k \in CheckKeys |-> IF k \in Queue THEN armed[k] + 1 ELSE armed[k]]
  /\ queued' = {k \in queued \cup Queue : k[2] + Delay >= time}
  /\ UNCHANGED <<time, server, syncOn, eligible, fired, checking, checked>>

Fire(k) ==
  /\ armed[k] > 0 /\ Due(k)
  /\ armed' = [armed EXCEPT ![k] = @ - 1]
  /\ fired' = fired \cup {k}
  /\ checking' = checking \cup {k}
  /\ UNCHANGED <<time, server, scanning, scanAt, syncOn, eligible, queued, checked>>

\* Nothing is written for a job that is no longer eligible or whose server does not answer.
CheckEnds(k) ==
  /\ k \in checking
  /\ \/ syncOn /\ k[1] \in eligible /\ checked' = [checked EXCEPT ![k[1]] = k[2]]
     \/ UNCHANGED checked
  /\ checking' = checking \ {k}
  /\ queued' = queued \ {k}
  /\ UNCHANGED <<time, server, scanning, scanAt, syncOn, eligible, armed, fired>>

CheckNext ==
  \/ CheckTick
  \/ Start
  \/ Stop
  \/ Exit
  \/ Toggle
  \/ ScanBegins
  \/ ScanEnds
  \/ \E k \in CheckKeys : Fire(k) \/ CheckEnds(k)

CheckSpec == CheckInit /\ [][CheckNext]_checkVars

(***************************************************************************)
(* A run is checked at most once: it never has two timers, nor a timer     *)
(* when its check has already begun, although scans overlap, keys are      *)
(* forgotten, and the server is stopped and restarted.                     *)
(***************************************************************************)
ChecksOnce == \A k \in CheckKeys : armed[k] <= IF k \in fired THEN 0 ELSE 1
=============================================================================
