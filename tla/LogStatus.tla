------------------------------ MODULE LogStatus ------------------------------
(***************************************************************************)
(* The log analysis of sync-service.ts for one cron job: the job runs on   *)
(* its server and leaves lines in its log and an exit code in cron's log;  *)
(* a check works out when the job was due, then reads the log's date, its  *)
(* last lines and the exit code, each over SSH, and decides on a status    *)
(* from what it read.  The server goes on meanwhile.                       *)
(***************************************************************************)
EXTENDS Integers, Sequences

CONSTANTS Every,      \* the job is due at the multiples of Every
          Grace,      \* a log this much older than the expected run is fresh (5 min)
          Recent,     \* a log younger than this is fresh in any case (1 h)
          OneDay,     \* without a cron expression, so is one younger than this (24 h)
          LogLines,   \* lines tail shows of a log: 300 (bound)
          LogHorizon  \* bound on the clock

ASSUME LogAssumption ==
  /\ Every \in Nat \ {0} /\ LogLines \in Nat \ {0} /\ LogHorizon \in Nat
  /\ Grace \in Nat /\ Recent \in Nat /\ OneDay \in Nat

VARIABLES day,        \* the clock
          running,    \* external: whether the job runs
          lastRun,    \* external: the result of the run that ended last
          log,        \* external: the log file's date and the lines tail shows of it
          look,       \* the check in progress: what it has read
          jobStatus   \* Job.lastRunStatus

logVars == <<day, running, lastRun, log, look, jobStatus>>

Results == {"ok", "fail"}

\* A line is the lists of patterns it matches: SUCCESS_PATTERNS, FAILURE_PATTERNS,
\* both or neither.
Lines == SUBSET Results

NoLog == [date |-> -1, lines |-> << >>]
NoLook == [stage |-> "idle", expected |-> -1, found |-> FALSE, fresh |-> FALSE,
           lines |-> << >>, code |-> -1, told |-> FALSE]
RunStatuses == {"SUCCESS", "FAILED", "STALE", "NOT_RUN", "UNKNOWN"}

LogTypeOK ==
  /\ day \in 0 .. LogHorizon
  /\ running \in BOOLEAN /\ lastRun \in Results \cup {"none"}
  /\ log.date \in -1 .. LogHorizon /\ Len(log.lines) <= LogLines
  /\ look.stage \in {"idle", "stat", "tail", "exit", "write"}
  /\ jobStatus \in RunStatuses

LogInit ==
  /\ day = 0 /\ running = FALSE /\ lastRun = "none"
  /\ log = NoLog
  /\ look = NoLook /\ jobStatus = "UNKNOWN"

----------------------------------------------------------------------------
(* The server *)

\* Of all that the lines say of a result, a failure comes last.
FailsLast(lines) ==
  \E i \in DOMAIN lines :
    "fail" \in lines[i] /\ \A k \in DOMAIN lines : "ok" \in lines[k] => k <= i

\* The last run failed, and the log still says so.
Failed == lastRun = "fail" /\ FailsLast(log.lines)

\* history: the failure was there to be read whenever the check in progress read,
\* or will read, the log and cron's log
StillTold ==
  look' = [look EXCEPT !.told = /\ look.told
                                /\ look.stage \in {"stat", "tail"} => Failed'
                                /\ look.stage = "exit" => lastRun' = "fail"]

LogTick ==
  /\ day < LogHorizon /\ day' = day + 1
  /\ UNCHANGED <<running, lastRun, log, look, jobStatus>>

RunStarts ==
  /\ ~running /\ day % Every = 0
  /\ running' = TRUE
  /\ UNCHANGED <<day, lastRun, log, look, jobStatus>>

AppendLine(line) ==
  log' = [date |-> day,
          lines |-> IF Len(log.lines) < LogLines THEN Append(log.lines, line)
                    ELSE Append(Tail(log.lines), line)]

\* A run writes what it likes, whatever its result will be ...
RunWrites ==
  /\ running
  /\ \E line \in Lines : AppendLine(line)
  /\ UNCHANGED <<day, running, lastRun, jobStatus>>
  /\ StillTold

\* ... and may fail without a word.
RunEnds ==
  /\ running /\ running' = FALSE
  /\ lastRun' \in Results
  /\ UNCHANGED <<day, log, jobStatus>>
  /\ StillTold

\* The log is moved away, or a new one is put in its place.
Rotate ==
  /\ log' \in {NoLog, [date |-> day, lines |-> << >>]}
  /\ UNCHANGED <<day, running, lastRun, jobStatus>>
  /\ StillTold

----------------------------------------------------------------------------
(* The check *)

LastExpected == day - (day % Every)

\* expected is -1 for a job without a cron expression, or with one that does not parse
LookBegins ==
  /\ look.stage = "idle"
  /\ \E t \in {LastExpected, -1} :
       look' = [NoLook EXCEPT !.stage = "stat", !.expected = t, !.told = Failed]
  /\ UNCHANGED <<day, running, lastRun, log, jobStatus>>

\* A log path outside the allowed prefixes: nothing is read.
PathRejected ==
  /\ look.stage = "idle"
  /\ jobStatus' = "UNKNOWN"
  /\ UNCHANGED <<day, running, lastRun, log, look>>

LogFresh ==
  IF look.expected # -1 THEN \/ log.date >= look.expected - Grace
                             \/ day - log.date < Recent
                        ELSE day - log.date < OneDay

\* The expected run has served its purpose.
Stat ==
  /\ look.stage = "stat"
  /\ look' = IF log = NoLog THEN [look EXCEPT !.stage = "write"]
             ELSE [look EXCEPT !.stage = "tail", !.found = TRUE, !.fresh = LogFresh,
                               !.expected = -1]
  /\ UNCHANGED <<day, running, lastRun, log, jobStatus>>

\* A log removed since Stat has no last lines: ssh gives what there was on stdout.
TailLog ==
  /\ look.stage = "tail"
  /\ look' = [look EXCEPT !.stage = "exit", !.lines = log.lines]
  /\ UNCHANGED <<day, running, lastRun, log, jobStatus>>

\* What cron says of the run that ended last, if its logs still say it.
ExitCode == CASE lastRun = "ok" -> 0 [] lastRun = "fail" -> 1 [] lastRun = "none" -> -1

\* An error of this call counts as no exit code.
CronExitCode ==
  /\ look.stage = "exit"
  /\ \E c \in {ExitCode, -1} : look' = [look EXCEPT !.stage = "write", !.code = c]
  /\ UNCHANGED <<day, running, lastRun, log, jobStatus>>

Has(mark) == \E i \in DOMAIN look.lines : mark \in look.lines[i]
LastMark(mark) == CHOOSE i \in DOMAIN look.lines :
  mark \in look.lines[i] /\ \A k \in DOMAIN look.lines : mark \in look.lines[k] => k <= i

\* mutant: a success marker anywhere in the tail decides
FromLinesAnySuccess ==
  IF Has("ok") \/ ~Has("fail") THEN "SUCCESS" ELSE "FAILED"

\* With markers of both kinds the later one decides; without any, a fresh log is
\* taken for a success.
FromLines ==
  IF ~Has("ok") /\ ~Has("fail") THEN IF look.fresh THEN "SUCCESS" ELSE "UNKNOWN"
  ELSE IF ~Has("fail") THEN "SUCCESS"
  ELSE IF Has("ok") /\ LastMark("ok") > LastMark("fail") THEN "SUCCESS"
  ELSE "FAILED"

Verdict ==
  CASE ~look.found -> "NOT_RUN"
    [] look.found /\ look.code = 0 -> "SUCCESS"
    [] look.found /\ look.code > 0 -> "FAILED"
    [] look.found /\ look.code = -1 /\ ~look.fresh -> "STALE"
    [] OTHER -> FromLines

\* The status is written to the job; the JobExecution row that follows is not kept here.
WriteStatus ==
  /\ look.stage = "write"
  /\ jobStatus' = Verdict
  /\ look' = NoLook
  /\ UNCHANGED <<day, running, lastRun, log>>

\* A connection that breaks leaves the job as it was.
LookFails ==
  /\ look.stage # "idle"
  /\ look' = NoLook
  /\ UNCHANGED <<day, running, lastRun, log, jobStatus>>

LogNext ==
  \/ LogTick
  \/ RunStarts \/ RunWrites \/ RunEnds \/ Rotate
  \/ LookBegins \/ PathRejected
  \/ Stat \/ TailLog \/ CronExitCode \/ WriteStatus \/ LookFails

LogSpec == LogInit /\ [][LogNext]_logVars

(***************************************************************************)
(* A failure the log tells of is not reported as a success: not when an    *)
(* earlier run left its success in the same log, when a later one starts   *)
(* or writes while the check reads, when the log is rotated after it was   *)
(* read, and not when cron's logs have lost the exit code.  The failure    *)
(* must be there to be read: the last run has failed and the log's newest  *)
(* marker is one of failure until tail has run, and no run succeeds until  *)
(* the exit code is read.                                                  *)
(***************************************************************************)
FailureIsNotSuccess ==
  [][look.stage = "write" /\ look.told /\ WriteStatus => jobStatus' # "SUCCESS"]_logVars
=============================================================================
