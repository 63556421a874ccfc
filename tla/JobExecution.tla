---------------------------- MODULE JobExecution ----------------------------
(***************************************************************************)
(* Job executions: Scheduler.triggerJobExecution admits one and starts it, *)
(* JobExecutor.executeWithRetry drives it, JobExecutor.cancel interrupts   *)
(* it (engine/scheduler.ts, engine/executor.ts, routes/jobs.ts).           *)
(*                                                                         *)
(* One action is one awaited call (a Prisma update, the child process, a   *)
(* timer) with the synchronous code that follows it; pc is the call the    *)
(* promise of an execution waits for.  The kill timer of a cancel outlives *)
(* the attempt it was set for, as setTimeout's closure does.               *)
(***************************************************************************)
EXTENDS Integers, FiniteSets

CONSTANTS
  Jobs, Execs,      \* jobs; pool of execution ids (bounds the table)
  Callers,          \* trigger requests that can be in flight at a time
  HttpJobs,         \* jobs whose type is HTTP: no child process
  MaxConcurrency,   \* job.maxConcurrency
  MaxAttempts,      \* retryPolicy.maxRetries + 1
  Cancels,          \* TRUE: users cancel executions
  Toggles,          \* TRUE: administrators enable and disable jobs
  Faults,           \* TRUE: a database call may reject (a cancel's always may)
  Crashes           \* TRUE: the backend process may die and restart

ASSUME ExecutionAssumption ==
  /\ MaxAttempts \in Nat \ {0} /\ MaxConcurrency \in Nat \ {0}
  /\ HttpJobs \subseteq Jobs
  /\ Cancels \in BOOLEAN /\ Toggles \in BOOLEAN
  /\ Faults \in BOOLEAN /\ Crashes \in BOOLEAN

NoJob == "no job"
ASSUME NoJobAssumption == NoJob \notin Jobs

VARIABLES
  active,      \* Job.isActive
  status,      \* JobExecution.status, "NONE" where there is no row
  jobOf,       \* JobExecution.jobId
  pc,          \* await the promise of executeWithRetry is suspended at
  attempt,     \* its loop variable
  ok,          \* result.success of the latest attempt
  proc,        \* the entry of runningProcesses: "none", "live", "closed"
  signal,      \* strongest signal sent to the child: "none", "TERM", "KILL"
  timers,      \* pending SIGKILL timers: <<execution, attempt>>
  cancelling,  \* executions with a CANCELLED update in flight
  call,        \* trigger requests: where each one is, and its locals
  succeeded,   \* history: executions whose work has been done once
  cancelled    \* history: attempts a user has cancelled

rowVars   == <<status, jobOf>>
runVars   == <<pc, attempt, ok>>
childVars == <<proc, signal>>
killVars  == <<timers, cancelling, cancelled>>
vars == <<active, rowVars, runVars, childVars, killVars, call, succeeded>>

Statuses == {"NONE", "PENDING", "QUEUED", "RUNNING", "SUCCESS", "FAILED",
             "CANCELLED", "RETRY_PENDING"}
Points == {"off", "attempt", "start", "exec", "finish", "fail", "retry",
           "sleep", "reset", "end"}
Attempts == 1..MaxAttempts

Idle == [at |-> "idle", job |-> NoJob, full |-> FALSE]

Init ==
  /\ active = [j \in Jobs |-> TRUE]
  /\ status = [e \in Execs |-> "NONE"] /\ jobOf = [e \in Execs |-> NoJob]
  /\ pc = [e \in Execs |-> "off"] /\ attempt = [e \in Execs |-> 1]
  /\ ok = [e \in Execs |-> FALSE]
  /\ proc = [e \in Execs |-> "none"] /\ signal = [e \in Execs |-> "none"]
  /\ timers = {} /\ cancelling = {} /\ cancelled = {}
  /\ call = [k \in Callers |-> Idle]
  /\ succeeded = {}

Write(e, s) == status' = [status EXCEPT ![e] = s]
Goto(e, p)  == pc' = [pc EXCEPT ![e] = p]

----------------------------------------------------------------------------
(* Scheduler.triggerJobExecution, and the toggle of routes/jobs.ts *)

\* findUnique: the job must be active when it is read
Trigger(k, j) ==
  /\ call[k].at = "idle" /\ active[j]
  /\ call' = [call EXCEPT ![k] = [at |-> "count", job |-> j, full |-> FALSE]]
  /\ UNCHANGED <<active, rowVars, runVars, childVars, killVars, succeeded>>

Running(j) == {e \in Execs : jobOf[e] = j /\ status[e] = "RUNNING"}

CountRunning(k) ==
  /\ call[k].at = "count"
  /\ call' = [call EXCEPT ![k] =
                [at |-> "create", job |-> call[k].job,
                 full |-> Cardinality(Running(call[k].job)) >= MaxConcurrency]]
  /\ UNCHANGED <<active, rowVars, runVars, childVars, killVars, succeeded>>

\* mutant: the promise is started whatever the status of the row
CreateExecutionEager(k, e) ==
  /\ call[k].at = "create" /\ status[e] = "NONE"
  /\ Write(e, IF call[k].full THEN "QUEUED" ELSE "PENDING")
  /\ jobOf' = [jobOf EXCEPT ![e] = call[k].job]
  /\ Goto(e, "attempt")
  /\ call' = [call EXCEPT ![k] = Idle]
  /\ UNCHANGED <<active, attempt, ok, childVars, killVars, succeeded>>

\* create; a PENDING execution is started without awaiting it
CreateExecution(k, e) ==
  /\ call[k].at = "create" /\ status[e] = "NONE"
  /\ Write(e, IF call[k].full THEN "QUEUED" ELSE "PENDING")
  /\ jobOf' = [jobOf EXCEPT ![e] = call[k].job]
  /\ Goto(e, IF call[k].full THEN "off" ELSE "attempt")
  /\ call' = [call EXCEPT ![k] = Idle]
  /\ UNCHANGED <<active, attempt, ok, childVars, killVars, succeeded>>

TriggerFails(k) ==
  /\ Faults /\ call[k].at # "idle"
  /\ call' = [call EXCEPT ![k] = Idle]
  /\ UNCHANGED <<active, rowVars, runVars, childVars, killVars, succeeded>>

ToggleJob(j) ==
  /\ Toggles
  /\ active' = [active EXCEPT ![j] = ~ @]
  /\ UNCHANGED <<rowVars, runVars, childVars, killVars, call, succeeded>>

----------------------------------------------------------------------------
(* JobExecutor.executeWithRetry and execute *)

\* the attempt number is written
BeginAttempt(e) ==
  /\ pc[e] = "attempt"
  /\ Goto(e, "start")
  /\ UNCHANGED <<active, rowVars, attempt, ok, childVars, killVars, call, succeeded>>

\* the row is RUNNING; the child is spawned and entered in runningProcesses
StartAttempt(e) ==
  /\ pc[e] = "start"
  /\ Write(e, "RUNNING") /\ Goto(e, "exec")
  /\ IF jobOf[e] \in HttpJobs
       THEN UNCHANGED childVars
       ELSE /\ proc' = [proc EXCEPT ![e] = "live"]
            /\ signal' = [signal EXCEPT ![e] = "none"]
  /\ UNCHANGED <<active, jobOf, attempt, ok, killVars, call, succeeded>>

\* 'close', 'error', the HTTP response, or an HTTP error or timeout
WorkEnds(e, success) ==
  /\ pc[e] = "exec"
  /\ success => signal[e] # "KILL"
  /\ Goto(e, "finish")
  /\ ok' = [ok EXCEPT ![e] = success]
  /\ succeeded' = IF success THEN succeeded \cup {e} ELSE succeeded
  /\ proc' = [proc EXCEPT ![e] = IF @ = "live" THEN "closed" ELSE @]
  /\ UNCHANGED <<active, rowVars, attempt, signal, killVars, call>>

AttemptsLeft(e) == attempt[e] < MaxAttempts

\* where executeWithRetry goes once execute has returned
AfterAttempt(e, success) ==
  Goto(e, IF ~ success /\ AttemptsLeft(e) THEN "retry" ELSE "end")

\* execute's finally: the entry is dropped
DropChild(e) ==
  /\ proc' = [proc EXCEPT ![e] = "none"]
  /\ signal' = [signal EXCEPT ![e] = "none"]

\* mutant: a failed attempt that will be retried keeps its status
FinishAttemptLazy(e) ==
  /\ pc[e] = "finish"
  /\ IF ~ ok[e] /\ AttemptsLeft(e)
       THEN UNCHANGED status
       ELSE Write(e, IF ok[e] THEN "SUCCESS" ELSE "FAILED")
  /\ AfterAttempt(e, ok[e]) /\ DropChild(e)
  /\ UNCHANGED <<active, jobOf, attempt, ok, killVars, call, succeeded>>

\* mutant: the result is not looked at before the retry
FinishAttemptBlind(e) ==
  /\ pc[e] = "finish"
  /\ Write(e, IF ok[e] THEN "SUCCESS" ELSE "FAILED")
  /\ AfterAttempt(e, FALSE) /\ DropChild(e)
  /\ UNCHANGED <<active, jobOf, attempt, ok, killVars, call, succeeded>>

FinishAttempt(e) ==
  /\ pc[e] = "finish"
  /\ Write(e, IF ok[e] THEN "SUCCESS" ELSE "FAILED")
  /\ AfterAttempt(e, ok[e]) /\ DropChild(e)
  /\ UNCHANGED <<active, jobOf, attempt, ok, killVars, call, succeeded>>

\* execute's catch: the update of "start" or of "finish" was rejected
RecordError(e) ==
  /\ pc[e] = "fail"
  /\ Write(e, "FAILED")
  /\ ok' = [ok EXCEPT ![e] = FALSE]
  /\ AfterAttempt(e, FALSE) /\ DropChild(e)
  /\ UNCHANGED <<active, jobOf, attempt, killVars, call, succeeded>>

ScheduleRetry(e) ==
  /\ pc[e] = "retry"
  /\ Write(e, "RETRY_PENDING") /\ Goto(e, "sleep")
  /\ UNCHANGED <<active, jobOf, attempt, ok, childVars, killVars, call, succeeded>>

\* mutant: the backoff timer starts again
WakeAgain(e) ==
  /\ pc[e] = "sleep"
  /\ Goto(e, "retry")
  /\ UNCHANGED <<active, rowVars, attempt, ok, childVars, killVars, call, succeeded>>

Wake(e) ==
  /\ pc[e] = "sleep"
  /\ Goto(e, "reset")
  /\ UNCHANGED <<active, rowVars, attempt, ok, childVars, killVars, call, succeeded>>

\* PENDING again, then the loop's increment and its condition
ResetForRetry(e) ==
  /\ pc[e] = "reset"
  /\ Write(e, "PENDING")
  /\ IF attempt[e] < MaxAttempts
       THEN Goto(e, "attempt") /\ attempt' = [attempt EXCEPT ![e] = @ + 1]
       ELSE Goto(e, "end") /\ UNCHANGED attempt
  /\ UNCHANGED <<active, jobOf, ok, childVars, killVars, call, succeeded>>

\* A rejected update: inside execute its catch runs; in the catch, or in
\* executeWithRetry, the promise rejects and startExecution's catch logs it.
UpdateRejected(e) ==
  /\ Faults
  /\ \/ /\ pc[e] \in {"start", "finish"}
        /\ Goto(e, "fail") /\ UNCHANGED childVars
     \/ /\ pc[e] \in {"attempt", "fail", "retry", "reset"}
        /\ Goto(e, "end") /\ DropChild(e)
  /\ UNCHANGED <<active, rowVars, attempt, ok, killVars, call, succeeded>>

----------------------------------------------------------------------------
(* JobExecutor.cancel *)

\* mutant: the entry is dropped at once, as if SIGTERM always worked
CancelForgets(e) ==
  /\ Cancels /\ proc[e] # "none"
  /\ signal' = [signal EXCEPT ![e] = IF proc[e] = "live" /\ @ = "none" THEN "TERM" ELSE @]
  /\ proc' = [proc EXCEPT ![e] = "none"]
  /\ timers' = timers \cup {<<e, attempt[e]>>}
  /\ cancelled' = cancelled \cup {<<e, attempt[e]>>}
  /\ cancelling' = cancelling \cup {e}
  /\ UNCHANGED <<active, rowVars, runVars, call, succeeded>>

\* SIGTERM, the 10 s timer, and the update is issued
Cancel(e) ==
  /\ Cancels /\ proc[e] # "none"
  /\ signal' = [signal EXCEPT ![e] = IF proc[e] = "live" /\ @ = "none" THEN "TERM" ELSE @]
  /\ timers' = timers \cup {<<e, attempt[e]>>}
  /\ cancelled' = cancelled \cup {<<e, attempt[e]>>}
  /\ cancelling' = cancelling \cup {e}
  /\ UNCHANGED <<active, rowVars, runVars, proc, call, succeeded>>

CancelRecorded(e) ==
  /\ e \in cancelling
  /\ Write(e, "CANCELLED")
  /\ cancelling' = cancelling \ {e}
  /\ UNCHANGED <<active, jobOf, runVars, childVars, timers, cancelled, call, succeeded>>

CancelRejected(e) ==
  /\ e \in cancelling
  /\ cancelling' = cancelling \ {e}
  /\ UNCHANGED <<active, rowVars, runVars, childVars, timers, cancelled, call, succeeded>>

\* mutant: the timer kills whatever runs under the id
KillTimerById(e, n) ==
  /\ <<e, n>> \in timers
  /\ timers' = timers \ {<<e, n>>}
  /\ signal' = [signal EXCEPT ![e] = IF proc[e] = "live" THEN "KILL" ELSE @]
  /\ UNCHANGED <<active, rowVars, runVars, proc, cancelling, cancelled, call, succeeded>>

\* 10 s later: SIGKILL to the child of that attempt, if the id is still
\* registered; the child of an earlier attempt is long dead
KillTimer(e, n) ==
  /\ <<e, n>> \in timers
  /\ timers' = timers \ {<<e, n>>}
  /\ signal' = [signal EXCEPT ![e] =
                  IF proc[e] = "live" /\ attempt[e] = n THEN "KILL" ELSE @]
  /\ UNCHANGED <<active, rowVars, runVars, proc, cancelling, cancelled, call, succeeded>>

----------------------------------------------------------------------------
\* The process dies: promises, timers and runningProcesses are gone, the rows
\* stay.  start() reads only the job table, so nothing resumes an execution.
Crash ==
  /\ Crashes
  /\ pc' = [e \in Execs |-> IF pc[e] = "end" THEN "end" ELSE "off"]
  /\ proc' = [e \in Execs |-> "none"] /\ signal' = [e \in Execs |-> "none"]
  /\ timers' = {} /\ cancelling' = {}
  /\ call' = [k \in Callers |-> Idle]
  /\ UNCHANGED <<active, rowVars, attempt, ok, cancelled, succeeded>>

Drive(e) ==
  \/ BeginAttempt(e) \/ StartAttempt(e) \/ FinishAttempt(e) \/ RecordError(e)
  \/ ScheduleRetry(e) \/ Wake(e) \/ ResetForRetry(e) \/ UpdateRejected(e)

Ends(e) == \E success \in BOOLEAN : WorkEnds(e, success)
Kills(e) == \E n \in Attempts : KillTimer(e, n)

Next ==
  \/ \E k \in Callers : \/ \E j \in Jobs : Trigger(k, j)
                        \/ CountRunning(k) \/ TriggerFails(k)
                        \/ \E e \in Execs : CreateExecution(k, e)
  \/ \E j \in Jobs : ToggleJob(j)
  \/ \E e \in Execs : \/ Drive(e) \/ Ends(e) \/ Kills(e)
                      \/ Cancel(e) \/ CancelRecorded(e) \/ CancelRejected(e)
  \/ Crash

Spec == Init /\ [][Next]_vars

\* Node resumes promises and fires timers; a killed child closes.
FairSpec ==
  /\ Spec
  /\ \A e \in Execs : /\ WF_vars(Drive(e)) /\ WF_vars(Kills(e))
                      /\ WF_vars(signal[e] = "KILL" /\ Ends(e))

----------------------------------------------------------------------------
(* Properties *)

TypeOK ==
  /\ active \in [Jobs -> BOOLEAN]
  /\ status \in [Execs -> Statuses] /\ jobOf \in [Execs -> Jobs \cup {NoJob}]
  /\ pc \in [Execs -> Points] /\ attempt \in [Execs -> Attempts]
  /\ ok \in [Execs -> BOOLEAN]
  /\ proc \in [Execs -> {"none", "live", "closed"}]
  /\ signal \in [Execs -> {"none", "TERM", "KILL"}]
  /\ timers \subseteq Execs \X Attempts /\ cancelled \subseteq Execs \X Attempts
  /\ cancelling \subseteq Execs /\ succeeded \subseteq Execs
  /\ call \in [Callers -> [at: {"idle", "count", "create"},
                           job: Jobs \cup {NoJob}, full: BOOLEAN]]

\* A RUNNING row has a promise of this process that waits for its child or
\* writes its result, even while cancels overlap with attempts and retries: the
\* concurrency limit counts no ghost.  (No crash, no rejected update.)
RunningIsAlive ==
  ~ Faults /\ ~ Crashes =>
    \A e \in Execs : status[e] = "RUNNING" => pc[e] \in {"exec", "finish"}

\* The SIGKILL timer of a cancelled attempt never hits the child of the retry
\* that runs under the same execution id.
KillsOnlyCancelled ==
  \A e \in Execs : signal[e] # "none" => <<e, attempt[e]>> \in cancelled

\* Work that succeeded is not done again by a retry (unless the update that
\* records the success is rejected).
SuccessIsNotRepeated ==
  [][~ Faults => \A e \in succeeded : pc'[e] = "exec" => pc[e] = "exec"]_vars

\* The statuses of a row follow the lifecycle, also when updates are rejected
\* and the process crashes, as long as nobody cancels.
Life == INSTANCE JobLifecycle WITH tries <- attempt
FollowsLifecycle == Life!LifeSpec

\* "Execution cancelled": the row keeps saying so.
CancelledIsFinal ==
  [][\A e \in Execs : status[e] = "CANCELLED" => status'[e] = "CANCELLED"]_vars

\* A child a user has cancelled ends, whether it heeds SIGTERM or not.
CancelledChildEnds ==
  \A e \in Execs : signal[e] = "TERM" ~> signal[e] = "none"

\* The executor itself never leaves an execution hanging: whatever is cancelled
\* or rejected on the way, it reaches the end or waits for the job's own work.
OnlyWorkBlocks ==
  \A e \in Execs : pc[e] \notin {"off", "end"} ~> pc[e] \in {"exec", "end"}
=============================================================================
