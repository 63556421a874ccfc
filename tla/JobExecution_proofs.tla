------------------------ MODULE JobExecution_proofs ------------------------
(***************************************************************************)
(* Theorems about the executions of jobs (JobExecution), what is told of   *)
(* them (AlertRules) and what is read of the jobs of the clients           *)
(* (LogStatus), for every value of their constants.                        *)
(***************************************************************************)
EXTENDS JobExecution, AlertRules, LogStatus, Counting, TLAPS

----------------------------------------------------------------------------
(* Types *)

LEMMA TypeInit == Init => TypeOK
  BY ExecutionAssumption
     DEF Init, TypeOK, Attempts, Statuses, Points, Idle

\* Triggers and toggles touch neither attempts nor children.
LEMMA TypeAdmission ==
  ASSUME TypeOK, NEW k \in Callers,
         \/ \E j \in Jobs : Trigger(k, j) \/ ToggleJob(j)
         \/ CountRunning(k) \/ TriggerFails(k)
         \/ \E e \in Execs : CreateExecution(k, e)
  PROVE  TypeOK'
<1> USE DEF TypeOK, rowVars, runVars, childVars, killVars
<1>1. ASSUME NEW j \in Jobs, Trigger(k, j) PROVE TypeOK'
  BY <1>1 DEF Trigger
<1>2. ASSUME NEW j \in Jobs, ToggleJob(j) PROVE TypeOK'
  BY <1>2 DEF ToggleJob
<1>3. CASE CountRunning(k)
  <2>1. (Cardinality(Running(call[k].job)) >= MaxConcurrency) \in BOOLEAN
    OBVIOUS
  <2>2. QED
    BY <1>3, <2>1 DEF CountRunning
<1>4. CASE TriggerFails(k)
  BY <1>4 DEF TriggerFails, Idle
<1>5. ASSUME NEW e \in Execs, CreateExecution(k, e) PROVE TypeOK'
  BY <1>5 DEF CreateExecution, Write, Goto, Idle, Statuses, Points
<1>6. QED
  BY <1>1, <1>2, <1>3, <1>4, <1>5

LEMMA TypeDrive ==
  ASSUME TypeOK, NEW e \in Execs, Drive(e) \/ Ends(e)
  PROVE  TypeOK'
<1> USE DEF TypeOK, rowVars, runVars, childVars, killVars, Write, Goto,
            AfterAttempt, DropChild, Statuses, Points
<1>1. CASE BeginAttempt(e)
  BY <1>1 DEF BeginAttempt
<1>2. CASE StartAttempt(e)
  BY <1>2 DEF StartAttempt
<1>3. CASE FinishAttempt(e)
  BY <1>3 DEF FinishAttempt
<1>4. CASE RecordError(e)
  BY <1>4 DEF RecordError
<1>5. CASE ScheduleRetry(e) \/ Wake(e)
  BY <1>5 DEF ScheduleRetry, Wake
<1>6. CASE ResetForRetry(e)
  BY <1>6, ExecutionAssumption DEF ResetForRetry, Attempts
<1>7. CASE UpdateRejected(e)
  BY <1>7 DEF UpdateRejected
<1>8. CASE Ends(e)
  BY <1>8 DEF Ends, WorkEnds
<1>9. QED
  BY <1>1, <1>2, <1>3, <1>4, <1>5, <1>6, <1>7, <1>8 DEF Drive

LEMMA TypeCancel ==
  ASSUME TypeOK, NEW e \in Execs,
         Kills(e) \/ Cancel(e) \/ CancelRecorded(e) \/ CancelRejected(e)
  PROVE  TypeOK'
<1> USE DEF TypeOK, rowVars, runVars, childVars, killVars
<1>1. CASE Kills(e)
  BY <1>1 DEF Kills, KillTimer
<1>2. CASE Cancel(e)
  BY <1>2 DEF Cancel
<1>3. CASE CancelRecorded(e)
  BY <1>3 DEF CancelRecorded, Write, Statuses
<1>4. CASE CancelRejected(e)
  BY <1>4 DEF CancelRejected
<1>5. QED
  BY <1>1, <1>2, <1>3, <1>4

LEMMA TypeCrash == TypeOK /\ Crash => TypeOK'
  BY DEF TypeOK, Crash, rowVars, runVars, Points, Idle

LEMMA TypeStep == TypeOK /\ [Next]_vars => TypeOK'
<1> SUFFICES ASSUME TypeOK, [Next]_vars PROVE TypeOK'
  OBVIOUS
<1>1. ASSUME NEW j \in Jobs, ToggleJob(j) PROVE TypeOK'
  BY <1>1 DEF ToggleJob, TypeOK, rowVars, runVars, childVars, killVars
<1>2. CASE UNCHANGED vars
  BY <1>2 DEF vars, TypeOK, rowVars, runVars, childVars, killVars, Running
<1>3. QED
  BY <1>1, <1>2, TypeAdmission, TypeDrive, TypeCancel, TypeCrash DEF Next

\* Statuses, attempt numbers, children and timers have their types: no
\* execution is ever driven beyond its last attempt, and no status is written
\* that the code does not know.
THEOREM TypeCorrect == Spec => []TypeOK
<1>1. QED
  BY TypeInit, TypeStep, PTL DEF Spec

----------------------------------------------------------------------------
(* RUNNING rows and the promises behind them *)

LEMMA RunningStep ==
  ASSUME ~ Faults, ~ Crashes, TypeOK, RunningIsAlive, [Next]_vars
  PROVE  RunningIsAlive'
<1> USE DEF TypeOK, RunningIsAlive, rowVars, runVars, Write, Goto
<1>1. ASSUME NEW e \in Execs, Drive(e) PROVE RunningIsAlive'
  <2> USE DEF AfterAttempt
  <2>1. CASE BeginAttempt(e) \/ StartAttempt(e)
    BY <2>1 DEF BeginAttempt, StartAttempt
  <2>2. CASE FinishAttempt(e) \/ RecordError(e)
    BY <2>2 DEF FinishAttempt, RecordError
  <2>3. CASE ScheduleRetry(e) \/ Wake(e) \/ ResetForRetry(e)
    BY <2>3 DEF ScheduleRetry, Wake, ResetForRetry
  <2>4. CASE UpdateRejected(e)
    BY <2>4 DEF UpdateRejected
  <2>5. QED
    BY <1>1, <2>1, <2>2, <2>3, <2>4 DEF Drive
<1>2. ASSUME NEW e \in Execs, Ends(e) \/ Kills(e) \/ Cancel(e) PROVE RunningIsAlive'
  BY <1>2 DEF Ends, WorkEnds, Kills, KillTimer, Cancel
<1>3. ASSUME NEW e \in Execs, CancelRecorded(e) \/ CancelRejected(e)
      PROVE  RunningIsAlive'
  BY <1>3 DEF CancelRecorded, CancelRejected
<1>4. ASSUME NEW k \in Callers, NEW e \in Execs, CreateExecution(k, e)
      PROVE  RunningIsAlive'
  BY <1>4 DEF CreateExecution
<1>5. ASSUME NEW k \in Callers,
             (\E j \in Jobs : Trigger(k, j)) \/ CountRunning(k) \/ TriggerFails(k)
      PROVE  RunningIsAlive'
  BY <1>5 DEF Trigger, CountRunning, TriggerFails
<1>6. CASE Crash \/ (\E j \in Jobs : ToggleJob(j)) \/ UNCHANGED vars
  BY <1>6 DEF Crash, ToggleJob, vars
<1>7. QED
  BY <1>1, <1>2, <1>3, <1>4, <1>5, <1>6 DEF Next

\* However cancels, kill timers and retries overlap, a row that says RUNNING has
\* a promise that waits for its child or writes its result, so the number the
\* concurrency check reads counts no execution that is over.
THEOREM RunningAlive == Spec => []RunningIsAlive
<1>1. Init => RunningIsAlive
  BY DEF Init, RunningIsAlive
<1>2. TypeOK /\ RunningIsAlive /\ [Next]_vars => RunningIsAlive'
  <2>1. CASE ~ Faults /\ ~ Crashes
    BY <2>1, RunningStep
  <2>2. CASE Faults \/ Crashes
    BY <2>2 DEF RunningIsAlive
  <2>3. QED
    BY <2>1, <2>2
<1>3. QED
  BY <1>1, <1>2, TypeCorrect, PTL DEF Spec

----------------------------------------------------------------------------
(* Signals *)

\* A child that has been signalled belongs to an attempt a user cancelled, and
\* so does every pending timer.  Between attempts there is no child to signal:
\* the number of the attempt changes only then.  An id without a row is not
\* being driven, so a new execution starts without a child.
KillInv ==
  /\ KillsOnlyCancelled
  /\ timers \subseteq cancelled
  /\ \A e \in Execs : pc[e] \notin {"exec", "finish", "fail"} =>
                       proc[e] = "none" /\ signal[e] = "none"
  /\ \A e \in Execs : status[e] = "NONE" => pc[e] = "off"

LEMMA KillStep == TypeOK /\ KillInv /\ [Next]_vars => KillInv'
<1> SUFFICES ASSUME TypeOK, KillInv, [Next]_vars PROVE KillInv'
  OBVIOUS
<1> USE DEF TypeOK, KillInv, KillsOnlyCancelled, rowVars, runVars, childVars,
            killVars, Goto, Write
<1>1. ASSUME NEW e \in Execs, Drive(e) PROVE KillInv'
  <2> USE DEF AfterAttempt, DropChild
  <2>1. CASE BeginAttempt(e)
    BY <2>1 DEF BeginAttempt
  <2>2. CASE StartAttempt(e)
    BY <2>2 DEF StartAttempt
  <2>3. CASE FinishAttempt(e) \/ RecordError(e)
    BY <2>3 DEF FinishAttempt, RecordError
  <2>4. CASE ScheduleRetry(e) \/ Wake(e)
    BY <2>4 DEF ScheduleRetry, Wake
  <2>5. CASE ResetForRetry(e)
    BY <2>5 DEF ResetForRetry
  <2>6. CASE UpdateRejected(e)
    BY <2>6 DEF UpdateRejected
  <2>7. QED
    BY <1>1, <2>1, <2>2, <2>3, <2>4, <2>5, <2>6 DEF Drive
<1>2. ASSUME NEW e \in Execs, Ends(e) PROVE KillInv'
  BY <1>2 DEF Ends, WorkEnds
<1>3. ASSUME NEW e \in Execs, Kills(e) PROVE KillInv'
  <2>1. PICK n \in Attempts : KillTimer(e, n)
    BY <1>3 DEF Kills
  <2>2. timers' \subseteq timers /\ <<e, n>> \in cancelled
    BY <2>1 DEF KillTimer
  <2>3. \A d \in Execs : \/ signal'[d] = signal[d]
                         \/ d = e /\ proc[e] = "live" /\ attempt[e] = n
    BY <2>1 DEF KillTimer
  <2>4. UNCHANGED <<status, pc, attempt, proc, cancelled>>
    BY <2>1 DEF KillTimer
  <2>5. KillsOnlyCancelled'
    BY <2>2, <2>3, <2>4
  <2>6. QED
    BY <2>2, <2>3, <2>4, <2>5
<1>4. ASSUME NEW e \in Execs, Cancel(e) PROVE KillInv'
  BY <1>4 DEF Cancel
<1>5. ASSUME NEW e \in Execs, CancelRecorded(e) \/ CancelRejected(e) PROVE KillInv'
  <2>1. \A d \in Execs : status'[d] = "NONE" => status[d] = "NONE"
    BY <1>5 DEF CancelRecorded, CancelRejected
  <2>2. UNCHANGED <<proc, signal, pc, attempt, timers, cancelled>>
    BY <1>5 DEF CancelRecorded, CancelRejected
  <2>3. QED
    BY <2>1, <2>2
<1>6. ASSUME NEW k \in Callers, NEW e \in Execs, CreateExecution(k, e) PROVE KillInv'
  BY <1>6 DEF CreateExecution
<1>7. ASSUME NEW k \in Callers,
             (\E j \in Jobs : Trigger(k, j)) \/ CountRunning(k) \/ TriggerFails(k)
      PROVE  KillInv'
  BY <1>7 DEF Trigger, CountRunning, TriggerFails
<1>8. CASE Crash
  BY <1>8 DEF Crash
<1>9. CASE (\E j \in Jobs : ToggleJob(j)) \/ UNCHANGED vars
  BY <1>9 DEF ToggleJob, vars
<1>10. QED
  BY <1>1, <1>2, <1>3, <1>4, <1>5, <1>6, <1>7, <1>8, <1>9 DEF Next

\* A pending SIGKILL timer, or a second cancel, never reaches the child of an
\* attempt nobody cancelled, although attempts share the id it is keyed by.
THEOREM KillsCancelled == Spec => []KillsOnlyCancelled
<1>1. Init => KillInv
  BY DEF Init, KillInv, KillsOnlyCancelled
<1>2. KillInv => KillsOnlyCancelled
  BY DEF KillInv
<1>3. QED
  BY <1>1, <1>2, KillStep, TypeCorrect, PTL DEF Spec

----------------------------------------------------------------------------
(* What the liveness of executions rests on *)

\* A child that was told to end and has not, has the timer of its attempt behind it.
TermIsBacked ==
  \A e \in Execs : signal[e] = "TERM" =>
    proc[e] = "closed" \/ (proc[e] = "live" /\ <<e, attempt[e]>> \in timers)

BackedInv == TermIsBacked /\ \A e \in Execs : proc[e] = "live" => pc[e] = "exec"

LEMMA BackedStep == TypeOK /\ KillInv /\ BackedInv /\ [Next]_vars => BackedInv'
<1> SUFFICES ASSUME TypeOK, KillInv, BackedInv, [Next]_vars PROVE BackedInv'
  OBVIOUS
<1> USE DEF TypeOK, BackedInv, TermIsBacked, rowVars, runVars, childVars, killVars,
            Goto, Write
<1>1. ASSUME NEW e \in Execs, Drive(e) PROVE BackedInv'
  <2> USE DEF AfterAttempt, DropChild
  <2>1. CASE BeginAttempt(e)
    BY <2>1 DEF BeginAttempt
  <2>2. CASE StartAttempt(e)
    <3>1. proc[e] = "none"
      BY <2>2 DEF StartAttempt, KillInv
    <3>2. QED
      BY <2>2, <3>1 DEF StartAttempt
  <2>3. CASE FinishAttempt(e) \/ RecordError(e)
    BY <2>3 DEF FinishAttempt, RecordError
  <2>4. CASE ScheduleRetry(e) \/ Wake(e)
    BY <2>4 DEF ScheduleRetry, Wake
  <2>5. CASE ResetForRetry(e)
    <3>1. proc[e] = "none" /\ signal[e] = "none"
      BY <2>5 DEF ResetForRetry, KillInv
    <3>2. UNCHANGED <<proc, signal, timers>>
      BY <2>5 DEF ResetForRetry
    <3>3. \A d \in Execs : d # e => pc'[d] = pc[d] /\ attempt'[d] = attempt[d]
      BY <2>5 DEF ResetForRetry
    <3>4. QED
      BY <3>1, <3>2, <3>3
  <2>6. CASE UpdateRejected(e)
    BY <2>6 DEF UpdateRejected
  <2>7. QED
    BY <1>1, <2>1, <2>2, <2>3, <2>4, <2>5, <2>6 DEF Drive
<1>2. ASSUME NEW e \in Execs, Ends(e) PROVE BackedInv'
  BY <1>2 DEF Ends, WorkEnds
<1>3. ASSUME NEW e \in Execs, Kills(e) PROVE BackedInv'
  <2>1. PICK n \in Attempts : KillTimer(e, n)
    BY <1>3 DEF Kills
  <2>2. UNCHANGED <<pc, attempt, proc>> /\ timers' = timers \ {<<e, n>>}
    BY <2>1 DEF KillTimer
  <2>3. \A d \in Execs : signal'[d] = IF d = e /\ proc[e] = "live" /\ attempt[e] = n
                                      THEN "KILL" ELSE signal[d]
    BY <2>1 DEF KillTimer
  <2>4. QED
    BY <2>2, <2>3
<1>4. ASSUME NEW e \in Execs, Cancel(e) PROVE BackedInv'
  <2>1. UNCHANGED <<pc, attempt, proc>> /\ timers' = timers \cup {<<e, attempt[e]>>}
    BY <1>4 DEF Cancel
  <2>2. \A d \in Execs : signal'[d] = IF d = e /\ proc[e] = "live" /\ signal[e] = "none"
                                      THEN "TERM" ELSE signal[d]
    BY <1>4 DEF Cancel
  <2>3. QED
    BY <2>1, <2>2
<1>5. ASSUME NEW e \in Execs, CancelRecorded(e) \/ CancelRejected(e) PROVE BackedInv'
  BY <1>5 DEF CancelRecorded, CancelRejected
<1>6. ASSUME NEW k \in Callers, NEW e \in Execs, CreateExecution(k, e) PROVE BackedInv'
  <2>1. pc[e] = "off"
    BY <1>6 DEF CreateExecution, KillInv
  <2>2. UNCHANGED <<proc, signal, attempt, timers>> /\ \A d \in Execs : d # e => pc'[d] = pc[d]
    BY <1>6 DEF CreateExecution
  <2>3. QED
    BY <2>1, <2>2
<1>7. ASSUME NEW k \in Callers,
             (\E j \in Jobs : Trigger(k, j)) \/ CountRunning(k) \/ TriggerFails(k)
      PROVE  BackedInv'
  BY <1>7 DEF Trigger, CountRunning, TriggerFails
<1>8. CASE Crash
  BY <1>8 DEF Crash
<1>9. CASE (\E j \in Jobs : ToggleJob(j)) \/ UNCHANGED vars
  BY <1>9 DEF ToggleJob, vars
<1>10. QED
  BY <1>1, <1>2, <1>3, <1>4, <1>5, <1>6, <1>7, <1>8, <1>9 DEF Next

\* A child that ignores the SIGTERM of a cancel still has the SIGKILL of its own attempt
\* coming: no retry, second cancel or timer of an earlier attempt takes it away.
THEOREM TermBacked == Spec => []TermIsBacked
<1>1. Init => KillInv /\ BackedInv
  BY DEF Init, KillInv, KillsOnlyCancelled, BackedInv, TermIsBacked
<1>2. BackedInv => TermIsBacked
  BY DEF BackedInv
<1>3. QED
  BY <1>1, <1>2, KillStep, BackedStep, TypeCorrect, PTL DEF Spec

\* The order in which a promise gets to its awaits within an attempt.
Place(p) ==
  IF p = "attempt" THEN 1 ELSE IF p = "start" THEN 2 ELSE IF p = "exec" THEN 3
  ELSE IF p = "finish" THEN 4 ELSE IF p = "fail" THEN 5 ELSE IF p = "retry" THEN 6
  ELSE IF p = "sleep" THEN 7 ELSE IF p = "reset" THEN 8 ELSE 9

\* How far the promise of e has come, through all its attempts.
Travelled(e) == 9 * attempt[e] + Place(pc[e])

\* A promise that is there goes on with each step of its own, and with no other.
PromisesAdvance ==
  [][\A e \in Execs : pc[e] # "off" /\ pc'[e] # "off" =>
       IF Drive(e) \/ Ends(e) THEN Travelled(e)' > Travelled(e)
                              ELSE Travelled(e)' = Travelled(e)]_vars

LEMMA OwnTravel ==
  ASSUME TypeOK, NEW e \in Execs, Drive(e) \/ Ends(e)
  PROVE  Travelled(e)' > Travelled(e)
<1> USE DEF TypeOK, Travelled, Place, Goto, AfterAttempt, Attempts, runVars
<1>0. attempt[e] \in Int
  BY ExecutionAssumption
<1>1. CASE ~ ResetForRetry(e)
  <2>1. attempt' = attempt
    BY <1>1 DEF Drive, Ends, WorkEnds, BeginAttempt, StartAttempt, FinishAttempt, RecordError,
                ScheduleRetry, Wake, UpdateRejected
  <2>2. Place(pc'[e]) > Place(pc[e])
    <3>1. CASE BeginAttempt(e) \/ StartAttempt(e) \/ ScheduleRetry(e) \/ Wake(e)
      BY <3>1 DEF BeginAttempt, StartAttempt, ScheduleRetry, Wake
    <3>2. CASE FinishAttempt(e) \/ RecordError(e)
      BY <3>2 DEF FinishAttempt, RecordError
    <3>3. CASE UpdateRejected(e)
      BY <3>3 DEF UpdateRejected
    <3>4. CASE Ends(e)
      BY <3>4 DEF Ends, WorkEnds
    <3>5. QED
      BY <1>1, <3>1, <3>2, <3>3, <3>4 DEF Drive
  <2>3. QED
    BY <1>0, <2>1, <2>2
<1>2. CASE ResetForRetry(e)
  BY <1>0, <1>2 DEF ResetForRetry
<1>3. QED
  BY <1>1, <1>2

LEMMA OtherTravel ==
  ASSUME TypeOK, KillInv, [Next]_vars, NEW e \in Execs, pc[e] # "off", pc'[e] # "off",
         ~ Drive(e), ~ Ends(e)
  PROVE  Travelled(e)' = Travelled(e)
<1> SUFFICES pc'[e] = pc[e] /\ attempt'[e] = attempt[e]
  BY DEF Travelled
<1> USE DEF TypeOK, Goto, AfterAttempt, runVars
<1>1. ASSUME NEW d \in Execs, d # e, Drive(d) \/ Ends(d)
      PROVE  pc'[e] = pc[e] /\ attempt'[e] = attempt[e]
  BY <1>1 DEF Drive, Ends, WorkEnds, BeginAttempt, StartAttempt, FinishAttempt, RecordError,
              ScheduleRetry, Wake, ResetForRetry, UpdateRejected
<1>2. ASSUME NEW d \in Execs, Kills(d) \/ Cancel(d) \/ CancelRecorded(d) \/ CancelRejected(d)
      PROVE  pc'[e] = pc[e] /\ attempt'[e] = attempt[e]
  BY <1>2 DEF Kills, KillTimer, Cancel, CancelRecorded, CancelRejected
<1>3. ASSUME NEW k \in Callers, NEW d \in Execs, CreateExecution(k, d)
      PROVE  pc'[e] = pc[e] /\ attempt'[e] = attempt[e]
  <2>1. d # e
    BY <1>3 DEF CreateExecution, KillInv
  <2>2. QED
    BY <1>3, <2>1 DEF CreateExecution
<1>4. ASSUME NEW k \in Callers,
             (\E j \in Jobs : Trigger(k, j)) \/ CountRunning(k) \/ TriggerFails(k)
      PROVE  pc'[e] = pc[e] /\ attempt'[e] = attempt[e]
  BY <1>4 DEF Trigger, CountRunning, TriggerFails
<1>5. CASE Crash
  BY <1>5 DEF Crash
<1>6. CASE (\E j \in Jobs : ToggleJob(j)) \/ UNCHANGED vars
  BY <1>6 DEF ToggleJob, vars
<1>7. QED
  BY <1>1, <1>2, <1>3, <1>4, <1>5, <1>6 DEF Next

\* Retries, rejected updates and cancels included, a promise takes at most nine steps per
\* attempt and never repeats one; between two of them nothing else moves it but a crash.
THEOREM PromisesEnd ==
  Spec => PromisesAdvance /\ [](\A e \in Execs : Travelled(e) <= 9 * MaxAttempts + 9)
<1>1. Init => KillInv
  BY DEF Init, KillInv, KillsOnlyCancelled
<1>2. TypeOK /\ KillInv /\ [Next]_vars =>
        [\A e \in Execs : pc[e] # "off" /\ pc'[e] # "off" =>
           IF Drive(e) \/ Ends(e) THEN Travelled(e)' > Travelled(e)
                                  ELSE Travelled(e)' = Travelled(e)]_vars
  BY OwnTravel, OtherTravel
<1>3. TypeOK => \A e \in Execs : Travelled(e) <= 9 * MaxAttempts + 9
  BY ExecutionAssumption DEF TypeOK, Travelled, Place, Attempts
<1>4. QED
  BY <1>1, <1>2, <1>3, KillStep, TypeCorrect, PTL DEF Spec, PromisesAdvance

----------------------------------------------------------------------------
(* Work that succeeded is not repeated *)

\* An execution whose work has succeeded is about to record it, or is past
\* every attempt; an execution without a row is nowhere in executeWithRetry.
SuccessInv ==
  /\ \A e \in Execs : status[e] = "NONE" => pc[e] = "off"
  /\ ~ Faults => \A e \in Execs : pc[e] # "fail"
  /\ ~ Faults => \A e \in succeeded :
       /\ status[e] # "NONE"
       /\ pc[e] \in {"end", "off"} \/ (pc[e] = "finish" /\ ok[e])

LEMMA SuccessStep == TypeOK /\ SuccessInv /\ [Next]_vars => SuccessInv'
<1> SUFFICES ASSUME TypeOK, SuccessInv, [Next]_vars PROVE SuccessInv'
  OBVIOUS
<1> USE DEF TypeOK, SuccessInv, rowVars, runVars, childVars, killVars, Write, Goto
<1>1. ASSUME NEW k \in Callers,
             \/ \E j \in Jobs : Trigger(k, j)
             \/ CountRunning(k) \/ TriggerFails(k)
      PROVE  SuccessInv'
  BY <1>1 DEF Trigger, CountRunning, TriggerFails
<1>2. ASSUME NEW k \in Callers, NEW e \in Execs, CreateExecution(k, e)
      PROVE  SuccessInv'
  BY <1>2 DEF CreateExecution
<1>3. ASSUME NEW j \in Jobs, ToggleJob(j) PROVE SuccessInv'
  BY <1>3 DEF ToggleJob
<1>4. ASSUME NEW e \in Execs, Drive(e) PROVE SuccessInv'
  <2>1. CASE BeginAttempt(e)
    BY <2>1 DEF BeginAttempt
  <2>2. CASE StartAttempt(e)
    BY <2>2 DEF StartAttempt
  <2>3. CASE FinishAttempt(e)
    BY <2>3 DEF FinishAttempt, AfterAttempt
  <2>4. CASE RecordError(e)
    BY <2>4 DEF RecordError, AfterAttempt
  <2>5. CASE ScheduleRetry(e)
    BY <2>5 DEF ScheduleRetry
  <2>6. CASE Wake(e)
    BY <2>6 DEF Wake
  <2>7. CASE ResetForRetry(e)
    BY <2>7 DEF ResetForRetry
  <2>8. CASE UpdateRejected(e)
    BY <2>8 DEF UpdateRejected
  <2>9. QED
    BY <1>4, <2>1, <2>2, <2>3, <2>4, <2>5, <2>6, <2>7, <2>8 DEF Drive
<1>5. ASSUME NEW e \in Execs, NEW success \in BOOLEAN, WorkEnds(e, success)
      PROVE  SuccessInv'
  <2>1. ~ Faults => e \notin succeeded
    BY <1>5 DEF WorkEnds
  <2>2. ASSUME ~ Faults, NEW f \in succeeded'
        PROVE  /\ status'[f] # "NONE"
               /\ pc'[f] \in {"end", "off"} \/ (pc'[f] = "finish" /\ ok'[f])
    <3>1. CASE f = e
      BY <1>5, <2>1, <2>2, <3>1 DEF WorkEnds
    <3>2. CASE f # e
      BY <1>5, <2>2, <3>2 DEF WorkEnds
    <3>3. QED
      BY <3>1, <3>2
  <2>3. QED
    BY <1>5, <2>2 DEF WorkEnds
<1>6. ASSUME NEW e \in Execs, Kills(e) \/ Cancel(e) \/ CancelRecorded(e) \/ CancelRejected(e)
      PROVE  SuccessInv'
  BY <1>6 DEF Kills, KillTimer, Cancel, CancelRecorded, CancelRejected
<1>7. CASE Crash
  BY <1>7 DEF Crash
<1>8. CASE UNCHANGED vars
  BY <1>8 DEF vars
<1>9. QED
  BY <1>1, <1>2, <1>3, <1>4, <1>5, <1>6, <1>7, <1>8 DEF Next, Ends

\* Only StartAttempt leads to "exec", from "start".
LEMMA StartsNoSuccess ==
  ASSUME TypeOK, SuccessInv, [Next]_vars, ~ Faults,
         NEW e \in succeeded, pc'[e] = "exec"
  PROVE  pc[e] = "exec"
<1> USE DEF TypeOK, rowVars, runVars, childVars, killVars, Write, Goto
<1>1. ASSUME NEW f \in Execs, Drive(f) PROVE pc[e] \in {"exec", "start"}
  BY <1>1 DEF Drive, BeginAttempt, StartAttempt, FinishAttempt, RecordError, ScheduleRetry,
              Wake, ResetForRetry, UpdateRejected, AfterAttempt
<1>2. pc[e] \in {"exec", "start"}
  BY <1>1 DEF Next, vars, Trigger, CountRunning, TriggerFails, CreateExecution, ToggleJob,
              Ends, WorkEnds, Kills, KillTimer, Cancel, CancelRecorded, CancelRejected, Crash
<1>3. QED
  BY <1>2 DEF SuccessInv

\* Once the work of an execution has succeeded, no retry does it again.
THEOREM SuccessOnce == Spec => SuccessIsNotRepeated
<1>1. Init => SuccessInv
  BY DEF Init, SuccessInv
<1>2. TypeOK /\ SuccessInv /\ [Next]_vars =>
        [~ Faults => \A e \in succeeded : pc'[e] = "exec" => pc[e] = "exec"]_vars
  BY StartsNoSuccess
<1>3. QED
  BY <1>1, <1>2, TypeInit, TypeStep, SuccessStep, PTL DEF Spec, SuccessIsNotRepeated

----------------------------------------------------------------------------
(* Refinement *)

\* What the row says at each await, as long as nobody cancels.
RowInv ==
  /\ cancelling = {}
  /\ \A e \in Execs :
       /\ pc[e] \in {"attempt", "start"} => status[e] = "PENDING"
       /\ pc[e] \in {"exec", "finish"} => status[e] = "RUNNING"
       /\ pc[e] = "fail" => status[e] \in {"PENDING", "RUNNING"}
       /\ pc[e] = "retry" => status[e] = "FAILED" /\ attempt[e] < MaxAttempts
       /\ pc[e] \in {"sleep", "reset"} =>
            status[e] = "RETRY_PENDING" /\ attempt[e] < MaxAttempts
       /\ status[e] = "NONE" => pc[e] = "off"

LEMMA RowStep ==
  ASSUME ~ Cancels, TypeOK, RowInv, [Next]_vars
  PROVE  RowInv'
<1> USE DEF TypeOK, RowInv, rowVars, runVars, killVars, Goto, Write
<1>1. ASSUME NEW e \in Execs, Drive(e) PROVE RowInv'
  <2> USE DEF AfterAttempt, AttemptsLeft
  <2>1. CASE BeginAttempt(e)
    BY <2>1 DEF BeginAttempt
  <2>2. CASE StartAttempt(e)
    BY <2>2 DEF StartAttempt
  <2>3. CASE FinishAttempt(e)
    BY <2>3 DEF FinishAttempt
  <2>4. CASE RecordError(e)
    BY <2>4 DEF RecordError
  <2>5. CASE ScheduleRetry(e) \/ Wake(e)
    BY <2>5 DEF ScheduleRetry, Wake
  <2>6. CASE ResetForRetry(e)
    BY <2>6 DEF ResetForRetry
  <2>7. CASE UpdateRejected(e)
    BY <2>7 DEF UpdateRejected
  <2>8. QED
    BY <1>1, <2>1, <2>2, <2>3, <2>4, <2>5, <2>6, <2>7 DEF Drive
<1>2. ASSUME NEW e \in Execs, Ends(e) \/ Kills(e) PROVE RowInv'
  <2>1. ASSUME NEW success \in BOOLEAN, WorkEnds(e, success) PROVE RowInv'
    BY <2>1 DEF WorkEnds
  <2>2. ASSUME NEW n \in Attempts, KillTimer(e, n) PROVE RowInv'
    BY <2>2 DEF KillTimer
  <2>3. QED
    BY <1>2, <2>1, <2>2 DEF Ends, Kills
<1>3. ASSUME NEW e \in Execs, Cancel(e) \/ CancelRecorded(e) \/ CancelRejected(e)
      PROVE  RowInv'
  BY <1>3 DEF Cancel, CancelRecorded, CancelRejected
<1>4. ASSUME NEW k \in Callers, NEW e \in Execs, CreateExecution(k, e) PROVE RowInv'
  BY <1>4 DEF CreateExecution
<1>5. ASSUME NEW k \in Callers,
             (\E j \in Jobs : Trigger(k, j)) \/ CountRunning(k) \/ TriggerFails(k)
      PROVE  RowInv'
  BY <1>5 DEF Trigger, CountRunning, TriggerFails
<1>6. CASE Crash
  BY <1>6 DEF Crash
<1>7. CASE (\E j \in Jobs : ToggleJob(j)) \/ UNCHANGED vars
  BY <1>7 DEF ToggleJob, vars
<1>8. QED
  BY <1>1, <1>2, <1>3, <1>4, <1>5, <1>6, <1>7 DEF Next

LEMMA LifeStep ==
  ASSUME ~ Cancels, TypeOK, RowInv, [Next]_vars
  PROVE  [Life!LifeNext]_(Life!lifeVars)
<1> USE DEF TypeOK, RowInv, rowVars, runVars, killVars, Goto, Write,
            Life!LifeNext, Life!lifeVars, Life!Become
<1>1. ASSUME NEW e \in Execs, Drive(e) PROVE [Life!LifeNext]_(Life!lifeVars)
  <2>1. CASE BeginAttempt(e) \/ Wake(e) \/ UpdateRejected(e)
    BY <2>1 DEF BeginAttempt, Wake, UpdateRejected
  <2>2. CASE StartAttempt(e)
    <3>1. Life!Attempt(e)
      BY <2>2 DEF StartAttempt, Life!Attempt
    <3>2. QED
      BY <3>1
  <2>3. CASE FinishAttempt(e) \/ RecordError(e)
    <3>1. Life!Attempt(e)
      BY <2>3 DEF FinishAttempt, RecordError, Life!Attempt
    <3>2. QED
      BY <3>1
  <2>4. CASE ScheduleRetry(e)
    <3>1. Life!RetryLater(e)
      BY <2>4 DEF ScheduleRetry, Life!RetryLater
    <3>2. QED
      BY <3>1
  <2>5. CASE ResetForRetry(e)
    <3>1. Life!RetryNow(e)
      BY <2>5 DEF ResetForRetry, Life!RetryNow
    <3>2. QED
      BY <3>1
  <2>6. QED
    BY <1>1, <2>1, <2>2, <2>3, <2>4, <2>5 DEF Drive
<1>2. ASSUME NEW k \in Callers, NEW e \in Execs, CreateExecution(k, e)
      PROVE  [Life!LifeNext]_(Life!lifeVars)
  <2>1. Life!Admit(e)
    BY <1>2 DEF CreateExecution, Life!Admit
  <2>2. QED
    BY <2>1
<1>3. ASSUME NEW e \in Execs,
             \/ Ends(e) \/ Kills(e) \/ Cancel(e)
             \/ CancelRecorded(e) \/ CancelRejected(e)
      PROVE  [Life!LifeNext]_(Life!lifeVars)
  BY <1>3 DEF Ends, WorkEnds, Kills, KillTimer, Cancel, CancelRecorded, CancelRejected
<1>4. ASSUME NEW k \in Callers,
             (\E j \in Jobs : Trigger(k, j)) \/ CountRunning(k) \/ TriggerFails(k)
      PROVE  [Life!LifeNext]_(Life!lifeVars)
  BY <1>4 DEF Trigger, CountRunning, TriggerFails
<1>5. CASE Crash \/ (\E j \in Jobs : ToggleJob(j)) \/ UNCHANGED vars
  BY <1>5 DEF Crash, ToggleJob, vars
<1>6. QED
  BY <1>1, <1>2, <1>3, <1>4, <1>5 DEF Next

\* Without cancels the rows follow JobLifecycle: triggers, attempts, retries,
\* rejected updates and crashes only ever move a row along it, and a QUEUED row
\* never moves again.
THEOREM ImplementsLifecycle == ASSUME ~ Cancels PROVE Spec => FollowsLifecycle
<1>1. Init => RowInv /\ Life!LifeInit
  BY DEF Init, RowInv, Life!LifeInit
<1>2. TypeOK /\ RowInv /\ [Next]_vars => RowInv' /\ [Life!LifeNext]_(Life!lifeVars)
  BY RowStep, LifeStep
<1>3. QED
  BY <1>1, <1>2, TypeCorrect, PTL DEF Spec, FollowsLifecycle, Life!LifeSpec

----------------------------------------------------------------------------
(* Alert rules *)

AlertStages == {"idle", "match", "next", "create", "stamp", "send", "done", "failed"}

\* Rows of some of the rules, as one read found them.
MatchedRows == UNION {[S -> RuleRows] : S \in SUBSET Rules}

CallRows ==
  [stage : AlertStages, of : MatchedRows, todo : SUBSET Rules, quiet : SUBSET Rules,
   left : SUBSET Channels, tried : SUBSET (Rules \X Channels)]

\* The rule has its event of this alert, or none can have one any more.
EventKept(r, a) == rule[r] = Gone \/ \E e \in event : e.rule = r /\ e.alert = a

\* The channels of rule r have been attempted, those in "but" excepted.
TriedBut(q, r, but) == {r} \X (q.of[r].channels \ but) \subseteq q.tried

\* What call a, in state q, has done for the rules it has passed.
CallSound(a, q) ==
  /\ q.todo \cup q.quiet \subseteq DOMAIN q.of
  /\ q.stage \in {"idle", "match"} => q.quiet = {}
  /\ q.stage = "done" => q.todo = {}
  /\ q.stage \in {"create", "stamp", "send"} => q.todo # {}
  /\ \A r \in DOMAIN q.of \ (q.quiet \cup q.todo) : EventKept(r, a) /\ TriedBut(q, r, {})
  /\ LET c == CHOOSE x \in q.todo : TRUE IN
     /\ q.stage \in {"stamp", "send"} => EventKept(c, a)
     /\ q.stage = "send" => TriedBut(q, c, q.left)

AlertInv ==
  /\ rule \in [Rules -> RuleRows \cup {NoRule, Gone}]
  /\ event \subseteq [rule : Rules, alert : Alerts, acknowledged : BOOLEAN]
  /\ now \in 1 .. AlertHorizon
  /\ alert \in [Alerts -> CallRows]
  /\ \A a \in Alerts : CallSound(a, alert[a])

LEMMA NoRules == NoRule # Gone /\ NoRule \notin RuleRows /\ Gone \notin RuleRows
<1>1. NoRule.last = 0 /\ Gone.last = 1 /\ NoRule.channels = {} /\ Gone.channels = {}
  BY DEF NoRule, Gone
<1> QED
  BY <1>1 DEF RuleRows

LEMMA NoAlertSound == NoAlert \in CallRows /\ \A a \in Alerts : CallSound(a, NoAlert)
<1>1. [r \in {} |-> NoRule] \in MatchedRows
  <2>1. [r \in {} |-> NoRule] \in [{} -> RuleRows]
    OBVIOUS
  <2> QED
    BY <2>1 DEF MatchedRows
<1>2. NoAlert \in CallRows
  BY <1>1 DEF NoAlert, CallRows, AlertStages
<1>3. /\ NoAlert.stage = "idle" /\ DOMAIN NoAlert.of = {} /\ NoAlert.todo = {}
      /\ NoAlert.quiet = {}
  BY DEF NoAlert
<1> QED
  BY <1>2, <1>3 DEF CallSound

LEMMA CallFields ==
  ASSUME NEW q \in CallRows
  PROVE  /\ q.stage \in AlertStages /\ q.todo \subseteq Rules /\ q.quiet \subseteq Rules
         /\ q.left \subseteq Channels /\ q.tried \subseteq Rules \X Channels
         /\ DOMAIN q.of \subseteq Rules
         /\ \A r \in DOMAIN q.of : q.of[r] \in RuleRows /\ q.of[r].channels \subseteq Channels
<1>1. q.of \in MatchedRows /\ q.stage \in AlertStages /\ q.todo \subseteq Rules
      /\ q.quiet \subseteq Rules /\ q.left \subseteq Channels
      /\ q.tried \subseteq Rules \X Channels
  BY DEF CallRows
<1>2. PICK S \in SUBSET Rules : q.of \in [S -> RuleRows]
  BY <1>1 DEF MatchedRows
<1> QED
  BY <1>1, <1>2 DEF RuleRows

\* The updates of a call's state, field by field.
LEMMA StageUpdate ==
  ASSUME NEW q \in CallRows, NEW s \in AlertStages
  PROVE  LET x == [q EXCEPT !.stage = s] IN
         /\ x \in CallRows /\ x.stage = s /\ x.of = q.of /\ x.todo = q.todo
         /\ x.quiet = q.quiet /\ x.left = q.left /\ x.tried = q.tried
BY DEF CallRows

LEMMA PassUpdate ==
  ASSUME NEW q \in CallRows, NEW r \in Rules
  PROVE  LET x == [q EXCEPT !.todo = q.todo \ {r}, !.quiet = q.quiet \cup {r}] IN
         /\ x \in CallRows /\ x.stage = q.stage /\ x.of = q.of /\ x.tried = q.tried
         /\ x.todo = q.todo \ {r} /\ x.quiet = q.quiet \cup {r}
<1> DEFINE y == [q EXCEPT !.todo = q.todo \ {r}]
           x == [y EXCEPT !.quiet = y.quiet \cup {r}]
<1>1. /\ y \in CallRows /\ y.stage = q.stage /\ y.of = q.of /\ y.tried = q.tried
      /\ y.todo = q.todo \ {r} /\ y.quiet = q.quiet
  BY DEF CallRows
<1> HIDE DEF y
<1>2. /\ x \in CallRows /\ x.stage = q.stage /\ x.of = q.of /\ x.tried = q.tried
      /\ x.todo = q.todo \ {r} /\ x.quiet = q.quiet \cup {r}
  BY <1>1 DEF CallRows
<1> QED
  BY <1>2 DEF y

LEMMA SendUpdate ==
  ASSUME NEW q \in CallRows, NEW left \in SUBSET Channels
  PROVE  LET x == [q EXCEPT !.stage = "send", !.left = left] IN
         /\ x \in CallRows /\ x.stage = "send" /\ x.of = q.of /\ x.tried = q.tried
         /\ x.todo = q.todo /\ x.quiet = q.quiet /\ x.left = left
<1> DEFINE y == [q EXCEPT !.stage = "send"]
           x == [y EXCEPT !.left = left]
<1>1. /\ y \in CallRows /\ y.stage = "send" /\ y.of = q.of /\ y.tried = q.tried
      /\ y.todo = q.todo /\ y.quiet = q.quiet
  BY StageUpdate DEF AlertStages
<1> HIDE DEF y
<1>2. /\ x \in CallRows /\ x.stage = "send" /\ x.of = q.of /\ x.tried = q.tried
      /\ x.todo = q.todo /\ x.quiet = q.quiet /\ x.left = left
  BY <1>1 DEF CallRows
<1> QED
  BY <1>2 DEF y

LEMMA SentUpdate ==
  ASSUME NEW q \in CallRows, NEW r \in Rules
  PROVE  LET x == [q EXCEPT !.stage = "next", !.todo = q.todo \ {r}] IN
         /\ x \in CallRows /\ x.stage = "next" /\ x.of = q.of /\ x.tried = q.tried
         /\ x.todo = q.todo \ {r} /\ x.quiet = q.quiet
<1> DEFINE y == [q EXCEPT !.stage = "next"]
           x == [y EXCEPT !.todo = y.todo \ {r}]
<1>1. /\ y \in CallRows /\ y.stage = "next" /\ y.of = q.of /\ y.tried = q.tried
      /\ y.todo = q.todo /\ y.quiet = q.quiet
  BY StageUpdate DEF AlertStages
<1> HIDE DEF y
<1>2. /\ x \in CallRows /\ x.stage = "next" /\ x.of = q.of /\ x.tried = q.tried
      /\ x.todo = q.todo \ {r} /\ x.quiet = q.quiet
  BY <1>1 DEF CallRows
<1> QED
  BY <1>2 DEF y

\* A step that takes an event from no rule that stays.
KeepsEvents == \A r \in Rules, a \in Alerts : EventKept(r, a) => EventKept(r, a)'

LEMMA SoundKept ==
  ASSUME KeepsEvents, NEW a \in Alerts, NEW q \in CallRows, CallSound(a, q)
  PROVE  CallSound(a, q)'
<1>1. DOMAIN q.of \subseteq Rules /\ q.todo \subseteq Rules
  BY CallFields
<1> DEFINE c == CHOOSE x \in q.todo : TRUE
<1>2. q.todo # {} => c \in Rules
  BY <1>1
<1>3. \A r \in Rules : EventKept(r, a) => EventKept(r, a)'
  BY DEF KeepsEvents
<1> HIDE DEF c
<1>4. q.stage \in {"stamp", "send"} => EventKept(c, a)'
  BY <1>2, <1>3 DEF CallSound, c
<1> QED
  BY <1>1, <1>3, <1>4 DEF CallSound, c

\* A step of the rules and events only.
LEMMA RuleStep ==
  ASSUME AlertInv, KeepsEvents, alert' = alert, now' \in 1 .. AlertHorizon,
         rule' \in [Rules -> RuleRows \cup {NoRule, Gone}],
         event' \subseteq [rule : Rules, alert : Alerts, acknowledged : BOOLEAN]
  PROVE  AlertInv'
<1>1. ASSUME NEW a \in Alerts PROVE CallSound(a, alert[a])'
  <2>1. alert[a] \in CallRows /\ CallSound(a, alert[a])
    BY DEF AlertInv
  <2>2. alert'[a] = alert[a]
    OBVIOUS
  <2> QED
    BY <2>1, <2>2, SoundKept DEF CallSound
<1> QED
  BY <1>1 DEF AlertInv

\* A step of one call.
LEMMA CallStep ==
  ASSUME AlertInv, KeepsEvents, NEW a \in Alerts, NEW q \in CallRows, CallSound(a, q)',
         alert' = [alert EXCEPT ![a] = q], now' = now,
         rule' \in [Rules -> RuleRows \cup {NoRule, Gone}],
         event' \subseteq [rule : Rules, alert : Alerts, acknowledged : BOOLEAN]
  PROVE  AlertInv'
<1>1. ASSUME NEW b \in Alerts PROVE CallSound(b, alert[b])'
  <2>1. CASE b = a
    <3>1. alert'[b] = q
      BY <2>1 DEF AlertInv
    <3> QED
      BY <2>1, <3>1 DEF CallSound
  <2>2. CASE b # a
    <3>1. alert[b] \in CallRows /\ CallSound(b, alert[b]) /\ alert'[b] = alert[b]
      BY <2>2 DEF AlertInv
    <3> QED
      BY <3>1, SoundKept DEF CallSound
  <2> QED
    BY <2>1, <2>2
<1> QED
  BY <1>1 DEF AlertInv

\* No rule has been evaluated and no call is in progress at the start.
THEOREM AlertInitially == AlertInit => AlertInv
BY NoAlertSound, AlertAssumption DEF AlertInit, AlertInv

LEMMA RulesEdited ==
  ASSUME AlertInv, NEW r \in Rules, CreateRule(r) \/ UpdateRule(r) \/ DeleteRule(r)
  PROVE  AlertInv'
<1>0. /\ rule \in [Rules -> RuleRows \cup {NoRule, Gone}]
      /\ event \subseteq [rule : Rules, alert : Alerts, acknowledged : BOOLEAN]
      /\ now \in 1 .. AlertHorizon
  BY DEF AlertInv
<1>1. CASE CreateRule(r)
  <2>1. PICK cs \in (SUBSET Channels) \ {{}} :
          rule' = [rule EXCEPT ![r] = [active |-> TRUE, channels |-> cs, last |-> 0]]
    BY <1>1, Zenon DEF CreateRule
  <2>2. [active |-> TRUE, channels |-> cs, last |-> 0] \in RuleRows
    BY AlertAssumption DEF RuleRows
  <2>3. rule[r] # Gone /\ UNCHANGED <<event, alert, now>>
    BY <1>1, NoRules DEF CreateRule
  <2>4. KeepsEvents
    BY <1>0, <2>1, <2>3 DEF KeepsEvents, EventKept
  <2> QED
    BY <1>0, <2>1, <2>2, <2>3, <2>4, RuleStep
<1>2. CASE UpdateRule(r)
  <2>1. PICK on \in BOOLEAN, cs \in (SUBSET Channels) \ {{}} :
          rule' = [rule EXCEPT ![r] = [active |-> on, channels |-> cs, last |-> @.last]]
    BY <1>2, Zenon DEF UpdateRule
  <2>2. rule[r] \in RuleRows /\ rule[r] # Gone /\ UNCHANGED <<event, alert, now>>
    BY <1>0, <1>2 DEF UpdateRule, Exists
  <2>3. [active |-> on, channels |-> cs, last |-> rule[r].last] \in RuleRows
    BY <2>2 DEF RuleRows
  <2>4. KeepsEvents
    BY <1>0, <2>1, <2>2 DEF KeepsEvents, EventKept
  <2> QED
    BY <1>0, <2>1, <2>2, <2>3, <2>4, RuleStep
<1>3. CASE DeleteRule(r)
  <2>1. /\ rule' = [rule EXCEPT ![r] = Gone] /\ event' = {e \in event : e.rule # r}
        /\ UNCHANGED <<alert, now>>
    BY <1>3 DEF DeleteRule
  <2>2. ASSUME NEW s \in Rules, NEW a \in Alerts, EventKept(s, a) PROVE EventKept(s, a)'
    <3>1. CASE s = r
      BY <1>0, <2>1, <3>1 DEF EventKept
    <3>2. CASE s # r
      BY <1>0, <2>1, <2>2, <3>2 DEF EventKept
    <3> QED
      BY <3>1, <3>2
  <2> QED
    BY <1>0, <2>1, <2>2, RuleStep DEF KeepsEvents
<1> QED
  BY <1>1, <1>2, <1>3

LEMMA EventsAcknowledged ==
  ASSUME AlertInv, NEW some \in SUBSET event, Acknowledge(some)
  PROVE  AlertInv'
<1>0. /\ rule \in [Rules -> RuleRows \cup {NoRule, Gone}]
      /\ event \subseteq [rule : Rules, alert : Alerts, acknowledged : BOOLEAN]
      /\ now \in 1 .. AlertHorizon
  BY DEF AlertInv
<1>1. /\ event' = (event \ some) \cup {[e EXCEPT !.acknowledged = TRUE] : e \in some}
      /\ UNCHANGED <<rule, alert, now>>
  BY DEF Acknowledge
<1>2. ASSUME NEW e \in event
      PROVE  LET d == [e EXCEPT !.acknowledged = TRUE] IN
             /\ d \in [rule : Rules, alert : Alerts, acknowledged : BOOLEAN]
             /\ d.rule = e.rule /\ d.alert = e.alert
  <2>1. ASSUME NEW on \in BOOLEAN
        PROVE  LET d == [e EXCEPT !.acknowledged = on] IN
               /\ d \in [rule : Rules, alert : Alerts, acknowledged : BOOLEAN]
               /\ d.rule = e.rule /\ d.alert = e.alert
    BY <1>0
  <2> QED
    BY <2>1, Zenon
<1>3. event' \subseteq [rule : Rules, alert : Alerts, acknowledged : BOOLEAN]
  BY <1>0, <1>1, <1>2
<1>4. ASSUME NEW r \in Rules, NEW a \in Alerts, EventKept(r, a) PROVE EventKept(r, a)'
  <2>1. CASE rule[r] = Gone
    BY <1>1, <2>1 DEF EventKept
  <2>2. CASE rule[r] # Gone
    <3>1. PICK e \in event : e.rule = r /\ e.alert = a
      BY <1>4, <2>2 DEF EventKept
    <3>2. CASE e \in some
      <4> DEFINE d == [e EXCEPT !.acknowledged = TRUE]
      <4>1. d \in event' /\ d.rule = r /\ d.alert = a
        BY <1>1, <1>2, <3>1, <3>2, Zenon
      <4> QED
        BY <4>1, Zenon DEF EventKept
    <3>3. CASE e \notin some
      BY <1>1, <3>1, <3>3 DEF EventKept
    <3> QED
      BY <3>2, <3>3
  <2> QED
    BY <2>1, <2>2
<1> QED
  BY <1>0, <1>1, <1>3, <1>4, RuleStep DEF KeepsEvents

LEMMA AlertStepKeeps ==
  ASSUME AlertInv, NEW a \in Alerts, AlertStep(a)
  PROVE  AlertInv'
<1>0. /\ rule \in [Rules -> RuleRows \cup {NoRule, Gone}]
      /\ event \subseteq [rule : Rules, alert : Alerts, acknowledged : BOOLEAN]
      /\ now \in 1 .. AlertHorizon
      /\ alert \in [Alerts -> CallRows]
      /\ alert[a] \in CallRows /\ CallSound(a, alert[a])
  BY DEF AlertInv
<1>1. /\ alert[a].todo \subseteq Rules /\ alert[a].left \subseteq Channels
      /\ DOMAIN alert[a].of \subseteq Rules
      /\ \A r \in DOMAIN alert[a].of : alert[a].of[r].channels \subseteq Channels
  BY <1>0, CallFields
<1>2. alert[a].todo # {} => Current(a) \in alert[a].todo /\ Current(a) \in Rules
  BY <1>1 DEF Current
\* Of the call itself everything but what it does to rules and events.
<1>3. ASSUME UNCHANGED <<rule, event, now>>, NEW q \in CallRows, CallSound(a, q),
             alert' = [alert EXCEPT ![a] = q]
      PROVE  AlertInv'
  <2>1. KeepsEvents /\ CallSound(a, q)'
    BY <1>3 DEF KeepsEvents, EventKept, CallSound
  <2> QED
    BY <1>0, <1>3, <2>1, CallStep
<1>4. ASSUME NEW s \in AlertStages
      PROVE  [alert EXCEPT ![a].stage = s] = [alert EXCEPT ![a] = [alert[a] EXCEPT !.stage = s]]
  BY <1>0
<1>5. CASE Raise(a)
  <2>1. PICK q : q = [alert[a] EXCEPT !.stage = "match"]
    OBVIOUS
  <2>2. alert' = [alert EXCEPT ![a] = q] /\ UNCHANGED <<rule, event, now>>
    BY <1>4, <1>5, <2>1 DEF Raise, AlertStages
  <2>3. /\ q \in CallRows /\ q.stage = "match" /\ q.of = alert[a].of /\ q.todo = alert[a].todo
        /\ q.quiet = alert[a].quiet /\ q.tried = alert[a].tried
    BY <1>0, <2>1, StageUpdate DEF AlertStages
  <2>4. CallSound(a, q)
    BY <1>0, <1>5, <2>3 DEF Raise, CallSound, TriedBut
  <2> QED
    BY <1>3, <2>2, <2>3, <2>4
<1>6. CASE Match(a)
  <2> DEFINE found == {r \in Rules : Exists(r) /\ rule[r].active}
             of == [r \in found |-> rule[r]]
  <2>1. of \in MatchedRows /\ found \subseteq Rules /\ DOMAIN of = found
    <3>1. of \in [found -> RuleRows] /\ found \in SUBSET Rules
      BY <1>0 DEF Exists
    <3> QED
      BY <3>1 DEF MatchedRows
  <2>2. PICK q : q = [alert[a] EXCEPT !.stage = "next", !.todo = found, !.of = of]
    OBVIOUS
  <2>3. alert' = [alert EXCEPT ![a] = q]
    BY <1>6, <2>2, Zenon DEF Match
  <2>4. UNCHANGED <<rule, event, now>> /\ alert[a].stage = "match"
    BY <1>6 DEF Match
  <2> HIDE DEF found, of
  <2>5. /\ q \in CallRows /\ q.stage = "next" /\ q.of = of /\ q.todo = found
        /\ q.quiet = alert[a].quiet
    <3>1. PICK f, m, c : f = found /\ m = of /\ c = alert[a]
      OBVIOUS
    <3>2. c \in CallRows /\ f \in SUBSET Rules /\ m \in MatchedRows
      BY <1>0, <2>1, <3>1
    <3>3. q = [c EXCEPT !.stage = "next", !.todo = f, !.of = m]
      BY <2>2, <3>1, Zenon
    <3> DEFINE y == [c EXCEPT !.stage = "next"]
               z == [y EXCEPT !.todo = f]
               x == [z EXCEPT !.of = m]
    <3>4. y \in CallRows /\ y.stage = "next" /\ y.quiet = c.quiet
      BY <3>2, StageUpdate DEF AlertStages
    <3> HIDE DEF y
    <3>5. z \in CallRows /\ z.stage = "next" /\ z.quiet = c.quiet /\ z.todo = f
      BY <3>2, <3>4 DEF CallRows
    <3> HIDE DEF z
    <3>6. /\ x \in CallRows /\ x.stage = "next" /\ x.quiet = c.quiet
          /\ x.todo = f /\ x.of = m
      BY <3>2, <3>5 DEF CallRows
    <3>7. q = x
      BY <3>3 DEF y, z
    <3> HIDE DEF x
    <3> QED
      BY <3>1, <3>6, <3>7
  <2>6. CallSound(a, q)
    BY <1>0, <2>1, <2>4, <2>5 DEF CallSound
  <2> QED
    BY <1>3, <2>3, <2>4, <2>5, <2>6
<1>7. CASE NextRule(a)
  <2>1. UNCHANGED <<rule, event, now>> /\ alert[a].stage = "next"
    BY <1>7 DEF NextRule
  <2>2. CASE alert[a].todo = {}
    <3>1. PICK q : q = [alert[a] EXCEPT !.stage = "done"]
      OBVIOUS
    <3>2. alert' = [alert EXCEPT ![a] = q]
      BY <1>7, <2>2, <3>1, Zenon DEF NextRule
    <3>3. /\ q \in CallRows /\ q.stage = "done" /\ q.of = alert[a].of /\ q.todo = {}
          /\ q.quiet = alert[a].quiet /\ q.tried = alert[a].tried
      BY <1>0, <2>2, <3>1, StageUpdate DEF AlertStages
    <3>4. CallSound(a, q)
      BY <1>0, <2>1, <2>2, <3>3 DEF CallSound, TriedBut
    <3> QED
      BY <1>3, <2>1, <3>2, <3>3, <3>4
  <2>3. CASE alert[a].todo # {} /\ InCooldown(alert[a].of[Current(a)])
    <3>1. PICK r : r = Current(a)
      OBVIOUS
    <3>2. PICK q : q = [alert[a] EXCEPT !.todo = alert[a].todo \ {Current(a)},
                                        !.quiet = alert[a].quiet \cup {Current(a)}]
      OBVIOUS
    <3>3. alert' = [alert EXCEPT ![a] = q]
      BY <1>7, <2>3, <3>2, Zenon DEF NextRule
    <3>4. /\ q \in CallRows /\ q.stage = "next" /\ q.of = alert[a].of
          /\ q.tried = alert[a].tried /\ q.todo = alert[a].todo \ {r}
          /\ q.quiet = alert[a].quiet \cup {r}
      <4>1. alert[a] \in CallRows /\ Current(a) \in Rules
        BY <1>0, <1>2, <2>3
      <4>2. /\ q \in CallRows /\ q.stage = alert[a].stage /\ q.of = alert[a].of
            /\ q.tried = alert[a].tried /\ q.todo = alert[a].todo \ {Current(a)}
            /\ q.quiet = alert[a].quiet \cup {Current(a)}
        BY <3>2, <4>1, PassUpdate, Zenon
      <4> QED
        BY <2>1, <3>1, <4>2
    <3>5. CallSound(a, q)
      BY <1>0, <1>2, <2>1, <2>3, <3>1, <3>4 DEF CallSound, TriedBut
    <3> QED
      BY <1>3, <2>1, <3>3, <3>4, <3>5
  <2>4. CASE alert[a].todo # {} /\ ~InCooldown(alert[a].of[Current(a)])
    <3>1. PICK q : q = [alert[a] EXCEPT !.stage = "create"]
      OBVIOUS
    <3>2. alert' = [alert EXCEPT ![a] = q]
      BY <1>7, <2>4, <3>1, Zenon DEF NextRule
    <3>3. /\ q \in CallRows /\ q.stage = "create" /\ q.of = alert[a].of
          /\ q.todo = alert[a].todo /\ q.quiet = alert[a].quiet /\ q.tried = alert[a].tried
      BY <1>0, <3>1, StageUpdate DEF AlertStages
    <3>4. CallSound(a, q)
      BY <1>0, <2>1, <2>4, <3>3 DEF CallSound, TriedBut
    <3> QED
      BY <1>3, <2>1, <3>2, <3>3, <3>4
  <2> QED
    BY <2>2, <2>3, <2>4
\* A rule was deleted since Match: the call ends here.
<1>8. ASSUME alert' = [alert EXCEPT ![a].stage = "failed"], UNCHANGED <<rule, event, now>>
      PROVE  AlertInv'
  <2>1. PICK q : q = [alert[a] EXCEPT !.stage = "failed"]
    OBVIOUS
  <2>2. alert' = [alert EXCEPT ![a] = q]
    BY <1>4, <1>8, <2>1 DEF AlertStages
  <2>3. /\ q \in CallRows /\ q.stage = "failed" /\ q.of = alert[a].of /\ q.todo = alert[a].todo
        /\ q.quiet = alert[a].quiet /\ q.tried = alert[a].tried
    BY <1>0, <2>1, StageUpdate DEF AlertStages
  <2>4. CallSound(a, q)
    BY <1>0, <2>3 DEF CallSound, TriedBut
  <2> QED
    BY <1>3, <1>8, <2>2, <2>3, <2>4
<1>9. CASE CreateEvent(a)
  <2>1. alert[a].stage = "create" /\ UNCHANGED <<rule, now>>
    BY <1>9 DEF CreateEvent
  <2>2. alert[a].todo # {} /\ Current(a) \in Rules /\ Current(a) = CHOOSE x \in alert[a].todo : TRUE
    BY <1>0, <1>2, <2>1 DEF CallSound, Current
  <2>3. CASE Exists(Current(a))
    <3>1. PICK r : r = Current(a)
      OBVIOUS
    <3>2. PICK q : q = [alert[a] EXCEPT !.stage = "stamp"]
      OBVIOUS
    <3>3. /\ event' = event \cup {[rule |-> r, alert |-> a, acknowledged |-> FALSE]}
          /\ alert' = [alert EXCEPT ![a].stage = "stamp"]
      BY <1>9, <2>3, <3>1, Zenon DEF CreateEvent
    <3>4. alert' = [alert EXCEPT ![a] = q]
      BY <1>4, <3>2, <3>3 DEF AlertStages
    <3>5. /\ q \in CallRows /\ q.stage = "stamp" /\ q.of = alert[a].of
          /\ q.todo = alert[a].todo /\ q.quiet = alert[a].quiet /\ q.tried = alert[a].tried
      BY <1>0, <3>2, StageUpdate DEF AlertStages
    <3>6. [rule |-> r, alert |-> a, acknowledged |-> FALSE]
            \in [rule : Rules, alert : Alerts, acknowledged : BOOLEAN]
      BY <2>2, <3>1
    <3>7. EventKept(r, a)'
      <4>1. ASSUME NEW no PROVE LET e == [rule |-> r, alert |-> a, acknowledged |-> no]
                                IN  e.rule = r /\ e.alert = a
        OBVIOUS
      <4>2. [rule |-> r, alert |-> a, acknowledged |-> FALSE] \in event'
        BY <3>3, Zenon
      <4> QED
        BY <4>1, <4>2, Zenon DEF EventKept
    <3>8. KeepsEvents
      <4>1. event \subseteq event'
        BY <3>3, Zenon
      <4> QED
        BY <2>1, <4>1 DEF KeepsEvents, EventKept
    <3>9. CallSound(a, q)'
      <4>1. \A x \in Rules : EventKept(x, a) => EventKept(x, a)'
        BY <3>8 DEF KeepsEvents
      <4>2. DOMAIN q.of \subseteq Rules
        BY <1>1, <3>5
      <4> QED
        BY <1>0, <2>1, <2>2, <3>1, <3>5, <3>7, <4>1, <4>2 DEF CallSound, TriedBut
    <3>10. event' \subseteq [rule : Rules, alert : Alerts, acknowledged : BOOLEAN]
      BY <1>0, <3>3, <3>6, Zenon
    <3> QED
      BY <1>0, <2>1, <3>4, <3>5, <3>8, <3>9, <3>10, CallStep
  <2>4. CASE ~Exists(Current(a))
    BY <1>8, <1>9, <2>4 DEF CreateEvent
  <2> QED
    BY <2>3, <2>4
<1>10. CASE Stamp(a)
  <2>1. alert[a].stage = "stamp" /\ UNCHANGED <<event, now>>
    BY <1>10 DEF Stamp
  <2>2. /\ alert[a].todo # {} /\ Current(a) \in Rules
        /\ Current(a) = CHOOSE x \in alert[a].todo : TRUE
        /\ Current(a) \in DOMAIN alert[a].of
    BY <1>0, <1>2, <2>1 DEF CallSound, Current
  <2>3. CASE Exists(Current(a))
    <3>1. PICK r : r = Current(a)
      OBVIOUS
    <3>2. PICK q : q = [alert[a] EXCEPT !.stage = "send", !.left = alert[a].of[r].channels]
      OBVIOUS
    <3>3. rule' = [rule EXCEPT ![r].last = now] /\ alert' = [alert EXCEPT ![a] = q]
      BY <1>10, <2>3, <3>1, <3>2, Zenon DEF Stamp
    <3>4. alert[a].of[r].channels \subseteq Channels
      BY <1>1, <2>2, <3>1
    <3>5. /\ q \in CallRows /\ q.stage = "send" /\ q.of = alert[a].of
          /\ q.tried = alert[a].tried
          /\ q.todo = alert[a].todo /\ q.quiet = alert[a].quiet
          /\ q.left = alert[a].of[r].channels
      BY <1>0, <3>2, <3>4, SendUpdate
    <3>6. rule[r] \in RuleRows /\ r \in Rules /\ rule[r] # Gone
      BY <1>0, <2>2, <2>3, <3>1 DEF Exists
    <3>7. rule' \in [Rules -> RuleRows \cup {NoRule, Gone}]
          /\ \A x \in Rules : rule[x] = Gone => rule'[x] = Gone
      <4> DEFINE s == [rule[r] EXCEPT !.last = now]
      <4>1. s \in RuleRows
        BY <1>0, <3>6, AlertAssumption DEF RuleRows
      <4>2. [rule EXCEPT ![r].last = now] = [rule EXCEPT ![r] = s]
        BY <1>0
      <4> HIDE DEF s
      <4> QED
        BY <1>0, <3>3, <3>6, <4>1, <4>2
    <3>8. KeepsEvents
      BY <2>1, <3>7 DEF KeepsEvents, EventKept
    <3>9. CallSound(a, q)'
      <4>1. \A x \in Rules : EventKept(x, a) => EventKept(x, a)'
        BY <3>8 DEF KeepsEvents
      <4>2. DOMAIN q.of \subseteq Rules
        BY <1>1, <3>5
      <4>3. TriedBut(q, r, q.left)
        BY <3>5 DEF TriedBut
      <4> QED
        BY <1>0, <2>1, <2>2, <3>1, <3>5, <4>1, <4>2, <4>3 DEF CallSound, TriedBut
    <3> QED
      BY <1>0, <2>1, <3>3, <3>5, <3>7, <3>8, <3>9, CallStep
  <2>4. CASE ~Exists(Current(a))
    BY <1>8, <1>10, <2>4 DEF Stamp
  <2> QED
    BY <2>3, <2>4
<1>11. CASE Send(a)
  <2>1. alert[a].stage = "send" /\ UNCHANGED <<rule, event, now>>
    BY <1>11 DEF Send
  <2>2. /\ alert[a].todo # {} /\ Current(a) \in Rules
        /\ Current(a) = CHOOSE x \in alert[a].todo : TRUE
        /\ EventKept(Current(a), a) /\ TriedBut(alert[a], Current(a), alert[a].left)
    BY <1>0, <1>2, <2>1 DEF CallSound, Current
  <2>3. PICK r : r = Current(a)
    OBVIOUS
  <2>4. CASE alert[a].left = {}
    <3>1. PICK q : q = [alert[a] EXCEPT !.stage = "next", !.todo = alert[a].todo \ {Current(a)}]
      OBVIOUS
    <3>2. alert' = [alert EXCEPT ![a] = q]
      BY <1>11, <2>4, <3>1, Zenon DEF Send
    <3>3. /\ q \in CallRows /\ q.stage = "next" /\ q.of = alert[a].of
          /\ q.tried = alert[a].tried /\ q.todo = alert[a].todo \ {r}
          /\ q.quiet = alert[a].quiet
      <4>1. alert[a] \in CallRows /\ Current(a) \in Rules
        BY <1>0, <2>2
      <4>2. /\ q \in CallRows /\ q.stage = "next" /\ q.of = alert[a].of
            /\ q.tried = alert[a].tried /\ q.todo = alert[a].todo \ {Current(a)}
            /\ q.quiet = alert[a].quiet
        BY <3>1, <4>1, SentUpdate, Zenon
      <4> QED
        BY <2>3, <4>2
    <3>4. TriedBut(q, r, {}) /\ EventKept(r, a)
      BY <2>2, <2>3, <2>4, <3>3 DEF TriedBut
    <3>5. CallSound(a, q)
      BY <1>0, <2>2, <2>3, <3>3, <3>4 DEF CallSound, TriedBut
    <3> QED
      BY <1>3, <2>1, <3>2, <3>3, <3>5
  <2>5. CASE alert[a].left # {}
    <3>1. PICK c : c = CHOOSE d \in alert[a].left : TRUE
      OBVIOUS
    <3>2. c \in alert[a].left /\ c \in Channels
      BY <1>1, <2>5, <3>1
    <3>3. PICK q : LET d == CHOOSE d \in alert[a].left : TRUE IN
                   q = [alert[a] EXCEPT !.left = alert[a].left \ {d},
                                        !.tried = alert[a].tried \cup {<<Current(a), d>>}]
      OBVIOUS
    <3>4. alert' = [alert EXCEPT ![a] = q]
      BY <1>11, <2>5, <3>3, Zenon DEF Send
    <3>5. /\ q \in CallRows /\ q.stage = "send" /\ q.of = alert[a].of
          /\ q.todo = alert[a].todo /\ q.quiet = alert[a].quiet
          /\ q.left = alert[a].left \ {c} /\ q.tried = alert[a].tried \cup {<<r, c>>}
      <4>1. PICK l, t, m : /\ m = alert[a] /\ l = alert[a].left \ {c}
                           /\ t = alert[a].tried \cup {<<r, c>>}
        OBVIOUS
      <4>2. m \in CallRows /\ l \in SUBSET Channels /\ t \in SUBSET (Rules \X Channels)
        BY <1>0, <2>2, <2>3, <3>2, <4>1, CallFields
      <4>3. q = [m EXCEPT !.left = l, !.tried = t]
        BY <2>3, <3>1, <3>3, <4>1, Zenon
      <4> DEFINE y == [m EXCEPT !.left = l]
                 x == [y EXCEPT !.tried = t]
      <4>4. /\ y \in CallRows /\ y.stage = m.stage /\ y.of = m.of /\ y.todo = m.todo
            /\ y.quiet = m.quiet /\ y.left = l
        BY <4>2 DEF CallRows
      <4> HIDE DEF y
      <4>5. /\ x \in CallRows /\ x.stage = m.stage /\ x.of = m.of /\ x.todo = m.todo
            /\ x.quiet = m.quiet /\ x.left = l /\ x.tried = t
        BY <4>2, <4>4 DEF CallRows
      <4>6. q = x
        BY <4>3 DEF y
      <4> HIDE DEF x
      <4> QED
        BY <2>1, <4>1, <4>5, <4>6
    <3>6. \A x, but : TriedBut(alert[a], x, but) => TriedBut(q, x, but)
      BY <3>5 DEF TriedBut
    <3>7. TriedBut(q, r, q.left)
      BY <2>2, <2>3, <3>5 DEF TriedBut
    <3>8. CallSound(a, q)
      BY <1>0, <2>1, <2>2, <2>3, <3>5, <3>6, <3>7 DEF CallSound
    <3> QED
      BY <1>3, <2>1, <3>4, <3>5, <3>8
  <2> QED
    BY <2>4, <2>5
<1> QED
  BY <1>5, <1>6, <1>7, <1>9, <1>10, <1>11 DEF AlertStep

\* What a call has matched keeps its rule or its event, whoever edits the rules,
\* acknowledges events or calls at the same time.
THEOREM AlertInvariance == AlertInv /\ [AlertNext]_alertVars => AlertInv'
<1> SUFFICES ASSUME AlertInv, [AlertNext]_alertVars PROVE AlertInv'
  OBVIOUS
<1>1. CASE AlertTick
  <2>1. KeepsEvents
    BY <1>1 DEF AlertTick, KeepsEvents, EventKept
  <2> QED
    BY <1>1, <2>1, AlertAssumption, RuleStep DEF AlertTick, AlertInv
<1>2. CASE AcknowledgeOne
  <2>1. PICK e \in event : Acknowledge({e})
    BY <1>2 DEF AcknowledgeOne
  <2> QED
    BY <2>1, EventsAcknowledged
<1>3. CASE AcknowledgeAll
  BY <1>3, EventsAcknowledged DEF AcknowledgeAll
<1>4. CASE UNCHANGED alertVars
  BY <1>4 DEF alertVars, AlertInv, CallSound, EventKept
<1> QED
  BY <1>1, <1>2, <1>3, <1>4, RulesEdited, AlertStepKeeps DEF AlertNext

\* Whatever an evaluation that returned had matched and was not in cooldown has
\* its event, and every channel of the rule was tried.
THEOREM AlertsReach == AlertSpec => []ReturnedAlertReached
<1>1. AlertInv => ReturnedAlertReached
  <2> SUFFICES ASSUME AlertInv, NEW a \in Alerts, alert[a].stage = "done",
                      NEW r \in DOMAIN alert[a].of \ alert[a].quiet
               PROVE  \/ rule[r] = Gone
                      \/ /\ \E e \in event : e.rule = r /\ e.alert = a
                         /\ {r} \X alert[a].of[r].channels \subseteq alert[a].tried
    BY DEF ReturnedAlertReached
  <2>1. EventKept(r, a) /\ TriedBut(alert[a], r, {})
    BY DEF AlertInv, CallSound
  <2> QED
    BY <2>1 DEF EventKept, TriedBut
<1> QED
  BY <1>1, AlertInitially, AlertInvariance, PTL DEF AlertSpec

----------------------------------------------------------------------------
(* The analysis of a log *)

\* The search from the end of the lines finds a mark that is there.
LEMMA LastMarkIsLast ==
  ASSUME look.lines \in Seq(Lines), NEW mark,
         NEW n \in DOMAIN look.lines, mark \in look.lines[n]
  PROVE  /\ LastMark(mark) \in DOMAIN look.lines
         /\ mark \in look.lines[LastMark(mark)]
         /\ \A k \in DOMAIN look.lines : mark \in look.lines[k] => k <= LastMark(mark)
<1> DEFINE S == {i \in DOMAIN look.lines : mark \in look.lines[i]}
<1>1. Len(look.lines) \in Nat /\ S \subseteq 1 .. Len(look.lines)
  OBVIOUS
<1>2. S # {}
  OBVIOUS
<1>3. PICK m \in S : \A k \in S : k <= m
  <2> HIDE DEF S
  <2>1. QED
    BY <1>1, <1>2, GreatestNumber
<1>4. QED
  BY <1>3 DEF LastMark

\* Lines whose newest marker is one of failure are never taken for a success.
LEMMA FailureDecides ==
  ASSUME look.lines \in Seq(Lines), FailsLast(look.lines)
  PROVE  FromLines = "FAILED"
<1>1. PICK i \in DOMAIN look.lines :
        /\ "fail" \in look.lines[i]
        /\ \A k \in DOMAIN look.lines : "ok" \in look.lines[k] => k <= i
  BY DEF FailsLast
<1>2. Has("fail")
  BY <1>1 DEF Has
<1>3. LastMark("fail") \in DOMAIN look.lines /\ i <= LastMark("fail")
  BY <1>1, LastMarkIsLast
<1>4. ASSUME Has("ok") PROVE ~ (LastMark("ok") > LastMark("fail"))
  <2>1. PICK n \in DOMAIN look.lines : "ok" \in look.lines[n]
    BY <1>4 DEF Has
  <2>2. LastMark("ok") \in DOMAIN look.lines /\ LastMark("ok") <= i
    BY <1>1, <2>1, LastMarkIsLast
  <2>3. DOMAIN look.lines \subseteq Int
    OBVIOUS
  <2>4. QED
    BY <1>3, <2>2, <2>3
<1>5. QED
  BY <1>2, <1>4 DEF FromLines

----------------------------------------------------------------------------
(* The server and the check *)

Stages == {"idle", "stat", "tail", "exit", "write"}

LookOf(stage, expected, found, fresh, lines, code, told) ==
  [stage |-> stage, expected |-> expected, found |-> found, fresh |-> fresh,
   lines |-> lines, code |-> code, told |-> told]

Looks == [stage: Stages, expected: Int, found: BOOLEAN, fresh: BOOLEAN,
          lines: Seq(Lines), code: Int, told: BOOLEAN]

LogTypes ==
  /\ day \in Int /\ lastRun \in Results \cup {"none"}
  /\ log \in [date: Int, lines: Seq(Lines)]
  /\ look \in Looks

\* A failure that was there whenever the check read is in what it has read, and
\* still there if it has not.
LookSound ==
  look.told =>
    /\ look.stage \in {"stat", "tail"} => Failed
    /\ look.stage = "exit" => lastRun = "fail" /\ FailsLast(look.lines)
    /\ look.stage = "write" /\ look.found => look.code # 0 /\ FailsLast(look.lines)

LogInv == LogTypes /\ LookSound

LEMMA LogInitially == LogInit => LogInv
  BY DEF LogInit, LogInv, LogTypes, LookSound, Looks, Stages, NoLook, NoLog, Results

\* The locals of a check after an update, field by field.
LEMMA LookEdits ==
  ASSUME NEW l \in Looks, NEW x
  PROVE  /\ [l EXCEPT !.told = x] =
              LookOf(l.stage, l.expected, l.found, l.fresh, l.lines, l.code, x)
         /\ [l EXCEPT !.stage = "write"] =
              LookOf("write", l.expected, l.found, l.fresh, l.lines, l.code, l.told)
         /\ [l EXCEPT !.stage = "exit", !.lines = x] =
              LookOf("exit", l.expected, l.found, l.fresh, x, l.code, l.told)
         /\ [l EXCEPT !.stage = "write", !.code = x] =
              LookOf("write", l.expected, l.found, l.fresh, l.lines, x, l.told)
<1>1. l = LookOf(l.stage, l.expected, l.found, l.fresh, l.lines, l.code, l.told)
  BY DEF Looks, LookOf
<1>2. /\ [l EXCEPT !.told = x] =
           LookOf(l.stage, l.expected, l.found, l.fresh, l.lines, l.code, x)
      /\ [l EXCEPT !.stage = "write"] =
           LookOf("write", l.expected, l.found, l.fresh, l.lines, l.code, l.told)
  BY <1>1 DEF LookOf
<1>3. [l EXCEPT !.stage = "exit", !.lines = x] =
        LookOf("exit", l.expected, l.found, l.fresh, x, l.code, l.told)
  <2> DEFINE s == [l EXCEPT !.stage = "exit"]
  <2>1. s = LookOf("exit", l.expected, l.found, l.fresh, l.lines, l.code, l.told)
    BY <1>1 DEF LookOf
  <2>2. [l EXCEPT !.stage = "exit", !.lines = x] = [s EXCEPT !.lines = x]
    OBVIOUS
  <2> HIDE DEF s
  <2>3. QED
    BY <2>1, <2>2 DEF LookOf
<1>4. [l EXCEPT !.stage = "write", !.code = x] =
        LookOf("write", l.expected, l.found, l.fresh, l.lines, x, l.told)
  <2> DEFINE s == [l EXCEPT !.stage = "write"]
  <2>1. [l EXCEPT !.stage = "write", !.code = x] = [s EXCEPT !.code = x]
    OBVIOUS
  <2> HIDE DEF s
  <2>2. s = LookOf("write", l.expected, l.found, l.fresh, l.lines, l.code, l.told)
    BY <1>2 DEF s
  <2>3. QED
    BY <2>1, <2>2 DEF LookOf
<1>5. QED
  BY <1>2, <1>3, <1>4

LEMMA StatEdit ==
  ASSUME NEW l \in Looks, NEW x, NEW y
  PROVE  [l EXCEPT !.stage = "stat", !.expected = x, !.told = y] =
           LookOf("stat", x, l.found, l.fresh, l.lines, l.code, y)
<1>1. l = LookOf(l.stage, l.expected, l.found, l.fresh, l.lines, l.code, l.told)
  BY DEF Looks, LookOf
<1> DEFINE s == [l EXCEPT !.stage = "stat"]
           e == [s EXCEPT !.expected = x]
<1>2. [l EXCEPT !.stage = "stat", !.expected = x, !.told = y] = [e EXCEPT !.told = y]
  OBVIOUS
<1>3. s = LookOf("stat", l.expected, l.found, l.fresh, l.lines, l.code, l.told)
  BY <1>1 DEF LookOf
<1> HIDE DEF s
<1>4. e = LookOf("stat", x, l.found, l.fresh, l.lines, l.code, l.told)
  BY <1>3 DEF LookOf
<1> HIDE DEF e
<1>5. QED
  BY <1>2, <1>4 DEF LookOf

LEMMA TailEdit ==
  ASSUME NEW l \in Looks, NEW x, NEW y, NEW z
  PROVE  [l EXCEPT !.stage = "tail", !.found = x, !.fresh = y, !.expected = z] =
           LookOf("tail", z, x, y, l.lines, l.code, l.told)
<1>1. l = LookOf(l.stage, l.expected, l.found, l.fresh, l.lines, l.code, l.told)
  BY DEF Looks, LookOf
<1> DEFINE s == [l EXCEPT !.stage = "tail"]
           f == [s EXCEPT !.found = x]
           g == [f EXCEPT !.fresh = y]
<1>2. [l EXCEPT !.stage = "tail", !.found = x, !.fresh = y, !.expected = z] =
        [g EXCEPT !.expected = z]
  OBVIOUS
<1>3. s = LookOf("tail", l.expected, l.found, l.fresh, l.lines, l.code, l.told)
  BY <1>1 DEF LookOf
<1> HIDE DEF s
<1>4. f = LookOf("tail", l.expected, x, l.fresh, l.lines, l.code, l.told)
  BY <1>3 DEF LookOf
<1> HIDE DEF f
<1>5. g = LookOf("tail", l.expected, x, y, l.lines, l.code, l.told)
  BY <1>4 DEF LookOf
<1> HIDE DEF g
<1>6. QED
  BY <1>2, <1>5 DEF LookOf

LEMMA Appended ==
  ASSUME LogTypes, NEW m \in Lines, AppendLine(m)
  PROVE  log' \in [date: Int, lines: Seq(Lines)]
<1>1. log.lines \in Seq(Lines) /\ Len(log.lines) \in Nat
  BY DEF LogTypes
<1>2. CASE Len(log.lines) < LogLines
  <2>1. Append(log.lines, m) \in Seq(Lines)
    BY <1>1
  <2>2. log' = [date |-> day, lines |-> Append(log.lines, m)]
    BY <1>2 DEF AppendLine
  <2>3. QED
    BY <2>1, <2>2 DEF LogTypes
<1>3. CASE ~ (Len(log.lines) < LogLines)
  <2>1. log.lines # << >>
    BY <1>1, <1>3, LogAssumption
  <2>2. Tail(log.lines) \in Seq(Lines)
    BY <1>1, <2>1
  <2>3. Append(Tail(log.lines), m) \in Seq(Lines)
    BY <2>2
  <2>4. log' = [date |-> day, lines |-> Append(Tail(log.lines), m)]
    BY <1>3 DEF AppendLine
  <2>5. QED
    BY <2>3, <2>4 DEF LogTypes
<1>4. QED
  BY <1>2, <1>3

\* What the history of a check says stays true of whatever the server does.
LEMMA ToldStill ==
  ASSUME LogInv, StillTold
  PROVE  look' \in Looks /\ LookSound'
<1> DEFINE t == /\ look.told
                /\ look.stage \in {"stat", "tail"} => Failed'
                /\ look.stage = "exit" => lastRun' = "fail"
<1>1. look \in Looks /\ t \in BOOLEAN
  BY DEF LogInv, LogTypes, Looks
<1>2. look' = [look EXCEPT !.told = t]
  BY DEF StillTold
<1>3. t => /\ look.told
           /\ look.stage \in {"stat", "tail"} => Failed'
           /\ look.stage = "exit" => lastRun' = "fail"
  OBVIOUS
<1> HIDE DEF t
<1>4. look' = LookOf(look.stage, look.expected, look.found, look.fresh, look.lines,
                     look.code, t)
  BY <1>1, <1>2, LookEdits
<1>5. /\ look'.told = t /\ look'.stage = look.stage /\ look'.found = look.found
      /\ look'.code = look.code /\ look'.lines = look.lines /\ look' \in Looks
  BY <1>1, <1>4 DEF LookOf, Looks
<1>6. QED
  BY <1>3, <1>5 DEF LogInv, LookSound

LEMMA ServerStep ==
  ASSUME LogInv, LogTick \/ RunStarts \/ RunWrites \/ RunEnds \/ Rotate
  PROVE  LogInv'
<1>1. CASE LogTick \/ RunStarts
  BY <1>1 DEF LogTick, RunStarts, LogInv, LogTypes, LookSound, Failed
<1>2. CASE RunWrites
  <2>1. PICK m \in Lines : AppendLine(m)
    BY <1>2 DEF RunWrites
  <2>2. log' \in [date: Int, lines: Seq(Lines)]
    BY <2>1, Appended DEF LogInv
  <2>3. QED
    BY <1>2, <2>2, ToldStill DEF RunWrites, LogInv, LogTypes
<1>3. CASE RunEnds
  BY <1>3, ToldStill DEF RunEnds, LogInv, LogTypes
<1>4. CASE Rotate
  <2>1. \A d \in Int : [date |-> d, lines |-> << >>] \in [date: Int, lines: Seq(Lines)]
    OBVIOUS
  <2>2. log' \in [date: Int, lines: Seq(Lines)]
    <3>1. log' = [date |-> -1, lines |-> << >>] \/ log' = [date |-> day, lines |-> << >>]
      BY <1>4 DEF Rotate, NoLog
    <3>2. day \in Int /\ -1 \in Int
      BY DEF LogInv, LogTypes
    <3>3. QED
      BY <2>1, <3>1, <3>2
  <2>3. QED
    BY <1>4, <2>2, ToldStill DEF Rotate, LogInv, LogTypes
<1>5. QED
  BY <1>1, <1>2, <1>3, <1>4

LEMMA CheckStep ==
  ASSUME LogInv,
         \/ LookBegins \/ PathRejected
         \/ Stat \/ TailLog \/ CronExitCode \/ WriteStatus \/ LookFails
  PROVE  LogInv'
<1>t. look \in Looks /\ log.lines \in Seq(Lines)
  BY DEF LogInv, LogTypes
<1>0. NoLook \in Looks /\ NoLook.stage = "idle" /\ NoLook.told = FALSE
  BY DEF NoLook, Looks, Stages
\* a step of the check that leaves the server as it is
<1>s. ASSUME UNCHANGED <<day, lastRun, log>>, look' \in Looks, LookSound' PROVE LogInv'
  BY <1>s DEF LogInv, LogTypes
<1>1. CASE LookBegins
  <2> DEFINE f == Failed
  <2>1. PICK e \in {LastExpected, -1} :
          look' = [NoLook EXCEPT !.stage = "stat", !.expected = e, !.told = f]
    BY <1>1 DEF LookBegins
  <2>f. f \in BOOLEAN /\ (f => Failed)
    BY DEF Failed
  <2> HIDE DEF f
  <2>2. e \in Int
    BY <2>1, LogAssumption DEF LastExpected, LogInv, LogTypes, LogAssumption
  <2>3. look' = LookOf("stat", e, NoLook.found, NoLook.fresh, NoLook.lines,
                       NoLook.code, f)
    BY <1>0, <2>1, StatEdit
  <2>4. look' \in Looks /\ look'.stage = "stat" /\ look'.told = f
    BY <1>0, <2>f, <2>2, <2>3 DEF LookOf, Looks, Stages
  <2>5. LookSound'
    BY <1>1, <2>f, <2>4 DEF LookBegins, LookSound, Failed
  <2>6. QED
    BY <1>1, <1>s, <2>4, <2>5 DEF LookBegins
<1>2. CASE PathRejected
  BY <1>2 DEF PathRejected, LogInv, LogTypes, LookSound, Failed
<1>3. CASE Stat /\ log = NoLog
  <2>1. look' = [look EXCEPT !.stage = "write"]
    BY <1>3 DEF Stat
  <2>2. look' = LookOf("write", look.expected, look.found, look.fresh, look.lines,
                       look.code, look.told)
    BY <1>t, <2>1, LookEdits
  <2>3. /\ look' \in Looks /\ look'.stage = "write" /\ look'.told = look.told
    BY <1>t, <2>2 DEF LookOf, Looks, Stages
  \* a log that is not there says nothing of a failure
  <2>4. ~ look.told
    BY <1>3 DEF Stat, LogInv, LookSound, Failed, FailsLast, NoLog
  <2>5. LookSound'
    BY <2>3, <2>4 DEF LookSound
  <2>6. QED
    BY <1>3, <1>s, <2>3, <2>5 DEF Stat
<1>4. CASE Stat /\ log # NoLog
  <2> DEFINE f == LogFresh
             b == TRUE
  <2>1. look' = [look EXCEPT !.stage = "tail", !.found = b, !.fresh = f,
                             !.expected = -1]
    BY <1>4 DEF Stat
  <2>f. f \in BOOLEAN
    <3>1. CASE look.expected # -1
      BY <3>1, Zenon DEF LogFresh
    <3>2. CASE look.expected = -1
      BY <3>2, LogAssumption DEF LogFresh
    <3>3. QED
      BY <3>1, <3>2
  <2>b. b \in BOOLEAN
    OBVIOUS
  <2> HIDE DEF f, b
  <2>2. look' = LookOf("tail", -1, b, f, look.lines, look.code, look.told)
    BY <1>t, <2>1, TailEdit
  <2>4. look' \in Looks /\ look'.stage = "tail" /\ look'.told = look.told
    BY <1>t, <2>f, <2>b, <2>2 DEF LookOf, Looks, Stages
  <2>5. LookSound'
    BY <1>4, <2>4 DEF Stat, LogInv, LookSound, Failed
  <2>6. QED
    BY <1>4, <1>s, <2>4, <2>5 DEF Stat
<1>5. CASE TailLog
  <2>1. look' = LookOf("exit", look.expected, look.found, look.fresh, log.lines,
                       look.code, look.told)
    BY <1>5, <1>t, LookEdits DEF TailLog
  <2>2. /\ look' \in Looks /\ look'.stage = "exit" /\ look'.told = look.told
        /\ look'.lines = log.lines
    BY <1>t, <2>1 DEF LookOf, Looks, Stages
  <2>3. LookSound'
    BY <1>5, <2>2 DEF TailLog, LogInv, LookSound, Failed
  <2>4. QED
    BY <1>5, <1>s, <2>2, <2>3 DEF TailLog
<1>6. CASE CronExitCode
  <2>1. PICK c \in {ExitCode, -1} : look' = [look EXCEPT !.stage = "write", !.code = c]
    BY <1>6 DEF CronExitCode
  <2>2. look' = LookOf("write", look.expected, look.found, look.fresh, look.lines, c,
                       look.told)
    BY <1>t, <2>1, LookEdits
  <2>3. c \in Int /\ (lastRun = "fail" => c # 0)
    BY <2>1 DEF ExitCode, LogInv, LogTypes, Results
  <2>4. /\ look' \in Looks /\ look'.stage = "write" /\ look'.told = look.told
        /\ look'.lines = look.lines /\ look'.code = c
    BY <1>t, <2>2, <2>3 DEF LookOf, Looks, Stages
  <2>5. LookSound'
    BY <1>6, <2>3, <2>4 DEF CronExitCode, LogInv, LookSound
  <2>6. QED
    BY <1>6, <1>s, <2>4, <2>5 DEF CronExitCode
<1>7. CASE WriteStatus \/ LookFails
  <2>1. look' \in Looks /\ LookSound'
    BY <1>0, <1>7 DEF WriteStatus, LookFails, LookSound
  <2>2. QED
    BY <1>7, <1>s, <2>1 DEF WriteStatus, LookFails
<1>8. QED
  BY <1>1, <1>2, <1>3, <1>4, <1>5, <1>6, <1>7

\* What a check has read, and what it has yet to read, agree with its history at
\* every step of the server and of the check.
THEOREM LogInvariance == LogInv /\ [LogNext]_logVars => LogInv'
<1> SUFFICES ASSUME LogInv, [LogNext]_logVars PROVE LogInv'
  OBVIOUS
<1>1. CASE UNCHANGED logVars
  BY <1>1 DEF logVars, LogInv, LogTypes, LookSound, Failed
<1>2. CASE LogNext
  BY <1>2, ServerStep, CheckStep DEF LogNext
<1>3. QED
  BY <1>1, <1>2

\* A check that read the failure does not conclude SUCCESS.
LEMMA VerdictSound ==
  ASSUME LogInv, look.stage = "write", look.told
  PROVE  Verdict # "SUCCESS"
<1>1. look.lines \in Seq(Lines) /\ look.code \in Int
  BY DEF LogInv, LogTypes, Looks
<1>2. look.found => look.code # 0 /\ FromLines = "FAILED"
  BY <1>1, FailureDecides DEF LogInv, LookSound
<1>3. QED
  BY <1>1, <1>2 DEF Verdict

\* A failure the log tells of is not reported as a success, whatever else the log
\* holds, whatever runs and rotations come in between, and whether or not cron's logs
\* still have the exit code.  Runs may fail without a word; this is not about them.
THEOREM FailuresStand == LogSpec => FailureIsNotSuccess
<1>1. LogInv /\ [LogNext]_logVars =>
        [look.stage = "write" /\ look.told /\ WriteStatus
           => jobStatus' # "SUCCESS"]_logVars
  BY VerdictSound DEF WriteStatus
<1>2. QED
  BY <1>1, LogInitially, LogInvariance, PTL DEF LogSpec, FailureIsNotSuccess
=============================================================================
