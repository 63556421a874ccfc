---------------------------- MODULE JobLifecycle ----------------------------
(***************************************************************************)
(* What an execution row promises to its readers (dashboard, alerts,       *)
(* metrics): the order of the statuses of a JobExecution when nobody       *)
(* cancels it.  Abstract specification; JobExecution implements it.        *)
(***************************************************************************)
EXTENDS Naturals

CONSTANTS Execs, MaxAttempts

VARIABLES status, tries

lifeVars == <<status, tries>>

LifeInit ==
  /\ status = [e \in Execs |-> "NONE"]
  /\ tries = [e \in Execs |-> 1]

Become(e, from, to) ==
  status[e] = from /\ status' = [status EXCEPT ![e] = to]

\* A trigger admits an execution, or parks it at the concurrency limit for good.
Admit(e) ==
  /\ Become(e, "NONE", "PENDING") \/ Become(e, "NONE", "QUEUED")
  /\ UNCHANGED tries

\* An attempt runs to its result; an attempt that cannot start fails.
Attempt(e) ==
  /\ \/ Become(e, "PENDING", "RUNNING") \/ Become(e, "PENDING", "FAILED")
     \/ Become(e, "RUNNING", "SUCCESS") \/ Become(e, "RUNNING", "FAILED")
  /\ UNCHANGED tries

\* Only a failure is tried again, and only while attempts are left.
RetryLater(e) ==
  /\ tries[e] < MaxAttempts
  /\ Become(e, "FAILED", "RETRY_PENDING")
  /\ UNCHANGED tries

RetryNow(e) ==
  /\ Become(e, "RETRY_PENDING", "PENDING")
  /\ tries' = [tries EXCEPT ![e] = @ + 1]

LifeNext == \E e \in Execs : Admit(e) \/ Attempt(e) \/ RetryLater(e) \/ RetryNow(e)

LifeSpec == LifeInit /\ [][LifeNext]_lifeVars
=============================================================================
