------------------------------ MODULE CronSync ------------------------------
(***************************************************************************)
(* Discovery of one client's cron jobs: SyncService.syncClientCrons, run   *)
(* for this client alone (POST /clients/:id/sync) or for every client by   *)
(* a batch (syncAllCrons, syncAllClients) that takes the isSyncing flag    *)
(* (services/sync-service.ts, routes/clients.ts, index.ts).                *)
(*                                                                         *)
(* One action is one awaited query or SSH command with the synchronous     *)
(* code that follows it.  A crontab line is its command and its schedule;  *)
(* a job name is the name extracted from the command, the schedule or 0    *)
(* when it is not part of the name, and the number of the copy.            *)
(***************************************************************************)
EXTENDS Integers, Sequences, FiniteSets, Functions

CONSTANTS
  Commands,     \* commands of WFM jobs
  Schedules,    \* cron expressions, positive numbers
  BaseName,     \* command -> name extracted from it (with its parameters)
  Crontabs,     \* contents the crontab of the server takes
  Jobs,         \* pool of job ids (bounds the table)
  Rows,         \* pool of SyncHistory ids (bounds the table)
  Syncs,        \* calls that can be in flight at a time
  Users,        \* TRUE: users delete jobs
  Faults,       \* TRUE: queries, SSH and single entries may fail
  Crashes       \* TRUE: the backend process may die and restart

Lines == [cmd : Commands, sched : Schedules]

ASSUME CronAssumption ==
  /\ Schedules \subseteq Nat \ {0} /\ DOMAIN BaseName = Commands
  /\ Crontabs \subseteq Seq(Lines) /\ Crontabs # {}
  /\ Users \in BOOLEAN /\ Faults \in BOOLEAN /\ Crashes \in BOOLEAN

NoId == "no id"
ASSUME NoIdAssumption == NoId \notin Jobs \cup Rows

VARIABLES
  crontab,     \* the crontab file on the server
  job,         \* job rows of this client, NoRow where there is none
  running,     \* SyncHistory rows whose status is RUNNING
  isSyncing,   \* the flag of the batches
  pc,          \* what a call awaits
  batch,       \* the call was made by a batch
  row,         \* its syncRecord.id
  read,        \* its cronEntries
  left,        \* entries still to be processed
  names,       \* its discoveredJobNames
  found,       \* existing.id of the entry in hand
  change,      \* fields the update of the entry in hand will set
  processed,   \* its processedJobIds
  failed,      \* errors.length > 0
  alone        \* history: no other call was in flight since it began

callVars == <<row, read, left, names, found, change, processed, failed>>
vars == <<crontab, job, running, isSyncing, pc, batch,
          callVars, alone>>

Phases == {"idle", "before", "client", "close", "record", "ssh", "entry",
           "name", "update", "upsert", "finish", "stamp", "catch",
           "after"}

NoRow == [cmd |-> NoId, name |-> <<NoId, 0, 0>>, sched |-> 0, live |-> FALSE]
Exists(j) == job[j] # NoRow

\* The call is inside syncClientCrons for this client; a batch is before or
\* after it while it is at other clients.
Busy(s) == pc[s] \notin {"idle", "before", "after"}

Init ==
  /\ crontab \in Crontabs
  /\ job = [j \in Jobs |-> NoRow]
  /\ running = {}
  /\ isSyncing = FALSE
  /\ pc = [s \in Syncs |-> "idle"]
  /\ batch = [s \in Syncs |-> FALSE]
  /\ row = [s \in Syncs |-> NoId]
  /\ read = [s \in Syncs |-> <<>>]
  /\ left = [s \in Syncs |-> <<>>]
  /\ names = [s \in Syncs |-> {}]
  /\ found = [s \in Syncs |-> NoId]
  /\ change = [s \in Syncs |-> {}]
  /\ processed = [s \in Syncs |-> {}]
  /\ failed = [s \in Syncs |-> FALSE]
  /\ alone = [s \in Syncs |-> FALSE]

(***************************************************************************)
(* The surroundings.                                                       *)
(***************************************************************************)
EditCrontab ==
  /\ crontab' \in Crontabs
  /\ UNCHANGED <<job, running, isSyncing, pc, batch, callVars, alone>>

DeleteJob(j) ==   \* a user's delete is soft: the row keeps its name
  /\ Users /\ Exists(j) /\ job[j].live
  /\ job' = [job EXCEPT ![j] = [cmd |-> job[j].cmd, name |-> job[j].name,
                                sched |-> job[j].sched, live |-> FALSE]]
  /\ UNCHANGED <<crontab, running, isSyncing, pc, batch, callVars, alone>>

(***************************************************************************)
(* The call up to the creation of its history row.                         *)
(***************************************************************************)
Forget(s) ==      \* the local variables of the call are gone
  /\ row' = [row EXCEPT ![s] = NoId]
  /\ read' = [read EXCEPT ![s] = <<>>]
  /\ left' = [left EXCEPT ![s] = <<>>]
  /\ names' = [names EXCEPT ![s] = {}]
  /\ found' = [found EXCEPT ![s] = NoId]
  /\ change' = [change EXCEPT ![s] = {}]
  /\ processed' = [processed EXCEPT ![s] = {}]
  /\ failed' = [failed EXCEPT ![s] = FALSE]

\* mutant: the call itself releases the flag
ReturnReleases(s) ==
  /\ pc' = [pc EXCEPT ![s] = IF batch[s] THEN "after" ELSE "idle"]
  /\ alone' = [alone EXCEPT ![s] = FALSE]
  /\ isSyncing' = FALSE
  /\ Forget(s)
  /\ UNCHANGED batch

Return(s) ==      \* returned or thrown; a batch goes on with other clients
  /\ pc' = [pc EXCEPT ![s] = IF batch[s] THEN "after" ELSE "idle"]
  /\ alone' = [alone EXCEPT ![s] = FALSE]
  /\ Forget(s)
  /\ UNCHANGED <<isSyncing, batch>>

SyncClientCrons(s, from) ==
  /\ pc[s] = from
  /\ pc' = [pc EXCEPT ![s] = "client"]
  /\ alone' = [t \in Syncs |-> IF t = s THEN \A u \in Syncs : ~Busy(u) ELSE FALSE]
  /\ UNCHANGED <<crontab, job, running, isSyncing, batch, callVars>>

SyncOne(s) == SyncClientCrons(s, "idle")

SyncAll(s) ==     \* the flag is tested and set in one synchronous piece
  /\ pc[s] = "idle" /\ ~isSyncing
  /\ isSyncing' = TRUE
  /\ batch' = [batch EXCEPT ![s] = TRUE]
  /\ pc' = [pc EXCEPT ![s] = "before"]
  /\ UNCHANGED <<crontab, job, running, callVars, alone>>

VisitClient(s) == SyncClientCrons(s, "before")

\* mutant: the flag is released after the loop, without a finally block
BatchEndKeeps(s) ==
  /\ pc[s] = "after" \/ (Faults /\ pc[s] = "before")
  /\ isSyncing' = (pc[s] = "before")
  /\ batch' = [batch EXCEPT ![s] = FALSE]
  /\ pc' = [pc EXCEPT ![s] = "idle"]
  /\ UNCHANGED <<crontab, job, running, callVars, alone>>

BatchEnd(s) ==    \* in the finally block: after a rejection as well
  /\ pc[s] = "after" \/ (Faults /\ pc[s] = "before")
  /\ isSyncing' = FALSE
  /\ batch' = [batch EXCEPT ![s] = FALSE]
  /\ pc' = [pc EXCEPT ![s] = "idle"]
  /\ UNCHANGED <<crontab, job, running, callVars, alone>>

Skip(s) ==        \* not forced, and lastCronSyncAt is within the cooldown
  /\ pc[s] = "client"
  /\ Return(s)
  /\ UNCHANGED <<crontab, job, running>>

Proceed(s) ==     \* forced, or the cooldown is over
  /\ pc[s] = "client"
  /\ pc' = [pc EXCEPT ![s] = "close"]
  /\ UNCHANGED <<crontab, job, running, isSyncing, batch, callVars, alone>>

\* mutant: the rows of interrupted calls stay
CloseOrphansNot(s) ==
  /\ pc[s] = "close"
  /\ pc' = [pc EXCEPT ![s] = "record"]
  /\ UNCHANGED <<crontab, job, running, isSyncing, batch, callVars, alone>>

CloseOrphans(s) ==
  /\ pc[s] = "close"
  /\ running' = {}
  /\ pc' = [pc EXCEPT ![s] = "record"]
  /\ UNCHANGED <<crontab, job, isSyncing, batch, callVars, alone>>

\* An id that is not in use stands for a new one.
NewRecord(s, r) ==
  /\ pc[s] = "record"
  /\ r \notin running /\ \A t \in Syncs : row[t] # r
  /\ running' = running \cup {r}
  /\ row' = [row EXCEPT ![s] = r]
  /\ pc' = [pc EXCEPT ![s] = "ssh"]
  /\ UNCHANGED <<crontab, job, isSyncing, batch, read, left,
                 names, found, change, processed, failed, alone>>

Throws(s) ==      \* a query before the try block rejects
  /\ Faults /\ pc[s] \in {"client", "close", "record"}
  /\ Return(s)
  /\ UNCHANGED <<crontab, job, running>>

(***************************************************************************)
(* Reading the crontab.  sshExec ignores stderr and the exit status and    *)
(* resolves with what it got when the channel closes: after a failed cat   *)
(* or a cut connection that is a prefix of the file, possibly nothing.  The *)
(* transaction that replaces the CachedCronJob rows belongs to this step:  *)
(* nothing here reads them.                                                *)
(***************************************************************************)
ReadCrontab(s, n) ==
  /\ pc[s] = "ssh"
  /\ n = Len(crontab) \/ Faults
  /\ read' = [read EXCEPT ![s] = SubSeq(crontab, 1, n)]
  /\ left' = [left EXCEPT ![s] = read'[s]]
  /\ pc' = [pc EXCEPT ![s] = "entry"]
  /\ UNCHANGED <<crontab, job, running, isSyncing, batch, row, names, found,
                 change, processed, failed, alone>>

(***************************************************************************)
(* The loop over the entries.                                              *)
(***************************************************************************)
JobName(used, l) ==
  LET plain == <<BaseName[l.cmd], 0, 1>>
      copy(k) == <<BaseName[l.cmd], l.sched, k>>
  IN  IF plain \notin used THEN plain
      ELSE copy(CHOOSE k \in 1..(Cardinality(used) + 1) :
                  /\ copy(k) \notin used
                  /\ \A i \in 1..(k - 1) : copy(i) \in used)

Matching(c) == {j \in Jobs : Exists(j) /\ job[j].live /\ job[j].cmd = c}

\* The name the entry in hand was given: the last one added to names.
InHand(s) == JobName(names[s], Head(left[s]))

FindJob(s) ==     \* findFirst by sourceIdentifier, in no particular order
  /\ pc[s] = "entry" /\ left[s] # <<>>
  /\ LET l == Head(left[s]) IN
     \/ /\ Matching(l.cmd) = {}
        /\ found' = [found EXCEPT ![s] = NoId]
        /\ change' = [change EXCEPT ![s] = {}]
        /\ pc' = [pc EXCEPT ![s] = "upsert"]
     \/ \E j \in Matching(l.cmd) :
        /\ found' = [found EXCEPT ![s] = j]
        /\ change' = [change EXCEPT ![s] =
             IF job[j].sched # l.sched THEN {"sched"} ELSE {}]
        /\ pc' = [pc EXCEPT ![s] =
             IF job[j].name # InHand(s) THEN "name" ELSE "update"]
  /\ UNCHANGED <<crontab, job, running, isSyncing, batch, row,
                 read, left, names, processed, failed, alone>>

NameTaken(n, j) == \E k \in Jobs \ {j} : Exists(k) /\ job[k].name = n

CheckName(s) ==
  /\ pc[s] = "name"
  /\ change' = [change EXCEPT ![s] =
       IF NameTaken(InHand(s), found[s]) THEN @ ELSE @ \cup {"name"}]
  /\ pc' = [pc EXCEPT ![s] = "update"]
  /\ UNCHANGED <<crontab, job, running, isSyncing, batch, row,
                 read, left, names, found, processed, failed, alone>>

NextEntry(s) ==
  /\ names' = [names EXCEPT ![s] = @ \cup {InHand(s)}]
  /\ left' = [left EXCEPT ![s] = Tail(@)]
  /\ found' = [found EXCEPT ![s] = NoId]
  /\ change' = [change EXCEPT ![s] = {}]
  /\ pc' = [pc EXCEPT ![s] = "entry"]
  /\ UNCHANGED <<crontab, running, isSyncing, batch, row, read, alone>>

Updated(s) ==
  LET old == job[found[s]] IN
  [cmd |-> old.cmd, live |-> old.live,
   name |-> IF "name" \in change[s] THEN InHand(s) ELSE old.name,
   sched |-> IF "sched" \in change[s] THEN Head(left[s]).sched ELSE old.sched]

\* The update rejects if the row is gone or another one took the name.
Updatable(s) ==
  /\ Exists(found[s])
  /\ "name" \in change[s] => ~NameTaken(InHand(s), found[s])

Process(s, j) == processed' = [processed EXCEPT ![s] = @ \cup {j}]

UpdateJob(s) ==
  /\ pc[s] = "update" /\ Updatable(s)
  /\ job' = [job EXCEPT ![found[s]] = Updated(s)]
  /\ Process(s, found[s])
  /\ NextEntry(s)
  /\ UNCHANGED failed

\* Ids are never reused: a free one is one no call remembers.
FreeJobs == {j \in Jobs : ~Exists(j) /\ \A s \in Syncs :
                            found[s] # j /\ j \notin processed[s]}

CreateJob(s, j) ==    \* upsert by name: no row has it
  /\ pc[s] = "upsert" /\ j \in FreeJobs
  /\ \A k \in Jobs : job[k].name # InHand(s)
  /\ job' = [job EXCEPT ![j] = [cmd |-> Head(left[s]).cmd, name |-> InHand(s),
                                sched |-> Head(left[s]).sched, live |-> TRUE]]
  /\ Process(s, j)
  /\ NextEntry(s)
  /\ UNCHANGED failed

TakeOverJob(s, j) ==  \* upsert by name: the row that has it, deleted or not
  /\ pc[s] = "upsert" /\ Exists(j) /\ job[j].name = InHand(s)
  /\ job' = [job EXCEPT ![j] = [cmd |-> Head(left[s]).cmd, name |-> job[j].name,
                                sched |-> Head(left[s]).sched, live |-> job[j].live]]
  /\ Process(s, j)
  /\ NextEntry(s)
  /\ UNCHANGED failed

EntryFails(s) ==      \* logged as an error, the loop goes on
  /\ \/ pc[s] = "update" /\ ~Updatable(s)
     \/ Faults /\ pc[s] \in {"name", "update", "upsert"}
     \/ Faults /\ pc[s] = "entry" /\ left[s] # <<>>
  /\ failed' = [failed EXCEPT ![s] = TRUE]
  /\ NextEntry(s)
  /\ UNCHANGED <<job, processed>>

(***************************************************************************)
(* The end of the call.                                                    *)
(***************************************************************************)
\* mutant: a job is stale if its command was not discovered
StaleByCommand(s) ==
  {j \in Jobs : Exists(j) /\ job[j].live /\ \A l \in Range(read[s]) : job[j].cmd # l.cmd}

Stale(s) == {j \in Jobs : Exists(j) /\ job[j].live /\ j \notin processed[s]}

RemoveStale(s) ==     \* deleteMany: a hard delete, in one statement
  /\ pc[s] = "entry" /\ left[s] = <<>>
  /\ job' = [j \in Jobs |-> IF j \in Stale(s) THEN NoRow ELSE job[j]]
  /\ pc' = [pc EXCEPT ![s] = "finish"]
  /\ UNCHANGED <<crontab, running, isSyncing, batch, callVars, alone>>

Record(s) == running' = running \ {row[s]}   \* SUCCESS, PARTIAL or FAILED

Finish(s) ==
  /\ pc[s] = "finish"
  /\ Record(s)
  /\ pc' = [pc EXCEPT ![s] = "stamp"]
  /\ UNCHANGED <<crontab, job, isSyncing, batch, callVars, alone>>

StampSync(s) ==       \* lastCronSyncAt, even if the status is PARTIAL
  /\ pc[s] = "stamp"
  /\ Return(s)
  /\ UNCHANGED <<crontab, job, running>>

Fail(s) ==
  /\ Faults /\ \/ pc[s] \in {"ssh", "finish", "stamp"}
               \/ pc[s] = "entry" /\ left[s] = <<>>
  /\ pc' = [pc EXCEPT ![s] = "catch"]
  /\ UNCHANGED <<crontab, job, running, isSyncing, batch, callVars, alone>>

RecordFailure(s) ==
  /\ pc[s] = "catch"
  /\ Record(s)
  /\ Return(s)
  /\ UNCHANGED <<crontab, job>>

CatchThrows(s) ==     \* the update in the catch block rejects as well
  /\ Faults /\ pc[s] = "catch"
  /\ Return(s)
  /\ UNCHANGED <<crontab, job, running>>

Crash ==
  /\ Crashes
  /\ isSyncing' = FALSE
  /\ pc' = [s \in Syncs |-> "idle"]
  /\ batch' = [s \in Syncs |-> FALSE]
  /\ row' = [s \in Syncs |-> NoId]
  /\ read' = [s \in Syncs |-> <<>>]
  /\ left' = [s \in Syncs |-> <<>>]
  /\ names' = [s \in Syncs |-> {}]
  /\ found' = [s \in Syncs |-> NoId]
  /\ change' = [s \in Syncs |-> {}]
  /\ processed' = [s \in Syncs |-> {}]
  /\ failed' = [s \in Syncs |-> FALSE]
  /\ alone' = [s \in Syncs |-> FALSE]
  /\ UNCHANGED <<crontab, job, running>>

----------------------------------------------------------------------------
Loop(s) ==
  \/ FindJob(s) \/ CheckName(s) \/ UpdateJob(s) \/ EntryFails(s)
  \/ \E j \in Jobs : CreateJob(s, j) \/ TakeOverJob(s, j)

Advance(s) ==
  \/ VisitClient(s) \/ BatchEnd(s)
  \/ Skip(s) \/ Proceed(s) \/ CloseOrphans(s) \/ Throws(s)
  \/ \E r \in Rows : NewRecord(s, r)
  \/ \E n \in 0..Len(crontab) : ReadCrontab(s, n)
  \/ Loop(s) \/ RemoveStale(s) \/ Finish(s) \/ StampSync(s)
  \/ Fail(s) \/ RecordFailure(s) \/ CatchThrows(s)

Next ==
  \/ EditCrontab \/ Crash
  \/ \E j \in Jobs : DeleteJob(j)
  \/ \E s \in Syncs : SyncOne(s) \/ SyncAll(s) \/ Advance(s)

Spec == Init /\ [][Next]_vars

\* Node resumes promises; SSH commands have timeouts.
FairSpec == Spec /\ \A s \in Syncs : WF_vars(Advance(s))

----------------------------------------------------------------------------
(* Properties *)

Names == Range(BaseName) \X (Schedules \cup {0}) \X Nat
JobRow == [cmd : Commands, name : Names, sched : Schedules, live : BOOLEAN]

TypeOK ==
  /\ crontab \in Crontabs
  /\ job \in [Jobs -> JobRow \cup {NoRow}]
  /\ running \subseteq Rows
  /\ isSyncing \in BOOLEAN
  /\ pc \in [Syncs -> Phases] /\ batch \in [Syncs -> BOOLEAN]
  /\ row \in [Syncs -> Rows \cup {NoId}]
  /\ read \in [Syncs -> Seq(Lines)] /\ left \in [Syncs -> Seq(Lines)]
  /\ names \in [Syncs -> SUBSET Names] /\ \A s \in Syncs : IsFiniteSet(names[s])
  /\ found \in [Syncs -> Jobs \cup {NoId}]
  /\ change \in [Syncs -> SUBSET {"name", "sched"}]
  /\ processed \in [Syncs -> SUBSET Jobs]
  /\ failed \in [Syncs -> BOOLEAN] /\ alone \in [Syncs -> BOOLEAN]

\* Whatever overlapping, failed and interrupted syncs have left behind, one
\* sync without errors that no other call overlaps repairs it: the live jobs
\* are those of the lines it read, with their schedules, every command has a
\* job, possibly one a user deleted.  (No two commands have the same name and parameters.)
SyncRepairs ==
  \A s \in Syncs : pc[s] = "stamp" /\ alone[s] /\ ~failed[s] =>
    /\ \A j \in Jobs : Exists(j) /\ job[j].live =>
         [cmd |-> job[j].cmd, sched |-> job[j].sched] \in Range(read[s])
    /\ \A l \in Range(read[s]) : \E j \in Jobs : Exists(j) /\ job[j].cmd = l.cmd

\* The history never shows two syncs of the client in progress when there is
\* one: rows that crashed or rejected calls left RUNNING are closed by the next.
OneRunningRow ==
  \A s \in Syncs : alone[s] /\ row[s] # NoId =>
    running \subseteq {row[s]}

\* isSyncing means that a batch is under way: two batches never overlap, and
\* neither a failure nor the sync of a single client releases or leaks the flag.
BatchesExclude ==
  /\ isSyncing <=> \E s \in Syncs : batch[s]
  /\ \A s, t \in Syncs : batch[s] /\ batch[t] => s = t

\* A batch ends, so that later ones (the nightly one) are not refused for ever.
BatchEnds == isSyncing ~> ~isSyncing

\* "Delete jobs for this client/sourceSystem that are not in the discovered
\* set": a job whose command was discovered is not deleted.
DiscoveredIsKept ==
  [][\A s \in Syncs : pc[s] = "entry" /\ pc'[s] = "finish" =>
       \A j \in Jobs : Exists(j) /\ job'[j] = NoRow =>
         job[j].cmd \notin {l.cmd : l \in Range(read[s])}]_vars
=============================================================================
