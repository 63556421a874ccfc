--------------------------- MODULE CronSync_proofs ---------------------------
(***************************************************************************)
(* Theorems about CronSync, for any number of calls, commands, jobs and    *)
(* crontabs.                                                               *)
(***************************************************************************)
EXTENDS CronSync, FiniteSetTheorems, SequenceTheorems, TLAPS

----------------------------------------------------------------------------
(* The name of an entry *)

\* Among the numbers up to one more than the names in use there is a smallest
\* one whose copy is not in use.
LEMMA FreeCopy ==
  ASSUME NEW used, IsFiniteSet(used), NEW b, NEW n
  PROVE  \E k \in 1..(Cardinality(used) + 1) :
            /\ <<b, n, k>> \notin used
            /\ \A i \in 1..(k - 1) : <<b, n, i>> \in used
<1> DEFINE copy(k) == <<b, n, k>>
           N == Cardinality(used) + 1
           T == {k \in 1..N : copy(k) \notin used}
<1>1. Cardinality(used) \in Nat
  BY FS_CardinalityType
<1>2. T # {}
  <2>1. SUFFICES ASSUME \A k \in 1..N : copy(k) \in used PROVE FALSE
    OBVIOUS
  <2> DEFINE f == [k \in 1..N |-> copy(k)]
  <2>2. f \in [1..N -> used]
    BY <2>1
  <2>3. IsFiniteSet(1..N) /\ Cardinality(1..N) = N
    BY <1>1, FS_Interval
  <2> HIDE DEF f
  <2>4. \E x, y \in 1..N : x # y /\ f[x] = f[y]
    BY <1>1, <2>2, <2>3, FS_PigeonHole
  <2>5. QED
    BY <1>1, <2>4 DEF f
<1>3. PICK k \in T : \A i \in T : ~ (<<i, k>> \in OpToRel(<, Nat))
  <2> HIDE DEF T
  <2>1. T \subseteq Nat
    BY <1>1 DEF T
  <2>2. QED
    BY <1>2, <2>1, NatLessThanWellFounded, WFMin
<1>4. ASSUME NEW i \in T PROVE ~ (i < k)
  <2>1. i \in Nat /\ k \in Nat
    BY <1>1
  <2>2. QED
    BY <1>3, <2>1 DEF OpToRel
<1>5. QED
  BY <1>1, <1>4
\* The name syncClientCrons gives an entry is new to the call, and begins with
\* the base name of the command.
LEMMA JobNameIsNew ==
  ASSUME NEW used, IsFiniteSet(used), NEW l \in Lines
  PROVE  /\ JobName(used, l) \notin used
         /\ JobName(used, l) \in Names
         /\ JobName(used, l)[1] = BaseName[l.cmd]
<1> DEFINE free(k) == /\ <<BaseName[l.cmd], l.sched, k>> \notin used
                      /\ \A i \in 1..(k - 1) : <<BaseName[l.cmd], l.sched, i>> \in used
           k0 == CHOOSE k \in 1..(Cardinality(used) + 1) : free(k)
<1>1. BaseName[l.cmd] \in Range(BaseName) /\ l.sched \in Schedules
  BY CronAssumption DEF Lines, Range
<1>2. k0 \in 1..(Cardinality(used) + 1) /\ free(k0)
  BY FreeCopy
<1>3. k0 \in Nat
  BY <1>2, FS_CardinalityType
<1>4. JobName(used, l) = IF <<BaseName[l.cmd], 0, 1>> \notin used
                         THEN <<BaseName[l.cmd], 0, 1>>
                         ELSE <<BaseName[l.cmd], l.sched, k0>>
  BY DEF JobName
<1> HIDE DEF k0
<1>5. QED
  BY <1>1, <1>2, <1>3, <1>4 DEF Names

----------------------------------------------------------------------------
(* Types *)

\* A call that updates a job holds one, and has an entry in hand from the query
\* to the write.
Holding ==
  \A s \in Syncs :
    /\ pc[s] \in {"name", "update"} => found[s] \in Jobs
    /\ pc[s] \notin {"name", "update"} => found[s] = NoId
    /\ pc[s] \in {"name", "update", "upsert"} => left[s] # <<>>

LEMMA CrontabLines == \A f \in Crontabs : f \in Seq(Lines)
  BY CronAssumption

LEMMA NotARow == NoRow \notin JobRow /\ \A j \in Jobs : j # NoId
  BY NoIdAssumption, CronAssumption DEF NoRow, JobRow

LEMMA EntryInHand ==
  ASSUME TypeOK, NEW s \in Syncs, left[s] # <<>>
  PROVE  /\ Head(left[s]) \in Lines /\ Tail(left[s]) \in Seq(Lines)
         /\ InHand(s) \in Names /\ InHand(s) \notin names[s]
         /\ InHand(s)[1] = BaseName[Head(left[s]).cmd]
<1>1. left[s] \in Seq(Lines) /\ IsFiniteSet(names[s])
  BY DEF TypeOK
<1>2. Head(left[s]) \in Lines /\ Tail(left[s]) \in Seq(Lines)
  BY <1>1, HeadTailProperties
<1>3. QED
  BY <1>1, <1>2, JobNameIsNew DEF InHand

LEMMA TypeInit == Init => TypeOK /\ Holding
<1>1. <<>> \in Seq(Lines) /\ IsFiniteSet({})
  BY FS_EmptySet
<1>2. QED
  BY <1>1 DEF Init, TypeOK, Holding, Phases

LEMMA TypeReturn ==
  ASSUME TypeOK, NEW s \in Syncs, Return(s), UNCHANGED <<crontab, job>>,
         running' \subseteq Rows
  PROVE  TypeOK'
<1>1. <<>> \in Seq(Lines) /\ IsFiniteSet({})
  BY FS_EmptySet
<1>2. QED
  BY <1>1 DEF TypeOK, Return, Forget, Phases

LEMMA TypeCall ==
  ASSUME TypeOK, NEW s \in Syncs
  PROVE  /\ SyncOne(s) => TypeOK'
         /\ SyncAll(s) => TypeOK'
         /\ VisitClient(s) => TypeOK'
         /\ BatchEnd(s) => TypeOK'
<1>1. SyncOne(s) => TypeOK'
  BY DEF SyncOne, SyncClientCrons, TypeOK, Phases, callVars
<1>2. SyncAll(s) => TypeOK'
  BY DEF SyncAll, TypeOK, Phases, callVars
<1>3. VisitClient(s) => TypeOK'
  BY DEF VisitClient, SyncClientCrons, TypeOK, Phases, callVars
<1>4. BatchEnd(s) => TypeOK'
  BY DEF BatchEnd, TypeOK, Phases, callVars
<1>5. QED
  BY <1>1, <1>2, <1>3, <1>4

LEMMA TypeEnds ==
  ASSUME TypeOK, NEW s \in Syncs
  PROVE  /\ Skip(s) => TypeOK'
         /\ Throws(s) => TypeOK'
         /\ StampSync(s) => TypeOK'
         /\ RecordFailure(s) => TypeOK'
         /\ CatchThrows(s) => TypeOK'
<1>1. running \subseteq Rows
  BY DEF TypeOK
<1>2. QED
  BY <1>1, TypeReturn DEF Skip, Throws, StampSync, RecordFailure, CatchThrows, Record

LEMMA TypeFrame ==
  ASSUME TypeOK, NEW s \in Syncs
  PROVE  /\ Proceed(s) => TypeOK'
         /\ CloseOrphans(s) => TypeOK'
         /\ \A r \in Rows : NewRecord(s, r) => TypeOK'
         /\ Finish(s) => TypeOK'
         /\ Fail(s) => TypeOK'
<1>1. Proceed(s) => TypeOK'
  BY DEF Proceed, TypeOK, Phases, callVars
<1>2. CloseOrphans(s) => TypeOK'
  BY DEF CloseOrphans, TypeOK, Phases, callVars
<1>3. ASSUME NEW r \in Rows, NewRecord(s, r) PROVE TypeOK'
  BY <1>3 DEF NewRecord, TypeOK, Phases
<1>4. Finish(s) => TypeOK'
  BY DEF Finish, Record, TypeOK, Phases, callVars
<1>5. Fail(s) => TypeOK'
  BY DEF Fail, TypeOK, Phases, callVars
<1>6. QED
  BY <1>1, <1>2, <1>3, <1>4, <1>5

LEMMA Prefix ==
  ASSUME NEW f \in Seq(Lines), NEW n \in 0..Len(f)
  PROVE  SubSeq(f, 1, n) \in Seq(Lines)
  BY SubSeqProperties

LEMMA TypeRead ==
  ASSUME TypeOK, NEW s \in Syncs, NEW n \in 0..Len(crontab), ReadCrontab(s, n)
  PROVE  TypeOK'
<1>1. SubSeq(crontab, 1, n) \in Seq(Lines)
  BY CrontabLines, Prefix DEF TypeOK
<1>2. QED
  BY <1>1 DEF ReadCrontab, TypeOK, Phases

LEMMA TypeQuery ==
  ASSUME TypeOK, NEW s \in Syncs
  PROVE  /\ FindJob(s) => TypeOK'
         /\ CheckName(s) => TypeOK'
<1>1. ASSUME FindJob(s) PROVE TypeOK'
  <2>1. /\ pc' \in [Syncs -> Phases] /\ found' \in [Syncs -> Jobs \cup {NoId}]
        /\ change' \in [Syncs -> SUBSET {"name", "sched"}]
    <3>1. PICK j \in Jobs \cup {NoId}, ch \in {{}, {"sched"}}, p \in Phases :
            /\ found' = [found EXCEPT ![s] = j]
            /\ change' = [change EXCEPT ![s] = ch]
            /\ pc' = [pc EXCEPT ![s] = p]
      BY <1>1 DEF FindJob, Matching, Phases
    <3>2. QED
      BY <3>1 DEF TypeOK
  <2>2. QED
    BY <1>1, <2>1 DEF FindJob, TypeOK
<1>2. ASSUME CheckName(s) PROVE TypeOK'
  BY <1>2 DEF CheckName, TypeOK, Phases
<1>3. QED
  BY <1>1, <1>2

LEMMA TypeNext ==
  ASSUME TypeOK, NEW s \in Syncs, left[s] # <<>>, NextEntry(s),
         job' \in [Jobs -> JobRow \cup {NoRow}],
         processed' \in [Syncs -> SUBSET Jobs], failed' \in [Syncs -> BOOLEAN]
  PROVE  TypeOK'
<1>1. IsFiniteSet(names[s] \cup {InHand(s)})
  BY FS_AddElement DEF TypeOK
<1>2. names' \in [Syncs -> SUBSET Names] /\ \A t \in Syncs : IsFiniteSet(names'[t])
  BY <1>1, EntryInHand DEF NextEntry, TypeOK
<1>3. left' \in [Syncs -> Seq(Lines)]
  BY EntryInHand DEF NextEntry, TypeOK
<1>4. QED
  BY <1>2, <1>3 DEF NextEntry, TypeOK, Phases

LEMMA TypeWrite ==
  ASSUME TypeOK, Holding, NEW s \in Syncs
  PROVE  /\ UpdateJob(s) => TypeOK'
         /\ \A j \in Jobs : CreateJob(s, j) => TypeOK'
         /\ \A j \in Jobs : TakeOverJob(s, j) => TypeOK'
         /\ EntryFails(s) => TypeOK'
<1>1. job \in [Jobs -> JobRow \cup {NoRow}] /\ processed \in [Syncs -> SUBSET Jobs]
      /\ failed \in [Syncs -> BOOLEAN]
  BY DEF TypeOK
<1>2. ASSUME UpdateJob(s) PROVE TypeOK'
  <2>1. found[s] \in Jobs /\ left[s] # <<>>
    BY <1>2 DEF UpdateJob, Holding
  <2>2. job[found[s]] \in JobRow
    BY <1>1, <1>2, <2>1 DEF UpdateJob, Updatable, Exists
  <2>3. Updated(s) \in JobRow
    BY <2>1, <2>2, EntryInHand DEF Updated, JobRow, Lines
  <2>4. job' \in [Jobs -> JobRow \cup {NoRow}]
    BY <1>1, <1>2, <2>3 DEF UpdateJob
  <2>5. processed' \in [Syncs -> SUBSET Jobs]
    BY <1>1, <1>2, <2>1 DEF UpdateJob, Process
  <2>6. QED
    BY <1>1, <1>2, <2>1, <2>4, <2>5, TypeNext DEF UpdateJob
<1>3. ASSUME NEW j \in Jobs, CreateJob(s, j) PROVE TypeOK'
  <2>1. left[s] # <<>>
    BY <1>3 DEF CreateJob, Holding
  <2>2. job' \in [Jobs -> JobRow \cup {NoRow}]
    BY <1>1, <1>3, <2>1, EntryInHand DEF CreateJob, JobRow, Lines
  <2>3. processed' \in [Syncs -> SUBSET Jobs]
    BY <1>1, <1>3 DEF CreateJob, Process
  <2>4. QED
    BY <1>1, <1>3, <2>1, <2>2, <2>3, TypeNext DEF CreateJob
<1>4. ASSUME NEW j \in Jobs, TakeOverJob(s, j) PROVE TypeOK'
  <2>1. left[s] # <<>> /\ job[j] \in JobRow
    BY <1>1, <1>4 DEF TakeOverJob, Holding, Exists
  <2>2. job' \in [Jobs -> JobRow \cup {NoRow}]
    BY <1>1, <1>4, <2>1, EntryInHand DEF TakeOverJob, JobRow, Lines
  <2>3. processed' \in [Syncs -> SUBSET Jobs]
    BY <1>1, <1>4 DEF TakeOverJob, Process
  <2>4. QED
    BY <1>1, <1>4, <2>1, <2>2, <2>3, TypeNext DEF TakeOverJob
<1>5. ASSUME EntryFails(s) PROVE TypeOK'
  <2>1. left[s] # <<>>
    BY <1>5 DEF EntryFails, Holding
  <2>2. failed' \in [Syncs -> BOOLEAN]
    BY <1>1, <1>5 DEF EntryFails
  <2>3. QED
    BY <1>1, <1>5, <2>1, <2>2, TypeNext DEF EntryFails
<1>6. QED
  BY <1>2, <1>3, <1>4, <1>5

LEMMA TypeSurroundings ==
  ASSUME TypeOK
  PROVE  /\ EditCrontab => TypeOK'
         /\ Crash => TypeOK'
         /\ \A j \in Jobs : DeleteJob(j) => TypeOK'
         /\ \A s \in Syncs : RemoveStale(s) => TypeOK'
<1>1. EditCrontab => TypeOK'
  BY DEF EditCrontab, TypeOK, callVars
<1>2. <<>> \in Seq(Lines) /\ IsFiniteSet({})
  BY FS_EmptySet
<1>3. ASSUME Crash PROVE TypeOK'
  <2>1. names' \in [Syncs -> SUBSET Names] /\ \A s \in Syncs : IsFiniteSet(names'[s])
    BY <1>2, <1>3 DEF Crash
  <2>2. read' \in [Syncs -> Seq(Lines)] /\ left' \in [Syncs -> Seq(Lines)]
    BY <1>2, <1>3 DEF Crash
  <2>3. QED
    BY <1>3, <2>1, <2>2 DEF Crash, TypeOK, Phases
<1>4. ASSUME NEW j \in Jobs, DeleteJob(j) PROVE TypeOK'
  <2>1. job[j] \in JobRow
    BY <1>4 DEF DeleteJob, Exists, TypeOK
  <2>2. job' \in [Jobs -> JobRow \cup {NoRow}]
    BY <1>4, <2>1 DEF DeleteJob, TypeOK, JobRow
  <2>3. QED
    BY <1>4, <2>2 DEF DeleteJob, TypeOK, callVars
<1>5. ASSUME NEW s \in Syncs, RemoveStale(s) PROVE TypeOK'
  <2>1. job' \in [Jobs -> JobRow \cup {NoRow}]
    BY <1>5 DEF RemoveStale, TypeOK
  <2>2. QED
    BY <1>5, <2>1 DEF RemoveStale, TypeOK, callVars, Phases
<1>6. QED
  BY <1>1, <1>3, <1>4, <1>5

LEMMA TypeStep == TypeOK /\ Holding /\ [Next]_vars => TypeOK'
<1> SUFFICES ASSUME TypeOK, Holding, [Next]_vars PROVE TypeOK'
  OBVIOUS
<1>1. ASSUME NEW s \in Syncs, Advance(s) PROVE TypeOK'
  BY <1>1, TypeCall, TypeEnds, TypeFrame, TypeRead, TypeQuery, TypeWrite,
     TypeSurroundings DEF Advance, Loop
<1>2. CASE UNCHANGED vars
  BY <1>2 DEF vars, callVars, TypeOK
<1>3. QED
  BY <1>1, <1>2, TypeCall, TypeSurroundings DEF Next

LEMMA HoldingStep == TypeOK /\ Holding /\ [Next]_vars => Holding'
<1> SUFFICES ASSUME TypeOK, Holding, [Next]_vars PROVE Holding'
  OBVIOUS
<1>1. ASSUME NEW s \in Syncs, Advance(s) PROVE Holding'
  <2>1. CASE Loop(s)
    <3>1. FindJob(s) => Holding'
      BY NotARow DEF FindJob, Matching, Holding, TypeOK
    <3>2. CheckName(s) => Holding'
      BY DEF CheckName, Holding, TypeOK
    <3>3. NextEntry(s) => Holding'
      BY DEF NextEntry, Holding, TypeOK
    <3>4. QED
      BY <2>1, <3>1, <3>2, <3>3 DEF Loop, UpdateJob, EntryFails, CreateJob, TakeOverJob
  <2>2. Return(s) => Holding'
    BY DEF Return, Forget, Holding, TypeOK
  <2>3. CASE ~ Loop(s)
    <3>1. VisitClient(s) \/ BatchEnd(s) \/ Proceed(s) \/ CloseOrphans(s) => Holding'
      BY DEF VisitClient, SyncClientCrons, BatchEnd, Proceed, CloseOrphans, Holding,
         TypeOK, callVars
    <3>2. RemoveStale(s) \/ Finish(s) \/ Fail(s) => Holding'
      BY DEF RemoveStale, Finish, Fail, Holding, TypeOK, callVars
    <3>3. \A r \in Rows : NewRecord(s, r) => Holding'
      BY DEF NewRecord, Holding, TypeOK
    <3>4. \A n \in 0..Len(crontab) : ReadCrontab(s, n) => Holding'
      BY DEF ReadCrontab, Holding, TypeOK
    <3>5. QED
      BY <1>1, <2>2, <2>3, <3>1, <3>2, <3>3, <3>4
      DEF Advance, Skip, Throws, StampSync, RecordFailure, CatchThrows
  <2>4. QED
    BY <2>1, <2>3
<1>2. ASSUME NEW s \in Syncs, SyncOne(s) \/ SyncAll(s) PROVE Holding'
  BY <1>2 DEF SyncOne, SyncAll, SyncClientCrons, Holding, TypeOK, callVars
<1>3. CASE Crash
  BY <1>3 DEF Crash, Holding
<1>4. CASE UNCHANGED <<pc, callVars>>
  BY <1>4 DEF callVars, Holding
<1>5. QED
  BY <1>1, <1>2, <1>3, <1>4 DEF Next, EditCrontab, DeleteJob, vars

\* Every reachable state is well typed; in particular the ids a call remembers
\* are those of jobs, and the names it gives are names.
THEOREM TypeCorrect == Spec => []TypeOK
<1>1. QED
  BY TypeInit, TypeStep, HoldingStep, PTL DEF Spec
----------------------------------------------------------------------------
(* The flag of the batches *)

Within == Phases \ {"idle", "before", "after", "client"}

\* A call moves within syncClientCrons.
Moves(s) ==
  /\ Busy(s)
  /\ \E p \in Within : pc' = [pc EXCEPT ![s] = p]
  /\ UNCHANGED <<isSyncing, batch, alone>>

Returns(s) ==
  /\ Busy(s) /\ Return(s)
  /\ running' \subseteq running

LEMMA AdvanceKinds ==
  ASSUME TypeOK, NEW s \in Syncs, Advance(s)
  PROVE  VisitClient(s) \/ BatchEnd(s) \/ Returns(s) \/ Moves(s)
<1>1. CASE Loop(s)
  <2>1. FindJob(s) => Moves(s)
    BY DEF FindJob, Moves, Within, Phases, Busy
  <2>2. CheckName(s) => Moves(s)
    BY DEF CheckName, Moves, Within, Phases, Busy
  <2>3. NextEntry(s) /\ pc[s] \in {"entry", "name", "update", "upsert"} => Moves(s)
    BY DEF NextEntry, Moves, Within, Phases, Busy
  <2>4. QED
    BY <1>1, <2>1, <2>2, <2>3 DEF Loop, UpdateJob, EntryFails, CreateJob, TakeOverJob
<1>2. CASE Skip(s) \/ Throws(s) \/ StampSync(s) \/ RecordFailure(s) \/ CatchThrows(s)
  BY <1>2 DEF Skip, Throws, StampSync, RecordFailure, CatchThrows, Record, Returns, Busy
<1>3. Proceed(s) => Moves(s)
  BY DEF Proceed, Moves, Within, Phases, Busy
<1>4. CloseOrphans(s) => Moves(s)
  BY DEF CloseOrphans, Moves, Within, Phases, Busy
<1>5. \A r \in Rows : NewRecord(s, r) => Moves(s)
  BY DEF NewRecord, Moves, Within, Phases, Busy
<1>6. \A n \in 0..Len(crontab) : ReadCrontab(s, n) => Moves(s)
  BY DEF ReadCrontab, Moves, Within, Phases, Busy
<1>7. RemoveStale(s) => Moves(s)
  BY DEF RemoveStale, Moves, Within, Phases, Busy
<1>8. Finish(s) => Moves(s)
  BY DEF Finish, Moves, Within, Phases, Busy
<1>9. Fail(s) => Moves(s)
  BY DEF Fail, Moves, Within, Phases, Busy
<1>10. QED
  BY <1>1, <1>2, <1>3, <1>4, <1>5, <1>6, <1>7, <1>8, <1>9 DEF Advance

\* A call between two clients belongs to a batch, one that has not begun to
\* none: BatchEnd releases the flag of its own batch.
FlagInv ==
  /\ BatchesExclude
  /\ \A s \in Syncs : /\ pc[s] \in {"before", "after"} => batch[s]
                      /\ pc[s] = "idle" => ~batch[s]

LEMMA FlagStep == TypeOK /\ FlagInv /\ [Next]_vars => FlagInv'
<1> SUFFICES ASSUME TypeOK, FlagInv, [Next]_vars PROVE FlagInv'
  OBVIOUS
<1>1. ASSUME NEW s \in Syncs, Returns(s) PROVE FlagInv'
  BY <1>1 DEF Returns, Return, FlagInv, BatchesExclude, TypeOK
<1>2. ASSUME NEW s \in Syncs, Moves(s) PROVE FlagInv'
  BY <1>2 DEF Moves, Within, FlagInv, BatchesExclude, TypeOK
<1>3. ASSUME NEW s \in Syncs, SyncOne(s) \/ VisitClient(s) PROVE FlagInv'
  BY <1>3 DEF SyncOne, VisitClient, SyncClientCrons, FlagInv, BatchesExclude, TypeOK
<1>4. ASSUME NEW s \in Syncs, SyncAll(s) PROVE FlagInv'
  BY <1>4 DEF SyncAll, FlagInv, BatchesExclude, TypeOK
<1>5. ASSUME NEW s \in Syncs, BatchEnd(s) PROVE FlagInv'
  BY <1>5 DEF BatchEnd, FlagInv, BatchesExclude, TypeOK
<1>6. CASE Crash
  BY <1>6 DEF Crash, FlagInv, BatchesExclude
<1>7. CASE UNCHANGED <<isSyncing, pc, batch>>
  BY <1>7 DEF FlagInv, BatchesExclude
<1>8. QED
  BY <1>1, <1>2, <1>3, <1>4, <1>5, <1>6, <1>7, AdvanceKinds
  DEF Next, EditCrontab, DeleteJob, vars

\* However batches, single syncs, failures and restarts interleave, two batches
\* never overlap, and the flag is set exactly while one is under way.
THEOREM OneBatch == Spec => []BatchesExclude
<1>1. Init => FlagInv
  BY DEF Init, FlagInv, BatchesExclude
<1>2. FlagInv => BatchesExclude
  BY DEF FlagInv
<1>3. QED
  BY <1>1, <1>2, FlagStep, TypeCorrect, PTL DEF Spec

----------------------------------------------------------------------------
(* The history rows *)

\* A call no other overlapped is the only one at work; it has left nothing
\* RUNNING before it creates its own row.
RowInv ==
  \A s \in Syncs :
    /\ alone[s] => Busy(s) /\ \A t \in Syncs : Busy(t) => t = s
    /\ pc[s] \in {"idle", "before", "client", "close", "record", "after"} => row[s] = NoId
    /\ alone[s] /\ row[s] # NoId => running \subseteq {row[s]}
    /\ alone[s] /\ pc[s] = "record" => running = {}

\* A step after the history row exists leaves the row to the call, and at most
\* closes a row.
KeepsRow(s) ==
  /\ row' = row /\ running' \subseteq running
  /\ pc[s] # "record" /\ pc'[s] # "record" /\ (pc'[s] = "close" => pc[s] = "client")

LEMMA RowKinds ==
  ASSUME TypeOK, NEW s \in Syncs, Advance(s), Moves(s)
  PROVE  CloseOrphans(s) \/ (\E r \in Rows : NewRecord(s, r)) \/ KeepsRow(s)
<1>1. pc \in [Syncs -> Phases]
  BY DEF TypeOK
<1>2. CASE Loop(s)
  <2>1. FindJob(s) => KeepsRow(s)
    BY <1>1 DEF FindJob, KeepsRow
  <2>2. CheckName(s) => KeepsRow(s)
    BY <1>1 DEF CheckName, KeepsRow
  <2>3. NextEntry(s) /\ pc[s] # "record" => KeepsRow(s)
    BY <1>1 DEF NextEntry, KeepsRow
  <2>4. QED
    BY <1>2, <2>1, <2>2, <2>3 DEF Loop, UpdateJob, EntryFails, CreateJob, TakeOverJob
<1>3. Proceed(s) \/ RemoveStale(s) \/ Finish(s) \/ Fail(s) => KeepsRow(s)
  BY <1>1 DEF Proceed, RemoveStale, Finish, Fail, Record, KeepsRow, callVars
<1>4. \A n \in 0..Len(crontab) : ReadCrontab(s, n) => KeepsRow(s)
  BY <1>1 DEF ReadCrontab, KeepsRow
<1>5. ~ (VisitClient(s) \/ BatchEnd(s) \/ Return(s))
  BY <1>1 DEF Moves, Within, Busy, VisitClient, SyncClientCrons, BatchEnd, Return
<1>6. QED
  BY <1>2, <1>3, <1>4, <1>5 DEF Advance, Skip, Throws, StampSync, RecordFailure, CatchThrows

LEMMA RowStep == TypeOK /\ RowInv /\ [Next]_vars => RowInv'
<1> SUFFICES ASSUME TypeOK, RowInv, [Next]_vars PROVE RowInv'
  OBVIOUS
<1>1. ASSUME NEW s \in Syncs, Returns(s) PROVE RowInv'
  <2>1. \A t \in Syncs \ {s} : alone[t] = FALSE
    BY <1>1 DEF Returns, RowInv, TypeOK
  <2>2. \A t \in Syncs : ~ alone'[t]
    BY <1>1, <2>1 DEF Returns, Return, TypeOK
  <2>3. QED
    BY <1>1, <2>2 DEF Returns, Return, Forget, RowInv, TypeOK
<1>2. ASSUME NEW s \in Syncs, Advance(s), Moves(s) PROVE RowInv'
  <2>1. \A t \in Syncs : Busy(t)' <=> Busy(t)
    BY <1>2 DEF Moves, Within, Busy, TypeOK
  <2>2. alone' = alone /\ \A t \in Syncs : alone[t] => t = s
    BY <1>2 DEF Moves, RowInv
  <2>3. CASE CloseOrphans(s)
    BY <2>1, <2>2, <2>3 DEF CloseOrphans, RowInv, TypeOK, callVars
  <2>4. CASE \E r \in Rows : NewRecord(s, r)
    BY <2>1, <2>2, <2>4 DEF NewRecord, RowInv, TypeOK
  <2>5. CASE KeepsRow(s)
    <3>1. \A t \in Syncs \ {s} : pc'[t] = pc[t]
      BY <1>2 DEF Moves, TypeOK
    <3>2. pc'[s] \in Within
      BY <1>2 DEF Moves, TypeOK
    <3>3. QED
      BY <2>1, <2>2, <2>5, <3>1, <3>2 DEF KeepsRow, RowInv, Within, Phases
  <2>6. QED
    BY <1>2, <2>3, <2>4, <2>5, RowKinds
<1>3. ASSUME NEW s \in Syncs, SyncOne(s) \/ VisitClient(s) PROVE RowInv'
  <2>1. \A t \in Syncs : alone'[t] => t = s /\ \A u \in Syncs : ~Busy(u)
    BY <1>3 DEF SyncOne, VisitClient, SyncClientCrons
  <2>2. pc'[s] = "client" /\ row' = row /\ row[s] = NoId
    BY <1>3 DEF SyncOne, VisitClient, SyncClientCrons, RowInv, TypeOK, callVars
  <2>3. \A t \in Syncs \ {s} : pc'[t] = pc[t]
    BY <1>3 DEF SyncOne, VisitClient, SyncClientCrons, TypeOK
  <2>4. QED
    BY <2>1, <2>2, <2>3 DEF RowInv, Busy
<1>4. ASSUME NEW s \in Syncs, SyncAll(s) \/ BatchEnd(s) PROVE RowInv'
  <2>1. /\ pc[s] \in {"idle", "before", "after"} /\ pc'[s] \in {"idle", "before"}
        /\ \A t \in Syncs \ {s} : pc'[t] = pc[t]
        /\ UNCHANGED <<row, running, alone>>
    BY <1>4 DEF SyncAll, BatchEnd, TypeOK, callVars
  <2>2. QED
    BY <2>1 DEF RowInv, Busy
<1>5. CASE Crash
  BY <1>5 DEF Crash, RowInv
<1>6. CASE UNCHANGED <<running, pc, row, alone>>
  BY <1>6 DEF RowInv, Busy
<1>7. QED
  BY <1>1, <1>2, <1>3, <1>4, <1>5, <1>6, AdvanceKinds
  DEF Next, EditCrontab, DeleteJob, vars, callVars

\* Whatever crashed or failed before, while one sync of the client is at work
\* its history shows at most that one as RUNNING.
THEOREM OneRunning == Spec => []OneRunningRow
<1>1. Init => RowInv
  BY DEF Init, RowInv
<1>2. RowInv => OneRunningRow
  BY DEF RowInv, OneRunningRow
<1>3. QED
  BY <1>1, <1>2, RowStep, TypeCorrect, PTL DEF Spec

----------------------------------------------------------------------------
(* Repair *)

\* No two commands have the same name and parameters.
NamesApart == \A c, d \in Commands : BaseName[c] = BaseName[d] => c = d

\* A name begins with the base name of the command of its row, and a call
\* updates a job of the command it has in hand, if it is still there.
NameInv ==
  /\ \A j \in Jobs : Exists(j) => job[j].name[1] = BaseName[job[j].cmd]
  /\ \A s \in Syncs : found[s] \in Jobs /\ Exists(found[s]) =>
       job[found[s]].cmd = Head(left[s]).cmd

\* A row keeps its command for good; a new row's id is one no call remembers.
JobKeeps(j) ==
  /\ Exists(j) /\ Exists(j)' => job'[j].cmd = job[j].cmd
  /\ Exists(j)' => job'[j].name[1] = BaseName[job'[j].cmd]
  /\ Exists(j)' /\ ~Exists(j) => \A s \in Syncs : found[s] # j /\ j \notin processed[s]

LEMMA SameRow ==
  ASSUME NameInv, NEW j \in Jobs, job'[j] = job[j]
  PROVE  JobKeeps(j)
BY DEF NameInv, JobKeeps, Exists

LEMMA KeepsUpdate ==
  ASSUME TypeOK, Holding, NameInv, NEW s \in Syncs, UpdateJob(s)
  PROVE  \A j \in Jobs : JobKeeps(j)
<1> DEFINE f == found[s]
<1>1. f \in Jobs /\ left[s] # <<>> /\ Exists(f)
  BY DEF UpdateJob, Updatable, Holding
<1>2. job' = [job EXCEPT ![f] = Updated(s)] /\ DOMAIN job = Jobs
  BY DEF UpdateJob, TypeOK
<1>3. Updated(s).cmd = job[f].cmd
      /\ Updated(s).name \in {InHand(s), job[f].name}
  BY DEF Updated
<1>4. job[f].cmd = Head(left[s]).cmd /\ job[f].name[1] = BaseName[job[f].cmd]
  BY <1>1 DEF NameInv
<1>5. InHand(s)[1] = BaseName[Head(left[s]).cmd]
  BY <1>1, EntryInHand
<1>6. job'[f].cmd = job[f].cmd /\ job'[f].name[1] = BaseName[job'[f].cmd]
  BY <1>1, <1>2, <1>3, <1>4, <1>5
<1>7. JobKeeps(f)
  BY <1>1, <1>6 DEF JobKeeps
<1>8. \A j \in Jobs \ {f} : job'[j] = job[j]
  BY <1>2
<1>9. QED
  BY <1>7, <1>8, SameRow

LEMMA KeepsCreate ==
  ASSUME TypeOK, Holding, NameInv, NEW s \in Syncs, NEW j \in Jobs, CreateJob(s, j)
  PROVE  \A k \in Jobs : JobKeeps(k)
<1>1. left[s] # <<>> /\ ~Exists(j) /\ \A t \in Syncs : found[t] # j /\ j \notin processed[t]
  BY DEF CreateJob, FreeJobs, Holding
<1>2. DOMAIN job = Jobs
  BY DEF TypeOK
<1>3. job'[j].cmd = Head(left[s]).cmd /\ job'[j].name = InHand(s)
  BY <1>2 DEF CreateJob
<1>4. JobKeeps(j)
  BY <1>1, <1>3, EntryInHand DEF JobKeeps
<1>5. \A k \in Jobs \ {j} : job'[k] = job[k]
  BY <1>2 DEF CreateJob
<1>6. QED
  BY <1>4, <1>5, SameRow

LEMMA KeepsTakeOver ==
  ASSUME NamesApart, TypeOK, Holding, NameInv, NEW s \in Syncs, NEW j \in Jobs,
         TakeOverJob(s, j)
  PROVE  \A k \in Jobs : JobKeeps(k)
<1>1. left[s] # <<>> /\ Exists(j) /\ job[j].name = InHand(s)
  BY DEF TakeOverJob, Holding
<1>2. DOMAIN job = Jobs /\ job[j] \in JobRow
  BY <1>1 DEF TypeOK, Exists
<1>3. job'[j].cmd = Head(left[s]).cmd /\ job'[j].name = InHand(s)
  BY <1>1, <1>2 DEF TakeOverJob
<1>4. Head(left[s]).cmd \in Commands /\ job[j].cmd \in Commands
  BY <1>1, <1>2, EntryInHand DEF Lines, JobRow
<1>5. BaseName[job[j].cmd] = BaseName[Head(left[s]).cmd]
  BY <1>1, EntryInHand DEF NameInv
<1>6. JobKeeps(j)
  BY <1>1, <1>3, <1>4, <1>5, EntryInHand DEF JobKeeps, NamesApart
<1>7. \A k \in Jobs \ {j} : job'[k] = job[k]
  BY <1>2 DEF TakeOverJob
<1>8. QED
  BY <1>6, <1>7, SameRow

LEMMA KeepsStale ==
  ASSUME TypeOK, NameInv, NEW s \in Syncs, RemoveStale(s)
  PROVE  \A k \in Jobs : JobKeeps(k)
<1>1. ASSUME NEW k \in Jobs, k \in Stale(s) PROVE JobKeeps(k)
  <2>1. ~Exists(k)'
    BY <1>1 DEF RemoveStale, Exists
  <2>2. QED
    BY <2>1 DEF JobKeeps
<1>2. ASSUME NEW k \in Jobs, k \notin Stale(s) PROVE job'[k] = job[k]
  BY <1>2 DEF RemoveStale
<1>3. QED
  BY <1>1, <1>2, SameRow

LEMMA KeepsDelete ==
  ASSUME TypeOK, NameInv, NEW j \in Jobs, DeleteJob(j)
  PROVE  \A k \in Jobs : JobKeeps(k)
<1>1. DOMAIN job = Jobs /\ Exists(j)
  BY DEF TypeOK, DeleteJob
<1>2. job'[j].cmd = job[j].cmd /\ job'[j].name = job[j].name
  BY <1>1 DEF DeleteJob
<1>3. JobKeeps(j)
  BY <1>1, <1>2 DEF JobKeeps, NameInv
<1>4. \A k \in Jobs \ {j} : job'[k] = job[k]
  BY <1>1 DEF DeleteJob
<1>5. QED
  BY <1>3, <1>4, SameRow

Writes(s) ==
  \/ UpdateJob(s) \/ RemoveStale(s)
  \/ \E j \in Jobs : CreateJob(s, j) \/ TakeOverJob(s, j)

\* Everything else leaves the table alone.
LEMMA OnlyWrites ==
  ASSUME [Next]_vars
  PROVE  job' = job \/ (\E j \in Jobs : DeleteJob(j)) \/ \E s \in Syncs : Writes(s)
BY DEF Next, EditCrontab, Crash, SyncOne, SyncAll, SyncClientCrons, Advance, VisitClient,
       BatchEnd, Skip, Proceed, CloseOrphans, Throws, NewRecord, ReadCrontab, Loop, FindJob,
       CheckName, EntryFails, Finish, StampSync, Fail, RecordFailure, CatchThrows, vars, Writes

LEMMA RowsKeep ==
  ASSUME NamesApart, TypeOK, Holding, NameInv, [Next]_vars
  PROVE  \A j \in Jobs : JobKeeps(j)
BY OnlyWrites, SameRow, KeepsDelete, KeepsUpdate, KeepsCreate, KeepsTakeOver, KeepsStale
DEF Writes

\* A call loses the job in hand with the entry, and finds one with a query.
Hand(t) == found'[t] = found[t] /\ left'[t] = left[t]

LEMMA HandKinds ==
  ASSUME TypeOK, [Next]_vars, NEW t \in Syncs
  PROVE  Hand(t) \/ found'[t] = NoId \/ FindJob(t) \/ (\E n \in Nat : ReadCrontab(t, n))
<1>1. ASSUME NEW s \in Syncs, Advance(s)
      PROVE  Hand(t) \/ found'[t] = NoId \/ FindJob(t) \/ (\E n \in Nat : ReadCrontab(t, n))
  <2>1. FindJob(s) => Hand(t) \/ FindJob(t)
    BY DEF FindJob, Hand, TypeOK
  <2>2. CheckName(s) => Hand(t)
    BY DEF CheckName, Hand, TypeOK
  <2>3. NextEntry(s) => Hand(t) \/ found'[t] = NoId
    BY DEF NextEntry, Hand, TypeOK
  <2>4. Return(s) => Hand(t) \/ found'[t] = NoId
    BY DEF Return, Forget, Hand, TypeOK
  <2>5. ASSUME NEW n \in 0..Len(crontab), ReadCrontab(s, n)
        PROVE  Hand(t) \/ ReadCrontab(t, n)
    BY <2>5 DEF ReadCrontab, Hand, TypeOK
  <2>6. CASE UNCHANGED callVars \/ \E r \in Rows : NewRecord(s, r)
    BY <2>6 DEF callVars, NewRecord, Hand
  <2>7. QED
    BY <1>1, <2>1, <2>2, <2>3, <2>4, <2>5, <2>6
    DEF Advance, Loop, VisitClient, SyncClientCrons, BatchEnd, Skip, Proceed, CloseOrphans,
        Throws, UpdateJob, CreateJob, TakeOverJob, EntryFails, RemoveStale, Finish,
        StampSync, Fail, RecordFailure, CatchThrows
<1>2. CASE Crash
  BY <1>2 DEF Crash
<1>3. CASE UNCHANGED callVars
  BY <1>3 DEF callVars, Hand
<1>4. QED
  BY <1>1, <1>2, <1>3
  DEF Next, SyncOne, SyncAll, SyncClientCrons, EditCrontab, DeleteJob, vars

LEMMA NameStep ==
  ASSUME NamesApart, TypeOK, Holding, NameInv, [Next]_vars
  PROVE  NameInv'
<1>1. \A j \in Jobs : JobKeeps(j)
  BY RowsKeep
<1>2. ASSUME NEW t \in Syncs, found'[t] \in Jobs, Exists(found[t])'
      PROVE  job'[found'[t]].cmd = Head(left'[t]).cmd
  <2>1. CASE Hand(t)
    <3> DEFINE f == found[t]
    <3>1. f \in Jobs /\ found'[t] = f /\ Exists(f)' /\ left'[t] = left[t]
      BY <1>2, <2>1 DEF Hand, Exists
    <3>2. Exists(f) /\ job'[f].cmd = job[f].cmd
      BY <1>1, <3>1 DEF JobKeeps
    <3>3. QED
      BY <3>1, <3>2 DEF NameInv
  <2>2. CASE FindJob(t)
    <3>1. found'[t] = NoId \/ found'[t] \in Matching(Head(left[t]).cmd)
      BY <2>2 DEF FindJob, TypeOK
    <3>2. UNCHANGED <<job, left>>
      BY <2>2 DEF FindJob
    <3>3. QED
      BY <1>2, <3>1, <3>2, NotARow DEF Matching
  <2>3. CASE \E n \in Nat : ReadCrontab(t, n)
    BY <1>2, <2>3, NotARow DEF ReadCrontab, Holding
  <2>4. QED
    BY <1>2, <2>1, <2>2, <2>3, HandKinds, NotARow
<1>3. \A j \in Jobs : Exists(j)' => job'[j].name[1] = BaseName[job'[j].cmd]
  BY <1>1 DEF JobKeeps
<1>4. QED
  BY <1>2, <1>3 DEF NameInv, Exists

Early == {"idle", "before", "after", "client", "close", "record", "ssh"}
InLoop == {"entry", "name", "update", "upsert"}

HasJob(S, l) == \E j \in S : Exists(j) /\ job[j].cmd = l.cmd
Discovered(s, j) == [cmd |-> job[j].cmd, sched |-> job[j].sched] \in Range(read[s])

\* Between the read and the deletion: a line that is not still to come has a
\* processed job, a processed job is that of a line, and the update in hand is
\* of an existing job that needs no other change.
LoopInv(s) ==
  /\ Range(left[s]) \subseteq Range(read[s])
  /\ ~failed[s] => \A l \in Range(read[s]) : l \in Range(left[s]) \/ HasJob(processed[s], l)
  /\ \A j \in processed[s] : Exists(j) => Discovered(s, j)
  /\ pc[s] \in {"name", "update"} =>
       /\ Exists(found[s])
       /\ "sched" \notin change[s] => job[found[s]].sched = Head(left[s]).sched

EndInv(s) ==
  /\ \A j \in Jobs : Exists(j) /\ job[j].live => Discovered(s, j)
  /\ ~failed[s] => \A l \in Range(read[s]) : HasJob(Jobs, l)

AloneInv(s) ==
  alone[s] => /\ pc[s] \in InLoop => LoopInv(s)
              /\ pc[s] \in {"finish", "stamp"} => EndInv(s)

RepairInv == \A s \in Syncs : (pc[s] \in Early => processed[s] = {}) /\ AloneInv(s)

LEMMA HeadAndTail ==
  ASSUME NEW q \in Seq(Lines), q # <<>>
  PROVE  Head(q) \in Range(q) /\ \A l \in Range(q) : l = Head(q) \/ l \in Range(Tail(q))
<1>1. Len(q) \in Nat \ {0} /\ DOMAIN q = 1..Len(q) /\ Head(q) = q[1]
  BY HeadTailProperties, LenProperties
<1>2. Len(Tail(q)) = Len(q) - 1 /\ DOMAIN Tail(q) = 1..(Len(q) - 1)
  BY HeadTailProperties, LenProperties
<1>3. \A i \in 1..(Len(q) - 1) : Tail(q)[i] = q[i + 1]
  BY HeadTailProperties
<1>4. ASSUME NEW i \in DOMAIN q, i # 1 PROVE q[i] \in Range(Tail(q))
  <2>1. i - 1 \in DOMAIN Tail(q) /\ Tail(q)[i - 1] = q[i]
    BY <1>1, <1>2, <1>3, <1>4
  <2>2. QED
    BY <2>1 DEF Range
<1>5. QED
  BY <1>1, <1>4 DEF Range

LEMMA TailWithin ==
  ASSUME NEW q \in Seq(Lines), q # <<>>
  PROVE  Range(Tail(q)) \subseteq Range(q)
<1>1. Len(q) \in Nat \ {0} /\ DOMAIN q = 1..Len(q)
  BY HeadTailProperties, LenProperties
<1>2. Len(Tail(q)) = Len(q) - 1 /\ DOMAIN Tail(q) = 1..(Len(q) - 1)
  BY HeadTailProperties, LenProperties
<1>3. \A i \in 1..(Len(q) - 1) : Tail(q)[i] = q[i + 1] /\ i + 1 \in DOMAIN q
  BY <1>1, HeadTailProperties
<1>4. QED
  BY <1>2, <1>3 DEF Range

\* An entry done: it leaves the list, and job j has its command and schedule.
LEMMA EntryDone ==
  ASSUME TypeOK, NEW s \in Syncs, left[s] # <<>>, LoopInv(s), NextEntry(s),
         NEW j \in Jobs, Process(s, j), failed' = failed,
         Exists(j)', JobKeeps(j), \A k \in Jobs \ {j} : job'[k] = job[k],
         job'[j].cmd = Head(left[s]).cmd, job'[j].sched = Head(left[s]).sched
  PROVE  LoopInv(s)'
<1> DEFINE h == Head(left[s])
<1>1. h \in Lines /\ h \in Range(read[s])
  BY EntryInHand, HeadAndTail DEF LoopInv, TypeOK
<1>2. /\ left'[s] = Tail(left[s]) /\ processed'[s] = processed[s] \cup {j}
      /\ processed[s] \subseteq Jobs /\ read'[s] = read[s] /\ pc'[s] = "entry"
  BY DEF NextEntry, Process, TypeOK
<1>3. ASSUME ~failed[s], NEW l \in Range(read[s])
      PROVE  l \in Range(left'[s]) \/ HasJob(processed[s], l)'
  <2>1. CASE l = h
    BY <1>2, <2>1 DEF HasJob
  <2>2. CASE l \in Range(Tail(left[s]))
    BY <1>2, <2>2
  <2>3. CASE HasJob(processed[s], l)
    <3>1. PICK k \in processed[s] : Exists(k) /\ job[k].cmd = l.cmd
      BY <2>3 DEF HasJob
    <3>2. Exists(k)' /\ job'[k].cmd = l.cmd
      BY <1>2, <3>1 DEF JobKeeps, Exists
    <3>3. QED
      BY <1>2, <3>1, <3>2 DEF HasJob
  <2>4. QED
    BY <1>3, <2>1, <2>2, <2>3, HeadAndTail DEF LoopInv, TypeOK
<1>4. ASSUME NEW k \in processed'[s], Exists(k)' PROVE Discovered(s, k)'
  <2>1. CASE k = j
    <3>1. [cmd |-> job'[j].cmd, sched |-> job'[j].sched] = h
      BY <1>1 DEF Lines
    <3>2. QED
      BY <1>1, <1>2, <2>1, <3>1 DEF Discovered
  <2>2. CASE k # j
    BY <1>2, <1>4, <2>2 DEF LoopInv, Discovered, Exists
  <2>3. QED
    BY <2>1, <2>2
<1>5. Range(left'[s]) \subseteq Range(read'[s])
  BY <1>2, TailWithin DEF LoopInv, TypeOK
<1>6. QED
  BY <1>2, <1>3, <1>4, <1>5 DEF LoopInv

LEMMA LoopStep ==
  ASSUME NamesApart, TypeOK, Holding, NameInv, NEW s \in Syncs, LoopInv(s), Loop(s),
         \A j \in Jobs : JobKeeps(j)
  PROVE  LoopInv(s)' /\ pc'[s] \in InLoop
<1>1. ASSUME FindJob(s) PROVE LoopInv(s)' /\ pc'[s] \in InLoop
  <2>1. UNCHANGED <<job, read, left, processed, failed>> /\ left[s] # <<>>
    BY <1>1 DEF FindJob
  <2>2. \/ pc'[s] = "upsert"
        \/ \E j \in Jobs : /\ Exists(j) /\ found'[s] = j /\ pc'[s] \in {"name", "update"}
                           /\ "sched" \notin change'[s] => job[j].sched = Head(left[s]).sched
    BY <1>1 DEF FindJob, Matching, TypeOK
  <2>3. pc'[s] \in {"name", "update"} =>
          /\ job'[found'[s]] # NoRow
          /\ "sched" \notin change'[s] => job'[found'[s]].sched = Head(left'[s]).sched
    BY <2>1, <2>2 DEF Exists
  <2>4. QED
    BY <2>1, <2>2, <2>3 DEF LoopInv, HasJob, Discovered, Exists, InLoop
<1>2. ASSUME CheckName(s) PROVE LoopInv(s)' /\ pc'[s] \in InLoop
  <2>1. UNCHANGED <<job, read, left, found, processed, failed>> /\ pc[s] = "name"
        /\ pc'[s] = "update" /\ change[s] \subseteq change'[s]
    BY <1>2 DEF CheckName, TypeOK
  <2>2. QED
    BY <2>1 DEF LoopInv, HasJob, Discovered, Exists, InLoop
<1>3. ASSUME NextEntry(s) PROVE pc'[s] \in InLoop
  BY <1>3 DEF NextEntry, InLoop, TypeOK
<1>4. ASSUME UpdateJob(s) PROVE LoopInv(s)'
  <2>1. PICK f \in Jobs : f = found[s]
    BY <1>4 DEF UpdateJob, Holding
  <2>2. left[s] # <<>> /\ Exists(f) /\ pc[s] = "update"
    BY <1>4, <2>1 DEF UpdateJob, Updatable, Holding
  <2>3. job' = [job EXCEPT ![f] = Updated(s)] /\ DOMAIN job = Jobs
    BY <1>4, <2>1 DEF UpdateJob, TypeOK
  <2>4. job[f].cmd = Head(left[s]).cmd /\ job[f] \in JobRow
    BY <2>1, <2>2 DEF NameInv, TypeOK, Exists
  <2>5. Updated(s) \in JobRow /\ Updated(s).cmd = job[f].cmd
        /\ Updated(s).sched = Head(left[s]).sched
    BY <2>1, <2>2, <2>4, EntryInHand DEF Updated, LoopInv, JobRow, Lines
  <2>6. job'[f] = Updated(s)
    BY <2>3
  <2>7. /\ Exists(f)' /\ job'[f].cmd = Head(left[s]).cmd
        /\ job'[f].sched = Head(left[s]).sched
    BY <2>4, <2>5, <2>6, NotARow DEF Exists
  <2>8. QED
    BY <1>4, <2>1, <2>2, <2>3, <2>7, EntryDone DEF UpdateJob
<1>5. ASSUME NEW j \in Jobs, CreateJob(s, j) PROVE LoopInv(s)'
  <2>1. left[s] # <<>> /\ DOMAIN job = Jobs
    BY <1>5 DEF CreateJob, Holding, TypeOK
  <2> DEFINE new == [cmd |-> Head(left[s]).cmd, name |-> InHand(s),
                     sched |-> Head(left[s]).sched, live |-> TRUE]
  <2>2. new \in JobRow
    BY <2>1, EntryInHand DEF JobRow, Lines
  <2>3. job' = [job EXCEPT ![j] = new]
    BY <1>5 DEF CreateJob
  <2>4. job'[j] = new /\ Exists(j)'
    BY <2>1, <2>2, <2>3, NotARow DEF Exists
  <2>5. QED
    BY <1>5, <2>1, <2>3, <2>4, EntryDone DEF CreateJob
<1>6. ASSUME NEW j \in Jobs, TakeOverJob(s, j) PROVE LoopInv(s)'
  <2>1. left[s] # <<>> /\ DOMAIN job = Jobs /\ job[j] \in JobRow
    BY <1>6 DEF TakeOverJob, Holding, TypeOK, Exists
  <2> DEFINE new == [cmd |-> Head(left[s]).cmd, name |-> job[j].name,
                     sched |-> Head(left[s]).sched, live |-> job[j].live]
  <2>2. new \in JobRow
    BY <2>1, EntryInHand DEF JobRow, Lines
  <2>3. job' = [job EXCEPT ![j] = new]
    BY <1>6 DEF TakeOverJob
  <2>4. job'[j] = new /\ Exists(j)'
    BY <2>1, <2>2, <2>3, NotARow DEF Exists
  <2>5. QED
    BY <1>6, <2>1, <2>3, <2>4, EntryDone DEF TakeOverJob
<1>7. ASSUME EntryFails(s) PROVE LoopInv(s)'
  <2>1. left[s] # <<>>
    BY <1>7 DEF EntryFails, Holding
  <2>2. /\ left'[s] = Tail(left[s]) /\ UNCHANGED <<job, processed, read>>
        /\ failed'[s] /\ pc'[s] = "entry"
    BY <1>7 DEF EntryFails, NextEntry, TypeOK
  <2>3. Range(left'[s]) \subseteq Range(read[s])
    BY <2>1, <2>2, TailWithin DEF LoopInv, TypeOK
  <2>4. QED
    BY <2>2, <2>3 DEF LoopInv, Discovered, Exists
<1>8. QED
  BY <1>1, <1>2, <1>3, <1>4, <1>5, <1>6, <1>7
  DEF Loop, UpdateJob, CreateJob, TakeOverJob, EntryFails

LEMMA ReadStep ==
  ASSUME TypeOK, NEW s \in Syncs, NEW n, ReadCrontab(s, n), processed[s] = {}
  PROVE  LoopInv(s)' /\ pc'[s] = "entry"
<1>1. /\ left'[s] = read'[s] /\ processed'[s] = {} /\ pc'[s] = "entry"
  BY DEF ReadCrontab, TypeOK
<1>2. QED
  BY <1>1 DEF LoopInv

LEMMA StaleStep ==
  ASSUME TypeOK, NEW s \in Syncs, LoopInv(s), RemoveStale(s)
  PROVE  EndInv(s)' /\ pc'[s] = "finish"
<1>1. /\ left[s] = <<>> /\ UNCHANGED <<read, failed>> /\ pc'[s] = "finish"
      /\ processed[s] \subseteq Jobs
  BY DEF RemoveStale, callVars, TypeOK
<1>2. Range(left[s]) = {}
  BY <1>1 DEF Range
<1>3. \A j \in Jobs : job'[j] = IF j \in Stale(s) THEN NoRow ELSE job[j]
  BY DEF RemoveStale
<1>4. ASSUME NEW j \in Jobs, Exists(j)', job'[j].live PROVE Discovered(s, j)'
  <2>1. job'[j] = job[j] /\ Exists(j) /\ j \in processed[s]
    BY <1>3, <1>4 DEF Exists, Stale
  <2>2. QED
    BY <1>1, <2>1 DEF LoopInv, Discovered
<1>5. ASSUME ~failed[s], NEW l \in Range(read[s]) PROVE HasJob(Jobs, l)'
  <2>1. PICK j \in processed[s] : Exists(j) /\ job[j].cmd = l.cmd
    BY <1>2, <1>5 DEF LoopInv, HasJob
  <2>2. job'[j] = job[j]
    BY <1>1, <1>3, <2>1 DEF Stale
  <2>3. QED
    BY <1>1, <2>1, <2>2 DEF HasJob, Exists
<1>6. QED
  BY <1>1, <1>4, <1>5 DEF EndInv

\* One call never writes the local variables of another.
LEMMA OthersWait ==
  ASSUME TypeOK, NEW s \in Syncs, Advance(s), NEW t \in Syncs \ {s}
  PROVE  pc'[t] = pc[t] /\ processed'[t] = processed[t]
<1>1. CASE Loop(s)
  BY <1>1 DEF Loop, FindJob, CheckName, UpdateJob, CreateJob, TakeOverJob, EntryFails,
     NextEntry, Process, TypeOK
<1>2. CASE Return(s)
  BY <1>2 DEF Return, Forget, TypeOK
<1>3. CASE ~ Loop(s) /\ ~ Return(s)
  BY <1>3 DEF Advance, VisitClient, SyncClientCrons, BatchEnd, Skip, Proceed, CloseOrphans,
     Throws, NewRecord, ReadCrontab, RemoveStale, Finish, StampSync, Fail, RecordFailure,
     CatchThrows, TypeOK, callVars
<1>4. QED
  BY <1>1, <1>2, <1>3

LEMMA RepairMoves ==
  ASSUME NamesApart, TypeOK, Holding, NameInv, NEW s \in Syncs, Advance(s), Moves(s),
         pc[s] \in Early => processed[s] = {}, AloneInv(s), \A j \in Jobs : JobKeeps(j)
  PROVE  (pc'[s] \in Early => processed'[s] = {}) /\ AloneInv(s)'
<1>1. alone'[s] = alone[s] /\ DOMAIN pc = Syncs /\ pc'[s] \in Within
  BY DEF Moves, TypeOK
<1>2. CASE Loop(s)
  <2>1. pc'[s] \in InLoop
    BY <1>2, <1>1 DEF Loop, FindJob, CheckName, UpdateJob, CreateJob, TakeOverJob, EntryFails,
       NextEntry, InLoop
  <2>2. pc[s] \in InLoop
    BY <1>2 DEF Loop, FindJob, CheckName, UpdateJob, CreateJob, TakeOverJob, EntryFails, InLoop
  <2>3. alone[s] => LoopInv(s)'
    BY <1>2, <2>2, LoopStep DEF AloneInv
  <2>4. QED
    BY <1>1, <2>1, <2>3 DEF AloneInv, Early, InLoop
<1>3. CASE Proceed(s) \/ CloseOrphans(s) \/ Fail(s) \/ \E r \in Rows : NewRecord(s, r)
  <2>1. /\ pc'[s] \in {"close", "record", "ssh", "catch"} /\ processed' = processed
        /\ pc[s] \in {"client", "close", "record"} \/ pc'[s] = "catch"
    BY <1>1, <1>3 DEF Proceed, CloseOrphans, Fail, NewRecord, callVars
  <2>2. QED
    BY <2>1 DEF AloneInv, Early, InLoop
<1>4. CASE \E n \in 0..Len(crontab) : ReadCrontab(s, n)
  <2>1. processed[s] = {}
    BY <1>4 DEF ReadCrontab, Early
  <2>2. LoopInv(s)' /\ pc'[s] = "entry"
    BY <1>4, <2>1, ReadStep
  <2>3. QED
    BY <2>2 DEF AloneInv, Early
<1>5. CASE RemoveStale(s)
  <2>1. pc[s] = "entry" /\ pc'[s] = "finish"
    BY <1>1, <1>5 DEF RemoveStale
  <2>2. alone[s] => EndInv(s)'
    BY <1>5, <2>1, StaleStep DEF AloneInv, InLoop
  <2>3. QED
    BY <1>1, <2>1, <2>2 DEF AloneInv, Early, InLoop
<1>6. CASE Finish(s)
  <2>1. pc[s] = "finish" /\ pc'[s] = "stamp" /\ UNCHANGED <<job, read, failed>>
    BY <1>1, <1>6 DEF Finish, callVars
  <2>2. EndInv(s) => EndInv(s)'
    BY <2>1 DEF EndInv, HasJob, Discovered, Exists
  <2>3. QED
    BY <1>1, <2>1, <2>2 DEF AloneInv, Early, InLoop
<1>7. ~ (VisitClient(s) \/ BatchEnd(s) \/ Return(s))
  BY <1>1 DEF Moves, Within, Busy, VisitClient, SyncClientCrons, BatchEnd, Return
<1>8. QED
  BY <1>2, <1>3, <1>4, <1>5, <1>6, <1>7
  DEF Advance, Skip, Throws, StampSync, RecordFailure, CatchThrows

LEMMA RepairStep ==
  ASSUME NamesApart, TypeOK, Holding, NameInv, RowInv, RepairInv, [Next]_vars
  PROVE  RepairInv'
<1>1. ASSUME NEW s \in Syncs, Returns(s), Advance(s) PROVE RepairInv'
  <2>1. \A t \in Syncs \ {s} : alone[t] = FALSE
    BY <1>1 DEF Returns, RowInv, TypeOK
  <2>2. \A t \in Syncs : ~ alone'[t]
    BY <1>1, <2>1 DEF Returns, Return, TypeOK
  <2>3. processed'[s] = {}
    BY <1>1 DEF Returns, Return, Forget, TypeOK
  <2>4. QED
    BY <1>1, <2>2, <2>3, OthersWait DEF RepairInv, AloneInv
<1>2. ASSUME NEW s \in Syncs, Moves(s), Advance(s) PROVE RepairInv'
  <2>1. \A t \in Syncs \ {s} : ~ alone'[t]
    BY <1>2 DEF Moves, RowInv
  <2>2. (pc'[s] \in Early => processed'[s] = {}) /\ AloneInv(s)'
    BY <1>2, RepairMoves, RowsKeep DEF RepairInv
  <2>3. QED
    BY <1>2, <2>1, <2>2, OthersWait DEF RepairInv, AloneInv
<1>3. ASSUME NEW s \in Syncs, SyncOne(s) \/ VisitClient(s) PROVE RepairInv'
  <2>1. /\ \A t \in Syncs : alone'[t] => t = s
        /\ \A t \in Syncs \ {s} : pc'[t] = pc[t]
        /\ pc[s] \in {"idle", "before"} /\ pc'[s] = "client" /\ processed' = processed
    BY <1>3 DEF SyncOne, VisitClient, SyncClientCrons, TypeOK, callVars
  <2>2. QED
    BY <2>1 DEF RepairInv, AloneInv, Early, InLoop
<1>4. ASSUME NEW s \in Syncs, SyncAll(s) \/ BatchEnd(s) PROVE RepairInv'
  <2>1. /\ pc[s] \in {"idle", "before", "after"} /\ pc'[s] \in {"idle", "before"}
        /\ \A t \in Syncs \ {s} : pc'[t] = pc[t]
        /\ UNCHANGED <<job, callVars, alone>>
    BY <1>4 DEF SyncAll, BatchEnd, TypeOK
  <2>2. \A t \in Syncs \ {s} : AloneInv(t)'
    BY <2>1 DEF RepairInv, AloneInv, LoopInv, EndInv, HasJob, Discovered, Exists, callVars
  <2>3. QED
    BY <2>1, <2>2 DEF RepairInv, AloneInv, Early, InLoop, callVars
<1>5. CASE Crash
  BY <1>5 DEF Crash, RepairInv, AloneInv
<1>6. CASE UNCHANGED <<job, pc, callVars, alone>>
  BY <1>6 DEF RepairInv, AloneInv, LoopInv, EndInv, HasJob, Discovered, Exists, callVars
<1>7. ASSUME NEW j \in Jobs, DeleteJob(j) PROVE RepairInv'
  <2>1. UNCHANGED <<pc, callVars, alone>> /\ DOMAIN job = Jobs /\ Exists(j) /\ job[j] \in JobRow
    BY <1>7 DEF DeleteJob, TypeOK, Exists
  <2>2. \A k \in Jobs \ {j} : job'[k] = job[k]
    BY <1>7 DEF DeleteJob, TypeOK
  <2>3. job'[j].cmd = job[j].cmd /\ job'[j].sched = job[j].sched /\ ~ job'[j].live
    BY <1>7, <2>1 DEF DeleteJob
  <2>4. job'[j] # NoRow
    <3>1. job'[j] \in JobRow
      BY <1>7, <2>1 DEF DeleteJob, JobRow
    <3>2. QED
      BY <3>1, NotARow
  <2>5. \A k \in Jobs : /\ Exists(k)' <=> Exists(k)
                        /\ job'[k].cmd = job[k].cmd /\ job'[k].sched = job[k].sched
                        /\ Exists(k) /\ job'[k].live => job[k].live
    BY <2>1, <2>2, <2>3, <2>4 DEF Exists
  <2>6. ASSUME NEW s \in Syncs, LoopInv(s) PROVE LoopInv(s)'
    <3>1. processed[s] \subseteq Jobs /\ (pc[s] \in {"name", "update"} => found[s] \in Jobs)
      BY DEF TypeOK, Holding
    <3>2. QED
      BY <2>1, <2>5, <2>6, <3>1 DEF LoopInv, HasJob, Discovered, Exists, callVars
  <2>7. ASSUME NEW s \in Syncs, EndInv(s) PROVE EndInv(s)'
    BY <2>1, <2>5, <2>7 DEF EndInv, HasJob, Discovered, callVars
  <2>8. QED
    BY <2>1, <2>6, <2>7 DEF RepairInv, AloneInv, callVars
<1>8. QED
  BY <1>1, <1>2, <1>3, <1>4, <1>5, <1>6, <1>7, AdvanceKinds DEF Next, EditCrontab, vars

\* If no two commands share a name, a sync without errors that no other call
\* overlaps leaves only live jobs of the lines it read, with their schedules,
\* and a job for each of their commands, whatever overlapping and interrupted
\* syncs did before.
THEOREM Repairs == NamesApart => (Spec => []SyncRepairs)
<1> SUFFICES ASSUME NamesApart PROVE Spec => []SyncRepairs
  OBVIOUS
<1>1. Init => TypeOK /\ Holding /\ NameInv /\ RowInv /\ RepairInv
  <2>1. Init => NameInv
    BY NotARow DEF Init, NameInv, Exists
  <2>2. Init => RowInv /\ RepairInv
    BY DEF Init, RowInv, RepairInv, AloneInv
  <2>3. QED
    BY <2>1, <2>2, TypeInit
<1>2. TypeOK /\ Holding /\ NameInv /\ RowInv /\ RepairInv /\ [Next]_vars
        => TypeOK' /\ Holding' /\ NameInv' /\ RowInv' /\ RepairInv'
  BY TypeStep, HoldingStep, NameStep, RowStep, RepairStep
<1>3. RepairInv => SyncRepairs
  BY DEF RepairInv, AloneInv, EndInv, HasJob, Discovered, SyncRepairs
<1>4. QED
  BY <1>1, <1>2, <1>3, PTL DEF Spec

----------------------------------------------------------------------------
(* When a discovered job is kept *)

\* A call that does not fail: a line no longer to come has left no live job of
\* its command that is not processed, the row in hand is the only live one of its
\* command, and what it is about to write nothing can refuse.
CallKeeps(s) ==
  pc[s] \in InLoop =>
    /\ \A l \in Range(read[s]) : l \in Range(left[s]) \/ Matching(l.cmd) \subseteq processed[s]
    /\ pc[s] \in {"name", "update"} =>
         Exists(found[s]) /\ Matching(Head(left[s]).cmd) \subseteq {found[s]}
    /\ "name" \in change[s] => /\ pc[s] # "name"
                               /\ pc[s] = "update" => ~NameTaken(InHand(s), found[s])
    /\ pc[s] = "upsert" => Matching(Head(left[s]).cmd) = {}

OneLive == \A c \in Commands : \A j, k \in Matching(c) : j = k

KeptInv == (\A s \in Syncs : CallKeeps(s)) /\ OneLive

\* No live row of a command is added to a table in which every row keeps it.
NothingAdded ==
  \A j \in Jobs : Exists(j)' /\ job'[j].live =>
    Exists(j) /\ job[j].live /\ job'[j].cmd = job[j].cmd

LEMMA MatchingShrinks ==
  ASSUME NothingAdded
  PROVE  /\ \A c : Matching(c)' \subseteq Matching(c)
         /\ OneLive => OneLive'
<1>1. ASSUME NEW c, NEW j \in Matching(c)' PROVE j \in Matching(c)
  BY <1>1 DEF NothingAdded, Matching, Exists
<1>2. QED
  BY <1>1 DEF OneLive

\* The entry in hand is done: what is live of its command is processed.
LEMMA EntryKept ==
  ASSUME TypeOK, NEW s \in Syncs, pc[s] \in InLoop, CallKeeps(s), left[s] # <<>>,
         NextEntry(s), NEW j \in Jobs, Process(s, j),
         \A k \in Jobs \ {j} : job'[k] = job[k],
         Matching(Head(left[s]).cmd) \subseteq {j},
         job'[j].cmd = Head(left[s]).cmd
  PROVE  CallKeeps(s)'
<1> DEFINE h == Head(left[s])
<1>1. /\ left'[s] = Tail(left[s]) /\ processed'[s] = processed[s] \cup {j}
      /\ read'[s] = read[s] /\ pc'[s] = "entry" /\ change'[s] = {}
  BY DEF NextEntry, Process, TypeOK
<1>2. ASSUME NEW l \in Range(read[s])
      PROVE  l \in Range(left'[s]) \/ Matching(l.cmd)' \subseteq processed'[s]
  <2>1. Matching(l.cmd)' \subseteq Matching(l.cmd) \cup {j}
    BY DEF Matching, Exists
  <2>2. CASE l \in Range(Tail(left[s]))
    BY <1>1, <2>2
  <2>3. CASE l = h
    BY <1>1, <2>1, <2>3
  <2>4. CASE Matching(l.cmd) \subseteq processed[s]
    BY <1>1, <2>1, <2>4
  <2>5. QED
    BY <2>2, <2>3, <2>4, HeadAndTail DEF CallKeeps, TypeOK
<1>3. QED
  BY <1>1, <1>2 DEF CallKeeps

LEMMA KeptLoop ==
  ASSUME NamesApart, ~Faults, TypeOK, Holding, NameInv, NEW s \in Syncs, Loop(s),
         CallKeeps(s), OneLive
  PROVE  CallKeeps(s)' /\ OneLive'
<1>1. DOMAIN job = Jobs /\ pc \in [Syncs -> Phases]
  BY DEF TypeOK
<1>2. CASE FindJob(s)
  <2>1. UNCHANGED <<job, read, left, names, processed>> /\ pc[s] = "entry"
    BY <1>2 DEF FindJob
  <2>2. \/ pc'[s] = "upsert" /\ Matching(Head(left[s]).cmd) = {}
        \/ \E j \in Matching(Head(left[s]).cmd) :
             found'[s] = j /\ pc'[s] \in {"name", "update"}
    BY <1>2 DEF FindJob, TypeOK
  <2>n. "name" \notin change'[s]
    BY <1>2 DEF FindJob, TypeOK
  <2>3. \A j, k \in Matching(Head(left[s]).cmd) : j = k
    BY <1>2, EntryInHand DEF OneLive, Lines, FindJob
  <2>4. \A c : Matching(c)' = Matching(c)
    BY <2>1 DEF Matching, Exists
  <2>5. pc'[s] \in {"name", "update"} =>
          Exists(found[s])' /\ Matching(Head(left[s]).cmd) \subseteq {found'[s]}
    BY <2>1, <2>2, <2>3 DEF Matching, Exists
  <2>6. OneLive'
    BY <2>4 DEF OneLive
  <2>7. \A l \in Range(read[s]) : l \in Range(left[s]) \/ Matching(l.cmd) \subseteq processed[s]
    BY <2>1 DEF CallKeeps, InLoop
  <2>8. QED
    BY <2>1, <2>2, <2>n, <2>4, <2>5, <2>6, <2>7 DEF CallKeeps
<1>3. CASE CheckName(s)
  <2>1. /\ UNCHANGED <<job, read, left, names, found, processed>> /\ pc[s] = "name"
        /\ pc'[s] = "update"
        /\ change'[s] = IF NameTaken(InHand(s), found[s]) THEN change[s]
                                                          ELSE change[s] \cup {"name"}
    BY <1>3 DEF CheckName, TypeOK
  <2>2. \A c : Matching(c)' = Matching(c)
    BY <2>1 DEF Matching, Exists
  <2>3. /\ Exists(found[s]) /\ Matching(Head(left[s]).cmd) \subseteq {found[s]}
        /\ \A l \in Range(read[s]) : l \in Range(left[s]) \/ Matching(l.cmd) \subseteq processed[s]
    BY <2>1 DEF CallKeeps, InLoop
  <2>4. "name" \in change'[s] => ~NameTaken(InHand(s), found[s])
    <3>1. "name" \notin change[s]
      BY <2>1 DEF CallKeeps, InLoop
    <3>2. QED
      BY <2>1, <3>1
  <2>5. (Exists(found[s]))' /\ ("name" \in change'[s] => ~(NameTaken(InHand(s), found[s]))')
    BY <2>1, <2>3, <2>4 DEF Exists, NameTaken, InHand
  <2>6. OneLive'
    BY <2>2 DEF OneLive
  <2>7. QED
    BY <2>1, <2>2, <2>3, <2>5, <2>6 DEF CallKeeps
<1>4. CASE UpdateJob(s)
  <2>1. PICK f \in Jobs : f = found[s]
    BY <1>4 DEF UpdateJob, Holding
  <2>2. left[s] # <<>> /\ Exists(f) /\ pc[s] = "update" /\ job' = [job EXCEPT ![f] = Updated(s)]
    BY <1>4, <2>1 DEF UpdateJob, Updatable, Holding
  <2>3. job[f].cmd = Head(left[s]).cmd
    BY <2>1, <2>2 DEF NameInv
  <2>4. job'[f].cmd = job[f].cmd /\ job'[f].live = job[f].live
    BY <1>1, <2>1, <2>2 DEF Updated
  <2>5. Matching(Head(left[s]).cmd) \subseteq {f}
    BY <2>1, <2>2 DEF CallKeeps, InLoop
  <2>6. CallKeeps(s)'
    BY <1>1, <1>4, <2>1, <2>2, <2>3, <2>4, <2>5, EntryKept DEF UpdateJob, InLoop
  <2>7. NothingAdded
    BY <1>1, <2>2, <2>4 DEF NothingAdded, Exists
  <2>8. QED
    BY <2>6, <2>7, MatchingShrinks
<1>5. ASSUME NEW j \in Jobs, CreateJob(s, j) PROVE CallKeeps(s)' /\ OneLive'
  <2>1. left[s] # <<>> /\ ~Exists(j) /\ Matching(Head(left[s]).cmd) = {} /\ pc[s] = "upsert"
    BY <1>5 DEF CreateJob, FreeJobs, Holding, CallKeeps, InLoop
  <2>2. /\ \A k \in Jobs \ {j} : job'[k] = job[k]
        /\ job'[j].cmd = Head(left[s]).cmd
    BY <1>1, <1>5 DEF CreateJob
  <2>3. CallKeeps(s)'
    BY <1>5, <2>1, <2>2, EntryKept DEF CreateJob, InLoop
  <2>4. ASSUME NEW c \in Commands PROVE \A k, m \in Matching(c)' : k = m
    <3>1. \A k \in Matching(c)' : k \in Matching(c) \/ (k = j /\ c = Head(left[s]).cmd)
      BY <2>2 DEF Matching, Exists
    <3>2. QED
      BY <2>1, <3>1 DEF OneLive
  <2>5. QED
    BY <2>3, <2>4 DEF OneLive
<1>6. ASSUME NEW j \in Jobs, TakeOverJob(s, j) PROVE CallKeeps(s)' /\ OneLive'
  <2>1. left[s] # <<>> /\ Exists(j) /\ Matching(Head(left[s]).cmd) = {} /\ pc[s] = "upsert"
    BY <1>6 DEF TakeOverJob, Holding, CallKeeps, InLoop
  <2>2. /\ \A k \in Jobs \ {j} : job'[k] = job[k]
        /\ job'[j].cmd = Head(left[s]).cmd /\ job'[j].live = job[j].live
    BY <1>1, <1>6 DEF TakeOverJob
  <2>3. CallKeeps(s)'
    BY <1>6, <2>1, <2>2, EntryKept DEF TakeOverJob, InLoop
  <2>4. ASSUME NEW c \in Commands PROVE \A k, m \in Matching(c)' : k = m
    <3>1. \A k \in Matching(c)' : k \in Matching(c) \/ (k = j /\ c = Head(left[s]).cmd)
      BY <2>2 DEF Matching, Exists
    <3>2. QED
      BY <2>1, <3>1 DEF OneLive
  <2>5. QED
    BY <2>3, <2>4 DEF OneLive
<1>7. ~EntryFails(s)
  <2>1. pc[s] = "update" => Updatable(s)
    BY DEF CallKeeps, InLoop, Updatable
  <2>2. QED
    BY <2>1 DEF EntryFails
<1>8. QED
  BY <1>2, <1>3, <1>4, <1>5, <1>6, <1>7 DEF Loop


\* With one call at a time nothing else is in the loop.
LEMMA KeptStep ==
  ASSUME NamesApart, ~Faults, \A s, t \in Syncs : s = t
  PROVE  TypeOK /\ Holding /\ NameInv /\ KeptInv /\ [Next]_vars => KeptInv'
<1> SUFFICES ASSUME TypeOK, Holding, NameInv, KeptInv, [Next]_vars PROVE KeptInv'
  OBVIOUS
<1>1. \A j \in Jobs : JobKeeps(j)
  BY RowsKeep
<1>2. DOMAIN job = Jobs /\ pc \in [Syncs -> Phases]
  BY DEF TypeOK
<1>3. ASSUME NEW s \in Syncs, Loop(s) PROVE KeptInv'
  BY <1>3, KeptLoop DEF KeptInv
<1>4. ASSUME NEW s \in Syncs, \E n \in 0..Len(crontab) : ReadCrontab(s, n) PROVE KeptInv'
  <2>1. UNCHANGED job /\ pc'[s] = "entry" /\ left'[s] = read'[s]
    BY <1>2, <1>4 DEF ReadCrontab, TypeOK
  <2>2. CallKeeps(s)' /\ OneLive'
    BY <2>1 DEF CallKeeps, OneLive, KeptInv, Matching, Exists
  <2>3. QED
    BY <2>2 DEF KeptInv
<1>5. ASSUME NEW s \in Syncs, RemoveStale(s) PROVE KeptInv'
  <2>1. pc'[s] = "finish" /\ \A j \in Jobs : job'[j] = IF j \in Stale(s) THEN NoRow ELSE job[j]
    BY <1>2, <1>5 DEF RemoveStale
  <2>2. NothingAdded
    BY <2>1 DEF NothingAdded, Exists
  <2>3. OneLive' /\ CallKeeps(s)'
    BY <2>1, <2>2, MatchingShrinks DEF KeptInv, CallKeeps, InLoop
  <2>4. QED
    BY <2>3 DEF KeptInv
<1>6. ASSUME NEW j \in Jobs, DeleteJob(j) PROVE KeptInv'
  <2>1. /\ UNCHANGED <<pc, read, left, names, found, change, processed>>
        /\ \A k \in Jobs \ {j} : job'[k] = job[k]
        /\ job'[j].cmd = job[j].cmd /\ job'[j].name = job[j].name /\ ~job'[j].live
        /\ Exists(j) /\ job[j] \in JobRow
    BY <1>2, <1>6 DEF DeleteJob, callVars, TypeOK, Exists
  <2>2. job'[j] # NoRow
    <3>1. job'[j] \in JobRow
      BY <1>2, <1>6, <2>1 DEF DeleteJob, JobRow
    <3>2. QED
      BY <3>1, NotARow
  <2>3. NothingAdded
    BY <2>1 DEF NothingAdded, Exists
  <2>4. \A c : Matching(c)' \subseteq Matching(c)
    BY <2>3, MatchingShrinks
  <2>5. \A k \in Jobs : (Exists(k)' <=> Exists(k)) /\ job'[k].name = job[k].name
    BY <2>1, <2>2 DEF Exists
  <2>6. ASSUME NEW s \in Syncs PROVE CallKeeps(s)'
    <3>1. pc[s] \in {"name", "update"} => found[s] \in Jobs
      BY DEF Holding
    <3>2. \A n : (NameTaken(n, found[s]))' <=> NameTaken(n, found[s])
      BY <2>1, <2>5 DEF NameTaken
    <3>3. InHand(s)' = InHand(s)
      BY <2>1 DEF InHand
    <3>4. QED
      BY <2>1, <2>4, <2>5, <3>1, <3>2, <3>3 DEF CallKeeps, KeptInv
  <2>7. QED
    BY <2>3, <2>6, MatchingShrinks DEF KeptInv
<1>7. CASE job' = job /\ \A s \in Syncs : pc'[s] \notin InLoop
  BY <1>7 DEF KeptInv, CallKeeps, OneLive, Matching, Exists
<1>8. CASE UNCHANGED <<job, pc, read, left, names, found, change, processed>>
  BY <1>8 DEF KeptInv, CallKeeps, OneLive, Exists, Matching, NameTaken, InHand
<1>9. QED
  <2>1. ASSUME NEW s \in Syncs, Advance(s) PROVE KeptInv'
    <3>1. CASE Loop(s) \/ RemoveStale(s) \/ \E n \in 0..Len(crontab) : ReadCrontab(s, n)
      BY <1>3, <1>4, <1>5, <3>1
    <3>2. CASE ~(Loop(s) \/ RemoveStale(s) \/ \E n \in 0..Len(crontab) : ReadCrontab(s, n))
      <4>1. job' = job /\ pc'[s] \notin InLoop
        BY <1>2, <2>1, <3>2
        DEF Advance, VisitClient, SyncClientCrons, BatchEnd, Skip, Proceed, CloseOrphans, Throws,
            NewRecord, Finish, StampSync, Fail, RecordFailure, CatchThrows, Return, InLoop
      <4>2. QED
        BY <1>7, <4>1
    <3>3. QED
      BY <3>1, <3>2
  <2>2. ASSUME NEW s \in Syncs, SyncOne(s) \/ SyncAll(s) PROVE KeptInv'
    <3>1. job' = job /\ pc'[s] \notin InLoop
      BY <1>2, <2>2 DEF SyncOne, SyncAll, SyncClientCrons, InLoop
    <3>2. QED
      BY <1>7, <3>1
  <2>3. CASE Crash
    BY <1>7, <2>3 DEF Crash, InLoop
  <2>4. QED
    BY <1>6, <1>8, <2>1, <2>2, <2>3 DEF Next, EditCrontab, vars, callVars

\* Only the deletion of the stale jobs takes a call from the loop to its end.
LEMMA Ending ==
  ASSUME TypeOK, Next, NEW s \in Syncs, pc[s] = "entry", pc'[s] = "finish"
  PROVE  RemoveStale(s)
<1>1. ASSUME NEW t \in Syncs, Advance(t) PROVE RemoveStale(s)
  <2>1. t = s
    BY <1>1, OthersWait
  <2>2. pc \in [Syncs -> Phases] /\ ~Loop(s) /\ ~Return(s)
    BY DEF TypeOK, Loop, FindJob, CheckName, UpdateJob, EntryFails, CreateJob, TakeOverJob,
       NextEntry, Return
  <2>3. QED
    BY <1>1, <2>1, <2>2
    DEF Advance, VisitClient, SyncClientCrons, BatchEnd, Skip, Proceed, CloseOrphans, Throws,
        NewRecord, ReadCrontab, Finish, StampSync, Fail, RecordFailure, CatchThrows
<1>2. ASSUME NEW t \in Syncs, SyncOne(t) \/ SyncAll(t) PROVE FALSE
  BY <1>2 DEF SyncOne, SyncAll, SyncClientCrons, TypeOK
<1>3. ~(EditCrontab \/ Crash \/ \E j \in Jobs : DeleteJob(j))
  BY DEF EditCrontab, Crash, DeleteJob
<1>4. QED
  BY <1>1, <1>2, <1>3 DEF Next

\* Without faults, and with one sync at a time, a job whose command was discovered is
\* never deleted, whatever users delete and wherever the process dies: the deletion the
\* run of CronPartial shows needs an entry that failed.
THEOREM DiscoveredStays ==
  ASSUME NamesApart, ~Faults, \A s, t \in Syncs : s = t
  PROVE  Spec => DiscoveredIsKept
<1>1. Init => TypeOK /\ Holding /\ NameInv /\ KeptInv
  <2>1. Init => NameInv /\ KeptInv
    BY NotARow DEF Init, NameInv, KeptInv, CallKeeps, OneLive, Matching, Exists, InLoop
  <2>2. QED
    BY <2>1, TypeInit
<1>2. TypeOK /\ Holding /\ NameInv /\ KeptInv /\ [Next]_vars
        => TypeOK' /\ Holding' /\ NameInv' /\ KeptInv'
  BY TypeStep, HoldingStep, NameStep, KeptStep
<1>3. TypeOK /\ KeptInv /\ [Next]_vars =>
        [\A s \in Syncs : pc[s] = "entry" /\ pc'[s] = "finish" =>
           \A j \in Jobs : Exists(j) /\ job'[j] = NoRow =>
             job[j].cmd \notin {l.cmd : l \in Range(read[s])}]_vars
  <2> SUFFICES ASSUME TypeOK, KeptInv, Next, NEW s \in Syncs, pc[s] = "entry", pc'[s] = "finish",
                      NEW j \in Jobs, Exists(j), job'[j] = NoRow, NEW l \in Range(read[s]),
                      job[j].cmd = l.cmd
               PROVE  FALSE
    BY DEF vars
  <2>1. RemoveStale(s)
    BY Ending
  <2>2. left[s] = <<>> /\ j \in Stale(s)
    BY <2>1 DEF RemoveStale, Exists, TypeOK
  <2>3. Range(left[s]) = {}
    BY <2>2 DEF Range
  <2>4. j \in Matching(l.cmd)
    BY <2>2 DEF Stale, Matching
  <2>5. QED
    BY <2>2, <2>3, <2>4 DEF KeptInv, CallKeeps, InLoop, Stale
<1>4. QED
  BY <1>1, <1>2, <1>3, PTL DEF Spec, DiscoveredIsKept

----------------------------------------------------------------------------
(* What the end of a batch rests on *)

\* The order in which a call comes to its awaits; those of the loop are one place.
Stage(p) ==
  IF p = "before" THEN 0 ELSE IF p = "client" THEN 1 ELSE IF p = "close" THEN 2
  ELSE IF p = "record" THEN 3 ELSE IF p = "ssh" THEN 4 ELSE IF p \in InLoop THEN 5
  ELSE IF p = "finish" THEN 6 ELSE IF p = "stamp" THEN 7 ELSE IF p = "catch" THEN 8
  ELSE 9

\* What the loop still has to do: three awaits at most for each entry.
LoopLeft(s) ==
  3 * Len(left[s]) - (IF pc[s] = "name" THEN 1 ELSE
                      IF pc[s] \in {"update", "upsert"} THEN 2 ELSE 0)

Further(s) ==
  \/ Stage(pc'[s]) > Stage(pc[s])
  \/ pc[s] \in InLoop /\ pc'[s] \in InLoop /\ LoopLeft(s)' < LoopLeft(s)

\* A batch that is there gets further with each step of its own, and stays where it is
\* in all others.
BatchAdvances ==
  [][\A s \in Syncs : batch[s] /\ batch'[s] =>
       IF Advance(s) THEN Further(s)
                     ELSE pc'[s] = pc[s] /\ left'[s] = left[s]]_vars

LEMMA LoopIsFinite ==
  ASSUME TypeOK, Holding, NEW s \in Syncs, pc[s] \in InLoop
  PROVE  LoopLeft(s) \in Nat
<1>1. left[s] \in Seq(Lines) /\ Len(left[s]) \in Nat
  BY LenProperties DEF TypeOK
<1>2. left[s] # <<>> => Len(left[s]) > 0
  BY <1>1, LenProperties, EmptySeq
<1>3. QED
  BY <1>1, <1>2 DEF Holding, LoopLeft

LEMMA EntryGoes ==
  ASSUME TypeOK, NEW s \in Syncs, pc[s] \in InLoop, left[s] # <<>>, NextEntry(s)
  PROVE  Further(s)
<1>1. left[s] \in Seq(Lines) /\ Len(left[s]) \in Nat
  BY LenProperties DEF TypeOK
<1>2. Len(Tail(left[s])) = Len(left[s]) - 1
  BY <1>1, HeadTailProperties
<1>3. left'[s] = Tail(left[s]) /\ pc'[s] = "entry"
  BY DEF NextEntry, TypeOK
<1>4. LoopLeft(s)' = 3 * Len(left[s]) - 3
  <2>1. LoopLeft(s)' = 3 * Len(left'[s]) - 0
    BY <1>3 DEF LoopLeft
  <2>2. QED
    BY <1>1, <1>2, <1>3, <2>1
<1>5. LoopLeft(s) \in Int /\ LoopLeft(s) >= 3 * Len(left[s]) - 2
  BY <1>1 DEF LoopLeft
<1>6. LoopLeft(s)' < LoopLeft(s)
  BY <1>1, <1>4, <1>5
<1>7. QED
  BY <1>3, <1>6 DEF Further, InLoop

LEMMA LoopGoes ==
  ASSUME TypeOK, Holding, NEW s \in Syncs, Loop(s)
  PROVE  Further(s)
<1>0. left[s] \in Seq(Lines) /\ Len(left[s]) \in Nat
  BY LenProperties DEF TypeOK
<1>1. CASE FindJob(s)
  <2>1. /\ pc[s] = "entry" /\ pc'[s] \in {"upsert", "name", "update"}
        /\ left'[s] = left[s]
    BY <1>1 DEF FindJob, TypeOK
  <2>2. LoopLeft(s) = 3 * Len(left[s])
    BY <1>0, <2>1 DEF LoopLeft
  <2>3. LoopLeft(s)' <= 3 * Len(left[s]) - 1
    BY <1>0, <2>1 DEF LoopLeft
  <2>4. LoopLeft(s)' \in Int /\ LoopLeft(s) \in Int
    BY <1>0, <2>1 DEF LoopLeft
  <2>5. LoopLeft(s)' < LoopLeft(s)
    BY <1>0, <2>2, <2>3, <2>4
  <2>6. QED
    BY <2>1, <2>5 DEF Further, InLoop
<1>2. CASE CheckName(s)
  <2>1. pc[s] = "name" /\ pc'[s] = "update" /\ left'[s] = left[s]
    BY <1>2 DEF CheckName, TypeOK
  <2>2. QED
    BY <1>0, <2>1 DEF Further, LoopLeft, InLoop
<1>3. CASE ~ FindJob(s) /\ ~ CheckName(s)
  <2>1. NextEntry(s) /\ pc[s] \in InLoop /\ left[s] # <<>>
    BY <1>3 DEF Loop, UpdateJob, CreateJob, TakeOverJob, EntryFails, Holding, InLoop
  <2>2. QED
    BY <2>1, EntryGoes
<1>4. QED
  BY <1>1, <1>2, <1>3

LEMMA BatchGoes ==
  ASSUME TypeOK, Holding, NEW s \in Syncs, batch[s], batch'[s], Advance(s)
  PROVE  Further(s)
<1> USE DEF TypeOK, Further, Stage, InLoop
<1>1. CASE Loop(s)
  BY <1>1, LoopGoes
<1>2. CASE VisitClient(s)
  BY <1>2 DEF VisitClient, SyncClientCrons
<1>3. CASE BatchEnd(s)
  BY <1>3 DEF BatchEnd
<1>4. CASE Skip(s) \/ Throws(s) \/ StampSync(s) \/ RecordFailure(s) \/ CatchThrows(s)
  <2>1. /\ pc[s] \in {"client", "close", "record", "stamp", "catch"}
        /\ pc'[s] = "after"
    BY <1>4 DEF Skip, Throws, StampSync, RecordFailure, CatchThrows, Return
  <2>2. QED
    BY <2>1
<1>5. CASE Proceed(s) \/ CloseOrphans(s) \/ \E r \in Rows : NewRecord(s, r)
  BY <1>5 DEF Proceed, CloseOrphans, NewRecord
<1>6. CASE \E n \in 0..Len(crontab) : ReadCrontab(s, n)
  BY <1>6 DEF ReadCrontab
<1>7. CASE RemoveStale(s) \/ Finish(s) \/ Fail(s)
  BY <1>7 DEF RemoveStale, Finish, Fail
<1>8. QED
  BY <1>1, <1>2, <1>3, <1>4, <1>5, <1>6, <1>7 DEF Advance

LEMMA BatchWaits ==
  ASSUME TypeOK, FlagInv, [Next]_vars, NEW s \in Syncs, batch[s], batch'[s], ~ Advance(s)
  PROVE  pc'[s] = pc[s] /\ left'[s] = left[s]
<1>1. pc[s] # "idle"
  BY DEF FlagInv
<1>2. ASSUME NEW t \in Syncs, Advance(t) PROVE pc'[s] = pc[s] /\ left'[s] = left[s]
  <2>1. t # s
    BY <1>2
  <2>2. pc'[s] = pc[s]
    BY <1>2, <2>1, AdvanceKinds
       DEF VisitClient, SyncClientCrons, BatchEnd, Returns, Return, Moves, TypeOK
  <2>3. left'[s] = left[s]
    <3>1. NextEntry(t) \/ Return(t) => left'[s] = left[s]
      BY <2>1 DEF NextEntry, Return, Forget, TypeOK
    <3>2. ASSUME NEW n \in 0..Len(crontab), ReadCrontab(t, n) PROVE left'[s] = left[s]
      BY <2>1, <3>2 DEF ReadCrontab, TypeOK
    <3>3. FindJob(t) \/ CheckName(t) \/ (\E r \in Rows : NewRecord(t, r))
            \/ UNCHANGED callVars => left'[s] = left[s]
      BY DEF FindJob, CheckName, NewRecord, callVars
    <3>4. QED
      BY <1>2, <3>1, <3>2, <3>3
         DEF Advance, Loop, VisitClient, SyncClientCrons, BatchEnd, Skip, Proceed,
             CloseOrphans, Throws, UpdateJob, CreateJob, TakeOverJob, EntryFails,
             RemoveStale, Finish, StampSync, Fail, RecordFailure, CatchThrows
  <2>4. QED
    BY <2>2, <2>3
<1>3. ASSUME NEW t \in Syncs, SyncOne(t) \/ SyncAll(t)
      PROVE  pc'[s] = pc[s] /\ left'[s] = left[s]
  BY <1>1, <1>3 DEF SyncOne, SyncAll, SyncClientCrons, callVars, TypeOK
<1>4. CASE Crash
  BY <1>4 DEF Crash
<1>5. CASE EditCrontab \/ (\E j \in Jobs : DeleteJob(j)) \/ UNCHANGED vars
  BY <1>5 DEF EditCrontab, DeleteJob, callVars, vars
<1>6. QED
  BY <1>2, <1>3, <1>4, <1>5 DEF Next

\* A batch never does a step twice: however other syncs, users and failures interleave
\* with it, each of its steps gets it further through a finite course, and nothing but
\* its own steps and a crash moves it.
THEOREM BatchComesToEnd ==
  Spec => BatchAdvances /\ [](\A s \in Syncs : pc[s] \in InLoop => LoopLeft(s) \in Nat)
<1>1. Init => TypeOK /\ Holding /\ FlagInv
  BY TypeInit DEF Init, FlagInv, BatchesExclude
<1>2. TypeOK /\ Holding /\ FlagInv /\ [Next]_vars => TypeOK' /\ Holding' /\ FlagInv'
  BY TypeStep, HoldingStep, FlagStep
<1>3. TypeOK /\ Holding => \A s \in Syncs : pc[s] \in InLoop => LoopLeft(s) \in Nat
  BY LoopIsFinite
<1>4. TypeOK /\ Holding /\ FlagInv /\ [Next]_vars =>
        [\A s \in Syncs : batch[s] /\ batch'[s] =>
           IF Advance(s) THEN Further(s)
                         ELSE pc'[s] = pc[s] /\ left'[s] = left[s]]_vars
  BY BatchGoes, BatchWaits
<1>5. QED
  BY <1>1, <1>2, <1>3, <1>4, PTL DEF Spec, BatchAdvances
=============================================================================
