----------------------------- MODULE BatchCache -----------------------------
(***************************************************************************)
(* The batch summary cache of services/db2-direct-service.ts: per window   *)
(* of days one summary of every client's batch queue, rebuilt by a pool of *)
(* JDBC child processes and patched by the refresh of a single client.     *)
(*                                                                         *)
(* A load is a call in flight: getAllBatchStatusSummary ("list", "pool"),  *)
(* or the route that queries one client and patches the cache ("one").     *)
(* What a query returns is the version of the client's queue at the        *)
(* instant DB2 evaluated it; the versions in Backlog have stale pending    *)
(* entries.                                                                *)
(***************************************************************************)
EXTENDS Integers, FiniteSets

CONSTANTS
  Clients,      \* the clients of the client table
  Windows,      \* keys of the cache: days asked for
  Loads,        \* calls that can be in flight at a time
  Limit,        \* engine.db2QueryConcurrency, clamped to 1..10 by config-limits
  MaxVersion,   \* number of changes of a client's queue (bound)
  Backlog,      \* versions with stalePending > 0
  Stoppable     \* TRUE: the backend may be told to shut down

Versions == 0..MaxVersion
Missing  == -1       \* no entry for this client
Failed   == -2       \* groups: [], error
Answers  == Versions \cup {Missing, Failed}

ASSUME BatchAssumption ==
  /\ Limit \in 1..10 /\ MaxVersion \in Nat
  /\ Backlog \subseteq Versions
  /\ Stoppable \in BOOLEAN

VARIABLES
  version,   \* external: the queue of each client's DB2 database
  entry,     \* data.clients of the entry: an answer per client
  alerts,    \* data.pendingAlerts: how often a client is listed
  pc,        \* where a load is
  window,    \* its days
  avail,     \* its availableClients
  todo,      \* those from idx on
  query,     \* its connectors: where each runConnector call is
  answer,    \* what the child of a query has read
  results,   \* the load's results: an answer per client
  pending,   \* its pendingAlerts: how often a client is listed
  stopping,  \* shuttingDown
  base       \* history: the cached entry when the load began

cacheVars == <<entry, alerts>>
loadVars  == <<pc, window, avail, todo, base>>
poolVars  == <<query, answer, results, pending>>
vars == <<version, cacheVars, loadVars, poolVars, stopping>>

\* "env": awaiting buildConnEnv; "child": execFile; "read": DB2 has answered;
\* "dead": killed before that, or refused because the service shuts down
Phases == {"none", "env", "child", "read", "dead"}
Live(l) == {c \in Clients : query[l][c] # "none"}

Nothing == [c \in Clients |-> Missing]
Nobody  == [c \in Clients |-> 0]

Init ==
  /\ version = [c \in Clients |-> 0]
  /\ entry = [w \in Windows |-> Nothing] /\ alerts = [w \in Windows |-> Nobody]
  /\ pc = [l \in Loads |-> "idle"]
  /\ window \in [Loads -> Windows]
  /\ avail = [l \in Loads |-> {}] /\ todo = [l \in Loads |-> {}]
  /\ query = [l \in Loads |-> [c \in Clients |-> "none"]]
  /\ answer = [l \in Loads |-> Nothing] /\ results = [l \in Loads |-> Nothing]
  /\ pending = [l \in Loads |-> Nobody]
  /\ base = [l \in Loads |-> Nothing]
  /\ stopping = FALSE

\* batchSummaryCache.has(w): a stored summary has at least one client
Cached(w) == entry[w] # Nothing

\* f with the value v at client c of load or window x
Put(f, x, c, v) == [f EXCEPT ![x] = [f[x] EXCEPT ![c] = v]]

----------------------------------------------------------------------------
(* External: the queues in DB2 move on *)

QueueChanges(c) ==
  /\ version[c] < MaxVersion
  /\ version' = [version EXCEPT ![c] = @ + 1]
  /\ UNCHANGED <<cacheVars, loadVars, poolVars, stopping>>

----------------------------------------------------------------------------
(* getAllBatchStatusSummary *)

\* the phase a connector started now is in: refused once shuttingDown is set
StartPhase == IF stopping THEN "dead" ELSE "env"

\* Forced by the warm sync, or the entry is missing or older than the TTL.  A
\* call that finds it fresh returns it and changes nothing.
AskAll(l, w) ==
  /\ pc[l] = "idle"
  /\ pc' = [pc EXCEPT ![l] = "list"] /\ window' = [window EXCEPT ![l] = w]
  /\ base' = [base EXCEPT ![l] = entry[w]]
  /\ UNCHANGED <<version, cacheVars, avail, todo, poolVars, stopping>>

\* mutant: the pool starts one connector too many
NextBatchLoose(n, T) ==
  {S \in SUBSET T : \/ S = T /\ n + Cardinality(T) <= Limit + 1
                    \/ n + Cardinality(S) = Limit + 1}

\* the connectors runNext starts when n run already and T is left to do
NextBatch(n, T) ==
  {S \in SUBSET T : \/ S = T /\ n + Cardinality(T) <= Limit
                    \/ n + Cardinality(S) = Limit}

Launch(l, S) ==
  [c \in Clients |-> IF c \in S THEN StartPhase ELSE query[l][c]]

\* getAvailableClients has answered: [] when it rejects or no client has DB2
ListClients(l) ==
  /\ pc[l] = "list"
  /\ \E A \in SUBSET Clients : \E S \in NextBatch(0, A) :
       /\ avail' = [avail EXCEPT ![l] = A] /\ todo' = [todo EXCEPT ![l] = A \ S]
       /\ query' = [query EXCEPT ![l] = Launch(l, S)]
  /\ pc' = [pc EXCEPT ![l] = "pool"]
  /\ UNCHANGED <<version, cacheVars, window, base, answer, results, pending, stopping>>

----------------------------------------------------------------------------
(* runConnector: buildConnEnv, execFile, and the query in DB2 *)

SpawnChild(l, c) ==
  /\ query[l][c] = "env"
  /\ query' = Put(query, l, c, "child")
  /\ UNCHANGED <<version, cacheVars, loadVars, answer, results, pending, stopping>>

EvaluateQuery(l, c) ==
  /\ query[l][c] = "child"
  /\ query' = Put(query, l, c, "read")
  /\ answer' = Put(answer, l, c, version[c])
  /\ UNCHANGED <<version, cacheVars, loadVars, results, pending, stopping>>

\* the value a query settles with: its rows, or any kind of failure
Settles(l, c, v) ==
  /\ query[l][c] # "none"
  /\ v = Failed \/ (query[l][c] = "read" /\ v = answer[l][c])

Listed(v) == IF v \in Backlog THEN 1 ELSE 0

\* mutant: resolve() when the list is exhausted, whatever still runs
LastEarly(l, c) == todo[l] = {}

\* idx >= availableClients.length && running === 0
Last(l, c) == todo[l] = {} /\ Live(l) = {c}

\* mutant: the worker does not take the next client
QueryDoneStops(l, c, v) ==
  /\ pc[l] = "pool" /\ Settles(l, c, v) /\ ~ Last(l, c)
  /\ results' = Put(results, l, c, v)
  /\ pending' = Put(pending, l, c, Listed(v))
  /\ query' = Put(query, l, c, "none") /\ answer' = Put(answer, l, c, Missing)
  /\ UNCHANGED <<version, cacheVars, loadVars, stopping>>

\* then / catch / finally of one query, which starts the next one
QueryDone(l, c, v) ==
  /\ pc[l] = "pool" /\ Settles(l, c, v) /\ ~ Last(l, c)
  /\ results' = Put(results, l, c, v)
  /\ pending' = Put(pending, l, c, Listed(v))
  /\ \E S \in NextBatch(Cardinality(Live(l)) - 1, todo[l]) :
       /\ todo' = [todo EXCEPT ![l] = @ \ S]
       /\ query' = [query EXCEPT ![l] = [Launch(l, S) EXCEPT ![c] = "none"]]
  /\ answer' = Put(answer, l, c, Missing)
  /\ UNCHANGED <<version, cacheVars, pc, window, avail, base, stopping>>

\* a call returns: its locals are gone
Return(l) ==
  /\ pc' = [pc EXCEPT ![l] = "idle"]
  /\ avail' = [avail EXCEPT ![l] = {}]
  /\ base' = [base EXCEPT ![l] = Nothing]

\* mutant: results and pendingAlerts are fields that the next call goes on with
StoreSummaryKeeps(l, c, v) ==
  /\ pc[l] = "pool" /\ Settles(l, c, v) /\ Last(l, c)
  /\ results' = Put(results, l, c, v) /\ pending' = Put(pending, l, c, Listed(v))
  /\ entry' = [entry EXCEPT ![window[l]] = results'[l]]
  /\ alerts' = [alerts EXCEPT ![window[l]] = pending'[l]]
  /\ query' = Put(query, l, c, "none") /\ answer' = Put(answer, l, c, Missing)
  /\ Return(l)
  /\ UNCHANGED <<version, window, todo, stopping>>

\* the last query settles: the summary replaces the entry, whatever it holds now
StoreSummary(l, c, v) ==
  /\ pc[l] = "pool" /\ Settles(l, c, v) /\ Last(l, c)
  /\ entry' = [entry EXCEPT ![window[l]] = [results[l] EXCEPT ![c] = v]]
  /\ alerts' = [alerts EXCEPT ![window[l]] = [pending[l] EXCEPT ![c] = Listed(v)]]
  /\ results' = [results EXCEPT ![l] = Nothing]
  /\ pending' = [pending EXCEPT ![l] = Nobody]
  /\ query' = Put(query, l, c, "none") /\ answer' = Put(answer, l, c, Missing)
  /\ Return(l)
  /\ UNCHANGED <<version, window, todo, stopping>>

----------------------------------------------------------------------------
(* GET :clientId/batch-status: one query, then patchBatchSummaryClient *)

AskOne(l, c, w) ==
  /\ pc[l] = "idle"
  /\ pc' = [pc EXCEPT ![l] = "one"] /\ window' = [window EXCEPT ![l] = w]
  /\ query' = Put(query, l, c, StartPhase)
  /\ UNCHANGED <<version, cacheVars, avail, todo, base, answer, results, pending, stopping>>

\* mutant: the patch forgets pendingAlerts
PatchedAlertsNot(n, v) == n

\* filter, then push when stalePending > 0
PatchedAlerts(n, v) == Listed(v)

\* no entry, no patch; a failed query answers 500 or 503 and patches nothing
PatchClient(l, c, v) ==
  /\ pc[l] = "one" /\ Settles(l, c, v)
  /\ IF v = Failed \/ ~ Cached(window[l])
       THEN UNCHANGED <<entry, alerts>>
       ELSE /\ entry' = Put(entry, window[l], c, v)
            /\ alerts' = Put(alerts, window[l], c,
                             PatchedAlerts(alerts[window[l]][c], v))
  /\ query' = Put(query, l, c, "none") /\ answer' = Put(answer, l, c, Missing)
  /\ Return(l)
  /\ UNCHANGED <<version, window, todo, results, pending, stopping>>

----------------------------------------------------------------------------
\* shutdown(): the flag, and a kill for every registered child; one that has
\* read its rows may still deliver them
Shutdown ==
  /\ Stoppable /\ ~ stopping
  /\ stopping' = TRUE
  /\ query' = [l \in Loads |-> [c \in Clients |->
                 IF query[l][c] = "child" THEN "dead" ELSE query[l][c]]]
  /\ UNCHANGED <<version, cacheVars, loadVars, answer, results, pending>>

Progress(l) ==
  \/ ListClients(l)
  \/ \E c \in Clients : \/ SpawnChild(l, c) \/ EvaluateQuery(l, c)
                        \/ \E v \in Answers : \/ QueryDone(l, c, v)
                                              \/ StoreSummary(l, c, v)
                                              \/ PatchClient(l, c, v)

Ask(l) ==
  \E w \in Windows : \/ AskAll(l, w)
                     \/ \E c \in Clients : AskOne(l, c, w)

Next ==
  \/ \E c \in Clients : QueueChanges(c)
  \/ \E l \in Loads : Ask(l) \/ Progress(l)
  \/ Shutdown

Spec == Init /\ [][Next]_vars

\* Awaited calls settle: execFile has a timeout, Prisma answers or rejects.
FairSpec == Spec /\ \A l \in Loads : WF_vars(Progress(l))

----------------------------------------------------------------------------
(* Properties *)

TypeOK ==
  /\ version \in [Clients -> Versions]
  /\ entry \in [Windows -> [Clients -> Answers]]
  /\ alerts \in [Windows -> [Clients -> {0, 1}]]
  /\ pc \in [Loads -> {"idle", "list", "pool", "one"}]
  /\ window \in [Loads -> Windows]
  /\ avail \in [Loads -> SUBSET Clients] /\ todo \in [Loads -> SUBSET Clients]
  /\ query \in [Loads -> [Clients -> Phases]]
  /\ answer \in [Loads -> [Clients -> Versions \cup {Missing}]]
  /\ results \in [Loads -> [Clients -> Answers]]
  /\ pending \in [Loads -> [Clients -> {0, 1}]]
  /\ base \in [Loads -> [Clients -> Answers]]
  /\ stopping \in BOOLEAN

\* pendingAlerts lists exactly the clients whose cached groups have stale
\* pending entries, each of them once, however refreshes and patches interleave.
PendingMatchesClients ==
  \A w \in Windows, c \in Clients : alerts[w][c] = Listed(entry[w][c])

\* One refresh never has more connectors than engine.db2QueryConcurrency.
PoolIsBounded ==
  \A l \in Loads : pc[l] = "pool" => Cardinality(Live(l)) <= Limit

Stores(l) == pc[l] = "pool" /\ pc'[l] = "idle"

\* A stored summary has an answer, or an error, for every available client: the
\* pool is not left while a query is still running.
SummaryIsComplete ==
  [][\A l \in Loads : Stores(l) =>
       \A c \in avail[l] : entry'[window[l]][c] # Missing]_vars

\* A refresh does not take the answer of a client behind what the cache held
\* when the refresh began.
RefreshNeverGoesBack ==
  [][\A l \in Loads : Stores(l) =>
       \A c \in Clients : entry'[window[l]][c] \in Versions =>
                            entry'[window[l]][c] >= base[l][c]]_vars

\* A refresh over at least one client returns, whatever its queries end with
\* and also when the service shuts down under it.
RefreshReturns ==
  \A l \in Loads : pc[l] = "pool" /\ avail[l] # {} ~> pc[l] = "idle"
=============================================================================
