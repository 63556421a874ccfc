-------------------------- MODULE BatchCache_proofs --------------------------
(* Theorems about BatchCache, for every set of clients, windows and calls in *)
(* flight, every concurrency limit and every number of queue changes.        *)
EXTENDS BatchCache, Counting, TLAPS

----------------------------------------------------------------------------
(* Types *)

\* What Put returns, and its type.
LEMMA PutIs ==
  ASSUME NEW X, NEW V, NEW f \in [X -> [Clients -> V]],
         NEW x \in X, NEW c \in Clients, NEW v \in V
  PROVE  /\ Put(f, x, c, v) \in [X -> [Clients -> V]]
         /\ \A y \in X, d \in Clients :
              Put(f, x, c, v)[y][d] = IF y = x /\ d = c THEN v ELSE f[y][d]
<1> DEFINE row == [f[x] EXCEPT ![c] = v]
<1>1. row \in [Clients -> V]
  OBVIOUS
<1>2. \A d \in Clients : row[d] = IF d = c THEN v ELSE f[x][d]
  OBVIOUS
<1>3. Put(f, x, c, v) = [f EXCEPT ![x] = row]
  BY DEF Put
<1> HIDE DEF row
<1>4. Put(f, x, c, v) \in [X -> [Clients -> V]]
  BY <1>1, <1>3
<1>5. \A y \in X : Put(f, x, c, v)[y] = IF y = x THEN row ELSE f[y]
  BY <1>3
<1>6. ASSUME NEW y \in X, NEW d \in Clients
      PROVE  Put(f, x, c, v)[y][d] = IF y = x /\ d = c THEN v ELSE f[y][d]
  <2>1. CASE y = x
    BY <1>2, <1>5, <2>1
  <2>2. CASE y # x
    BY <1>5, <2>2
  <2>3. QED
    BY <2>1, <2>2
<1>7. QED
  BY <1>4, <1>6

\* a connector moves to another phase
LEMMA QueryPut ==
  ASSUME TypeOK, NEW l \in Loads, NEW c \in Clients, NEW p \in Phases,
         query' = Put(query, l, c, p)
  PROVE  query' \in [Loads -> [Clients -> Phases]]
  BY PutIs DEF TypeOK

LEMMA PhasesAre == {"none", "env", "child", "read", "dead"} \subseteq Phases
  BY DEF Phases

LEMMA TypeInit == Init => TypeOK
<1>1. /\ Nothing \in [Clients -> Answers]
      /\ Nothing \in [Clients -> Versions \cup {Missing}]
      /\ Nobody \in [Clients -> {0, 1}]
  BY DEF Nothing, Nobody, Answers
<1>2. [c \in Clients |-> 0] \in [Clients -> Versions]
  BY BatchAssumption DEF Versions
<1>3. [c \in Clients |-> "none"] \in [Clients -> Phases]
  BY DEF Phases
<1>4. ASSUME Init
      PROVE  /\ version \in [Clients -> Versions]
             /\ entry \in [Windows -> [Clients -> Answers]]
             /\ alerts \in [Windows -> [Clients -> {0, 1}]]
  BY <1>1, <1>2, <1>4 DEF Init
<1>5. ASSUME Init
      PROVE  /\ query \in [Loads -> [Clients -> Phases]]
             /\ answer \in [Loads -> [Clients -> Versions \cup {Missing}]]
             /\ results \in [Loads -> [Clients -> Answers]]
             /\ pending \in [Loads -> [Clients -> {0, 1}]]
             /\ base \in [Loads -> [Clients -> Answers]]
  BY <1>1, <1>3, <1>5 DEF Init
<1>6. ASSUME Init
      PROVE  /\ pc \in [Loads -> {"idle", "list", "pool", "one"}]
             /\ window \in [Loads -> Windows]
             /\ avail \in [Loads -> SUBSET Clients]
             /\ todo \in [Loads -> SUBSET Clients] /\ stopping \in BOOLEAN
  BY <1>6 DEF Init
<1>7. QED
  BY <1>4, <1>5, <1>6 DEF TypeOK

LEMMA ListedType == \A v : Listed(v) \in {0, 1}
  BY DEF Listed

LEMMA StartType == StartPhase \in Phases
  BY DEF StartPhase, Phases

LEMMA SettledType ==
  ASSUME TypeOK, NEW l \in Loads, NEW c \in Clients, NEW v, Settles(l, c, v)
  PROVE  v \in Answers
  BY DEF TypeOK, Settles, Answers

LEMMA TypeAsk ==
  ASSUME TypeOK, NEW l \in Loads, Ask(l)
  PROVE  TypeOK'
<1> USE DEF TypeOK, cacheVars, poolVars
<1>1. PICK w \in Windows : AskAll(l, w) \/ \E c \in Clients : AskOne(l, c, w)
  BY DEF Ask
<1>2. CASE AskAll(l, w)
  BY <1>2 DEF AskAll
<1>3. ASSUME NEW c \in Clients, AskOne(l, c, w) PROVE TypeOK'
  <2>1. query' \in [Loads -> [Clients -> Phases]]
    BY <1>3, PutIs, StartType DEF AskOne
  <2>2. QED
    BY <1>3, <2>1 DEF AskOne
<1>4. QED
  BY <1>1, <1>2, <1>3

LEMMA TypeList ==
  ASSUME TypeOK, NEW l \in Loads, ListClients(l)
  PROVE  TypeOK'
<1> USE DEF TypeOK, cacheVars
<1>1. PICK A \in SUBSET Clients : \E S \in NextBatch(0, A) :
         /\ avail' = [avail EXCEPT ![l] = A] /\ todo' = [todo EXCEPT ![l] = A \ S]
         /\ query' = [query EXCEPT ![l] = Launch(l, S)]
  BY DEF ListClients
<1>2. PICK S \in NextBatch(0, A) :
         /\ avail' = [avail EXCEPT ![l] = A] /\ todo' = [todo EXCEPT ![l] = A \ S]
         /\ query' = [query EXCEPT ![l] = Launch(l, S)]
  BY <1>1
<1>3. Launch(l, S) \in [Clients -> Phases]
  BY StartType DEF Launch
<1>4. query' \in [Loads -> [Clients -> Phases]]
  BY <1>2, <1>3
<1>5. /\ avail' \in [Loads -> SUBSET Clients]
      /\ todo' \in [Loads -> SUBSET Clients]
  BY <1>2
<1>6. QED
  BY <1>4, <1>5 DEF ListClients

LEMMA TypeConnector ==
  ASSUME TypeOK, NEW l \in Loads, NEW c \in Clients,
         SpawnChild(l, c) \/ EvaluateQuery(l, c)
  PROVE  TypeOK'
<1> USE DEF TypeOK, cacheVars, loadVars
<1>1. CASE SpawnChild(l, c)
  <2>1. query' \in [Loads -> [Clients -> Phases]]
    BY <1>1, QueryPut, PhasesAre DEF SpawnChild
  <2>2. QED
    BY <1>1, <2>1 DEF SpawnChild
<1>2. CASE EvaluateQuery(l, c)
  <2>1. query' \in [Loads -> [Clients -> Phases]]
    BY <1>2, QueryPut, PhasesAre DEF EvaluateQuery
  <2>2. answer' \in [Loads -> [Clients -> Versions \cup {Missing}]]
    BY <1>2, PutIs DEF EvaluateQuery
  <2>3. QED
    BY <1>2, <2>1, <2>2 DEF EvaluateQuery
<1>3. QED
  BY <1>1, <1>2

LEMMA TypeQueryDone ==
  ASSUME TypeOK, NEW l \in Loads, NEW c \in Clients, NEW v, QueryDone(l, c, v)
  PROVE  TypeOK'
<1> USE DEF TypeOK, cacheVars
<1>1. PICK S \in NextBatch(Cardinality(Live(l)) - 1, todo[l]) :
         /\ todo' = [todo EXCEPT ![l] = @ \ S]
         /\ query' = [query EXCEPT ![l] = [Launch(l, S) EXCEPT ![c] = "none"]]
  BY DEF QueryDone
<1>2. [Launch(l, S) EXCEPT ![c] = "none"] \in [Clients -> Phases]
  BY StartType DEF Launch, Phases
<1>3. query' \in [Loads -> [Clients -> Phases]]
  BY <1>1, <1>2
<1>4. answer' \in [Loads -> [Clients -> Versions \cup {Missing}]]
  BY PutIs DEF QueryDone
<1>5. results' \in [Loads -> [Clients -> Answers]]
  BY PutIs, SettledType DEF QueryDone
<1>6. pending' \in [Loads -> [Clients -> {0, 1}]]
  BY PutIs, ListedType DEF QueryDone
<1>7. QED
  BY <1>1, <1>3, <1>4, <1>5, <1>6 DEF QueryDone

LEMMA TypeStore ==
  ASSUME TypeOK, NEW l \in Loads, NEW c \in Clients, NEW v, StoreSummary(l, c, v)
  PROVE  TypeOK'
<1> USE DEF TypeOK
<1>1. query' \in [Loads -> [Clients -> Phases]]
  BY QueryPut, PhasesAre DEF StoreSummary
<1>0. answer' \in [Loads -> [Clients -> Versions \cup {Missing}]]
  BY PutIs DEF StoreSummary
<1>2. /\ [results[l] EXCEPT ![c] = v] \in [Clients -> Answers]
      /\ [pending[l] EXCEPT ![c] = Listed(v)] \in [Clients -> {0, 1}]
  BY SettledType, ListedType DEF StoreSummary
<1>3. entry' \in [Windows -> [Clients -> Answers]]
  BY <1>2 DEF StoreSummary
<1>4. alerts' \in [Windows -> [Clients -> {0, 1}]]
  BY <1>2 DEF StoreSummary
<1>5. Nothing \in [Clients -> Answers] /\ Nobody \in [Clients -> {0, 1}]
  BY DEF Nothing, Nobody, Answers
<1>6. QED
  BY <1>0, <1>1, <1>3, <1>4, <1>5 DEF StoreSummary, Return

LEMMA TypePatch ==
  ASSUME TypeOK, NEW l \in Loads, NEW c \in Clients, NEW v, PatchClient(l, c, v)
  PROVE  TypeOK'
<1> USE DEF TypeOK
<1>1. query' \in [Loads -> [Clients -> Phases]]
  BY QueryPut, PhasesAre DEF PatchClient
<1>0. answer' \in [Loads -> [Clients -> Versions \cup {Missing}]]
  BY PutIs DEF PatchClient
<1>2. /\ entry' \in [Windows -> [Clients -> Answers]]
      /\ alerts' \in [Windows -> [Clients -> {0, 1}]]
  <2>1. CASE v = Failed \/ ~ Cached(window[l])
    BY <2>1 DEF PatchClient
  <2>2. CASE ~ (v = Failed \/ ~ Cached(window[l]))
    <3>1. v \in Answers /\ Listed(v) \in {0, 1}
      BY SettledType, ListedType DEF PatchClient
    <3>2. entry' = Put(entry, window[l], c, v)
      BY <2>2 DEF PatchClient
    <3>3. alerts' = Put(alerts, window[l], c, Listed(v))
      BY <2>2 DEF PatchClient, PatchedAlerts
    <3>4. entry' \in [Windows -> [Clients -> Answers]]
      BY <3>1, <3>2, PutIs
    <3>5. alerts' \in [Windows -> [Clients -> {0, 1}]]
      BY <3>1, <3>3, PutIs
    <3>6. QED
      BY <3>4, <3>5
  <2>3. QED
    BY <2>1, <2>2
<1>3. Nothing \in [Clients -> Answers]
  BY DEF Nothing, Answers
<1>4. QED
  BY <1>0, <1>1, <1>2, <1>3 DEF PatchClient, Return

LEMMA TypeStep == TypeOK /\ [Next]_vars => TypeOK'
<1> SUFFICES ASSUME TypeOK, [Next]_vars PROVE TypeOK'
  OBVIOUS
<1>1. ASSUME NEW c \in Clients, QueueChanges(c) PROVE TypeOK'
  BY <1>1, BatchAssumption
     DEF QueueChanges, TypeOK, Versions, cacheVars, loadVars, poolVars
<1>2. ASSUME NEW l \in Loads, Progress(l) PROVE TypeOK'
  BY <1>2, TypeList, TypeConnector, TypeQueryDone, TypeStore, TypePatch
     DEF Progress
<1>3. CASE Shutdown
  BY <1>3 DEF Shutdown, TypeOK, Phases, cacheVars, loadVars
<1>4. CASE UNCHANGED vars
  BY <1>4 DEF vars, TypeOK, cacheVars, loadVars, poolVars
<1>5. QED
  BY <1>1, <1>2, <1>3, <1>4, TypeAsk DEF Next

\* Every reachable state is well typed; in particular a client is listed at most
\* once in pendingAlerts, after any number of patches.
THEOREM TypeCorrect == Spec => []TypeOK
  BY TypeInit, TypeStep, PTL DEF Spec

----------------------------------------------------------------------------
(* pendingAlerts *)

\* What is said of the cache holds of every summary under construction.
PendingListed ==
  /\ PendingMatchesClients
  /\ \A l \in Loads, c \in Clients : pending[l][c] = Listed(results[l][c])

LEMMA MissingNotListed == Listed(Missing) = 0
  BY BatchAssumption DEF Listed, Missing, Versions

LEMMA NobodyListed == \A c \in Clients : Nobody[c] = Listed(Nothing[c])
  BY MissingNotListed DEF Nobody, Nothing

LEMMA ListedInit == Init => PendingListed
  BY NobodyListed DEF Init, PendingListed, PendingMatchesClients

LEMMA ListedStore ==
  ASSUME TypeOK, PendingListed,
         NEW l \in Loads, NEW c \in Clients, NEW v, StoreSummary(l, c, v)
  PROVE  PendingListed'
<1> USE DEF TypeOK, PendingListed, PendingMatchesClients, StoreSummary
<1> DEFINE got == [results[l] EXCEPT ![c] = v]
           told == [pending[l] EXCEPT ![c] = Listed(v)]
<1>1. \A d \in Clients : told[d] = Listed(got[d])
  OBVIOUS
<1>2. /\ entry' = [entry EXCEPT ![window[l]] = got]
      /\ alerts' = [alerts EXCEPT ![window[l]] = told]
  OBVIOUS
<1> HIDE DEF got, told
<1>3. PendingMatchesClients'
  BY <1>1, <1>2
<1>4. \A m \in Loads, d \in Clients : pending'[m][d] = Listed(results'[m][d])
  BY NobodyListed
<1>5. QED
  BY <1>3, <1>4

LEMMA ListedQueryDone ==
  ASSUME TypeOK, PendingListed,
         NEW l \in Loads, NEW c \in Clients, NEW v, QueryDone(l, c, v)
  PROVE  PendingListed'
<1>1. results' = Put(results, l, c, v) /\ pending' = Put(pending, l, c, Listed(v))
  BY DEF QueryDone
<1>2. v \in Answers /\ Listed(v) \in {0, 1}
  BY SettledType, ListedType DEF QueryDone
<1>0. /\ results \in [Loads -> [Clients -> Answers]]
      /\ pending \in [Loads -> [Clients -> {0, 1}]]
  BY DEF TypeOK
<1>3. \A m \in Loads, d \in Clients :
        results'[m][d] = IF m = l /\ d = c THEN v ELSE results[m][d]
  BY <1>0, <1>1, <1>2 DEF Put
<1>4. \A m \in Loads, d \in Clients :
        pending'[m][d] = IF m = l /\ d = c THEN Listed(v) ELSE pending[m][d]
  BY <1>0, <1>1, <1>2 DEF Put
<1>5. QED
  BY <1>3, <1>4 DEF PendingListed, PendingMatchesClients, QueryDone, cacheVars

LEMMA ListedPatch ==
  ASSUME TypeOK, PendingListed,
         NEW l \in Loads, NEW c \in Clients, NEW v, PatchClient(l, c, v)
  PROVE  PendingListed'
<1> USE DEF PendingListed, PendingMatchesClients
<1>1. CASE v = Failed \/ ~ Cached(window[l])
  BY <1>1 DEF PatchClient
<1>2. CASE ~ (v = Failed \/ ~ Cached(window[l]))
  <2>1. v \in Answers /\ Listed(v) \in {0, 1} /\ window[l] \in Windows
    BY SettledType, ListedType DEF PatchClient, TypeOK
  <2>0. /\ entry \in [Windows -> [Clients -> Answers]]
        /\ alerts \in [Windows -> [Clients -> {0, 1}]]
    BY DEF TypeOK
  <2>2. /\ entry' = Put(entry, window[l], c, v)
        /\ alerts' = Put(alerts, window[l], c, Listed(v))
    BY <1>2 DEF PatchClient, PatchedAlerts
  <2>3. \A w \in Windows, d \in Clients :
          entry'[w][d] = IF w = window[l] /\ d = c THEN v ELSE entry[w][d]
    BY <2>0, <2>1, <2>2 DEF Put
  <2>4. \A w \in Windows, d \in Clients :
          alerts'[w][d] = IF w = window[l] /\ d = c THEN Listed(v) ELSE alerts[w][d]
    BY <2>0, <2>1, <2>2 DEF Put
  <2>5. QED
    BY <2>3, <2>4 DEF PatchClient
<1>3. QED
  BY <1>1, <1>2

LEMMA ListedStep == TypeOK /\ PendingListed /\ [Next]_vars => PendingListed'
<1> SUFFICES ASSUME TypeOK, PendingListed, [Next]_vars PROVE PendingListed'
  OBVIOUS
<1>1. ASSUME UNCHANGED <<entry, alerts, results, pending>> PROVE PendingListed'
  BY <1>1 DEF PendingListed, PendingMatchesClients
<1>2. ASSUME NEW l \in Loads, Progress(l) PROVE PendingListed'
  <2>1. ASSUME NEW c \in Clients, ListClients(l) \/ SpawnChild(l, c) \/ EvaluateQuery(l, c)
        PROVE  PendingListed'
    BY <1>1, <2>1 DEF ListClients, SpawnChild, EvaluateQuery, cacheVars
  <2>2. CASE ListClients(l)
    BY <1>1, <2>2 DEF ListClients, cacheVars
  <2>3. QED
    BY <1>2, <2>1, <2>2, ListedQueryDone, ListedStore, ListedPatch DEF Progress
<1>3. ASSUME NEW l \in Loads, Ask(l) PROVE PendingListed'
  BY <1>1, <1>3 DEF Ask, AskAll, AskOne, cacheVars, poolVars
<1>4. CASE \/ Shutdown
           \/ \E c \in Clients : QueueChanges(c)
           \/ UNCHANGED vars
  BY <1>1, <1>4 DEF Shutdown, QueueChanges, vars, cacheVars, poolVars
<1>5. QED
  BY <1>2, <1>3, <1>4 DEF Next

\* Whatever refreshes and patches overlap, pendingAlerts of a summary lists
\* exactly the clients whose cached groups have stale pending entries.
THEOREM PendingCorrect == Spec => []PendingMatchesClients
<1>1. PendingListed => PendingMatchesClients
  BY DEF PendingListed
<1>2. QED
  BY <1>1, TypeCorrect, ListedInit, ListedStep, PTL DEF Spec

----------------------------------------------------------------------------
(* Calls that are not at work *)

\* A call that is not at work has no connectors, a refresh of one client has
\* one, only a pool collects results and has clients left, which it does not yet
\* query, and only a child that has read its rows holds an answer.
Quiet ==
  \A l \in Loads, c \in Clients :
    /\ pc[l] \in {"idle", "list"} => query[l][c] = "none"
    /\ pc[l] # "pool" => results[l][c] = Missing
    /\ query[l][c] # "read" => answer[l][c] = Missing
OneQuery ==
  \A l \in Loads, c, d \in Clients :
    pc[l] = "one" /\ query[l][c] # "none" /\ query[l][d] # "none" => c = d
Waiting ==
  \A l \in Loads, c \in Clients :
    c \in todo[l] => pc[l] = "pool" /\ query[l][c] = "none"
AtWork == Quiet /\ OneQuery /\ Waiting

LEMMA StartIs == StartPhase # "none" /\ StartPhase # "read"
  BY DEF StartPhase

LEMMA AtWorkInit == Init => AtWork
  BY DEF Init, AtWork, Quiet, OneQuery, Waiting, Nothing

LEMMA AtWorkAsk ==
  ASSUME TypeOK, AtWork, NEW l \in Loads, Ask(l)
  PROVE  AtWork'
<1>1. PICK w \in Windows : AskAll(l, w) \/ \E c \in Clients : AskOne(l, c, w)
  BY DEF Ask
<1>2. CASE AskAll(l, w)
  <2>1. \A m \in Loads : pc'[m] = IF m = l THEN "list" ELSE pc[m]
    BY <1>2 DEF AskAll, TypeOK
  <2>2. pc[l] = "idle" /\ UNCHANGED <<todo, query, answer, results>>
    BY <1>2 DEF AskAll, poolVars
  <2>3. QED
    BY <2>1, <2>2 DEF AtWork, Quiet, OneQuery, Waiting
<1>3. ASSUME NEW c \in Clients, AskOne(l, c, w) PROVE AtWork'
  <2>1. \A m \in Loads, d \in Clients :
          query'[m][d] = IF m = l /\ d = c THEN StartPhase ELSE query[m][d]
    BY <1>3 DEF AskOne, Put, TypeOK
  <2>2. \A m \in Loads : pc'[m] = IF m = l THEN "one" ELSE pc[m]
    BY <1>3 DEF AskOne, TypeOK
  <2>3. pc[l] = "idle" /\ UNCHANGED <<todo, answer, results>>
    BY <1>3 DEF AskOne
  <2>4. Quiet'
    BY <2>1, <2>2, <2>3, StartIs DEF AtWork, Quiet
  <2>5. OneQuery'
    BY <2>1, <2>2, <2>3, StartIs DEF AtWork, Quiet, OneQuery
  <2>6. Waiting'
    BY <2>1, <2>2, <2>3 DEF AtWork, Waiting
  <2>7. QED
    BY <2>4, <2>5, <2>6 DEF AtWork
<1>4. QED
  BY <1>1, <1>2, <1>3

LEMMA AtWorkList ==
  ASSUME TypeOK, AtWork, NEW l \in Loads, ListClients(l)
  PROVE  AtWork'
<1>1. PICK A \in SUBSET Clients : \E S \in NextBatch(0, A) :
         /\ todo' = [todo EXCEPT ![l] = A \ S]
         /\ query' = [query EXCEPT ![l] = Launch(l, S)]
  BY DEF ListClients
<1>0. PICK S : /\ todo' = [todo EXCEPT ![l] = A \ S]
               /\ query' = [query EXCEPT ![l] = Launch(l, S)]
  BY <1>1
<1>2. \A m \in Loads, d \in Clients :
        query'[m][d] = IF m = l /\ d \in S THEN StartPhase ELSE query[m][d]
  BY <1>0 DEF TypeOK, Launch
<1>3. \A m \in Loads : pc'[m] = IF m = l THEN "pool" ELSE pc[m]
  BY DEF ListClients, TypeOK
<1>4. pc[l] = "list" /\ UNCHANGED <<answer, results>>
  BY DEF ListClients
<1>5. Quiet' /\ OneQuery'
  BY <1>2, <1>3, <1>4, StartIs DEF AtWork, Quiet, OneQuery
<1>6. \A m \in Loads : todo'[m] = IF m = l THEN A \ S ELSE todo[m]
  BY <1>0 DEF TypeOK
<1>7. Waiting'
  BY <1>2, <1>3, <1>4, <1>6 DEF AtWork, Waiting, Quiet
<1>8. QED
  BY <1>5, <1>7 DEF AtWork

LEMMA AtWorkConnector ==
  ASSUME TypeOK, AtWork, NEW l \in Loads, NEW c \in Clients,
         SpawnChild(l, c) \/ EvaluateQuery(l, c)
  PROVE  AtWork'
<1>1. pc' = pc /\ results' = results /\ todo' = todo /\ query[l][c] # "none"
  BY DEF SpawnChild, EvaluateQuery, loadVars
<1>2. \A m \in Loads, d \in Clients :
        /\ query'[m][d] # "none" <=> query[m][d] # "none"
        /\ query'[m][d] # "read" => query[m][d] # "read" /\ answer'[m][d] = answer[m][d]
  <2>1. CASE SpawnChild(l, c)
    <3>1. query[l][c] = "env" /\ answer' = answer
      BY <2>1 DEF SpawnChild
    <3>2. \A m \in Loads, d \in Clients :
            query'[m][d] = IF m = l /\ d = c THEN "child" ELSE query[m][d]
      BY <2>1 DEF SpawnChild, Put, TypeOK
    <3>3. QED
      BY <3>1, <3>2
  <2>2. CASE EvaluateQuery(l, c)
    <3>1. query[l][c] = "child"
      BY <2>2 DEF EvaluateQuery
    <3>2. \A m \in Loads, d \in Clients :
            query'[m][d] = IF m = l /\ d = c THEN "read" ELSE query[m][d]
      BY <2>2 DEF EvaluateQuery, Put, TypeOK
    <3>3. \A m \in Loads, d \in Clients :
            answer'[m][d] = IF m = l /\ d = c THEN version[c] ELSE answer[m][d]
      BY <2>2 DEF EvaluateQuery, Put, TypeOK
    <3>4. QED
      BY <3>1, <3>2, <3>3
  <2>3. QED
    BY <2>1, <2>2
<1>3. QED
  BY <1>1, <1>2 DEF AtWork, Quiet, OneQuery, Waiting

LEMMA AtWorkQueryDone ==
  ASSUME TypeOK, AtWork,
         NEW l \in Loads, NEW c \in Clients, NEW v, QueryDone(l, c, v)
  PROVE  AtWork'
<1>1. PICK S \in SUBSET todo[l] :
         /\ todo' = [todo EXCEPT ![l] = @ \ S]
         /\ query' = [query EXCEPT ![l] = [Launch(l, S) EXCEPT ![c] = "none"]]
  BY DEF QueryDone, NextBatch
<1>2. \A m \in Loads, d \in Clients :
        query'[m][d] = IF m # l THEN query[m][d]
                       ELSE IF d = c THEN "none"
                       ELSE IF d \in S THEN StartPhase ELSE query[m][d]
  BY <1>1 DEF TypeOK, Launch
<1>3. \A m \in Loads, d \in Clients :
        answer'[m][d] = IF m = l /\ d = c THEN Missing ELSE answer[m][d]
  BY DEF TypeOK, QueryDone, Put
<1>4. \A m \in Loads : m # l => results'[m] = results[m]
  BY DEF TypeOK, QueryDone, Put
<1>5. pc[l] = "pool" /\ pc' = pc
  BY DEF QueryDone
<1>6. Quiet'
  <2>1. ASSUME NEW m \in Loads, NEW d \in Clients, m # l
        PROVE  /\ pc'[m] = pc[m] /\ query'[m][d] = query[m][d]
               /\ answer'[m][d] = answer[m][d] /\ results'[m][d] = results[m][d]
    BY <1>2, <1>3, <1>4, <1>5, <2>1
  <2>2. ASSUME NEW d \in Clients
        PROVE  query'[l][d] # "read" => answer'[l][d] = Missing
    <3>1. d \in S => query[l][d] = "none"
      BY <1>1 DEF AtWork, Waiting
    <3>2. query[l][d] # "read" => answer[l][d] = Missing
      BY DEF AtWork, Quiet
    <3>3. QED
      BY <1>2, <1>3, <3>1, <3>2
  <2>3. QED
    BY <1>5, <2>1, <2>2 DEF AtWork, Quiet
<1>7. OneQuery'
  BY <1>2, <1>5 DEF AtWork, OneQuery
<1>8. \A m \in Loads : todo'[m] = IF m = l THEN todo[l] \ S ELSE todo[m]
  BY <1>1 DEF TypeOK
<1>9. Waiting'
  BY <1>2, <1>5, <1>8 DEF AtWork, Waiting
<1>10. QED
  BY <1>6, <1>7, <1>9 DEF AtWork

\* a call settles its last connector and returns
LEMMA AtWorkReturn ==
  ASSUME TypeOK, AtWork, NEW l \in Loads, NEW c \in Clients, NEW v,
         StoreSummary(l, c, v) \/ PatchClient(l, c, v)
  PROVE  AtWork'
<1>1. \A m \in Loads, d \in Clients :
        /\ query'[m][d] = IF m = l /\ d = c THEN "none" ELSE query[m][d]
        /\ answer'[m][d] = IF m = l /\ d = c THEN Missing ELSE answer[m][d]
  BY DEF TypeOK, StoreSummary, PatchClient, Put
<1>2. \A d \in Clients : query[l][d] = "none" \/ d = c
  BY DEF AtWork, OneQuery, StoreSummary, PatchClient, Last, Live, Settles
<1>3. \A d \in Clients : results'[l][d] = Missing
  BY DEF TypeOK, AtWork, Quiet, StoreSummary, PatchClient, Nothing
<1>4. \A m \in Loads : m # l => results'[m] = results[m] /\ pc'[m] = pc[m]
  BY DEF TypeOK, StoreSummary, PatchClient, Return
<1>5. pc'[l] = "idle"
  BY DEF TypeOK, StoreSummary, PatchClient, Return
<1>6. Quiet' /\ OneQuery'
  BY <1>1, <1>2, <1>3, <1>4, <1>5 DEF AtWork, Quiet, OneQuery
<1>7. todo' = todo /\ todo[l] = {}
  <2>1. CASE StoreSummary(l, c, v)
    BY <2>1 DEF StoreSummary, Last
  <2>2. CASE PatchClient(l, c, v)
    <3>1. todo[l] \subseteq Clients /\ pc[l] = "one" /\ todo' = todo
      BY <2>2 DEF PatchClient, TypeOK
    <3>2. QED
      BY <3>1 DEF AtWork, Waiting
  <2>3. QED
    BY <2>1, <2>2
<1>8. Waiting'
  BY <1>1, <1>4, <1>7 DEF AtWork, Waiting
<1>9. QED
  BY <1>6, <1>8 DEF AtWork

LEMMA AtWorkStep == TypeOK /\ AtWork /\ [Next]_vars => AtWork'
<1> SUFFICES ASSUME TypeOK, AtWork, [Next]_vars PROVE AtWork'
  OBVIOUS
<1>1. ASSUME NEW l \in Loads, Progress(l) PROVE AtWork'
  BY <1>1, AtWorkList, AtWorkConnector, AtWorkQueryDone, AtWorkReturn DEF Progress
<1>2. CASE Shutdown
  <2>1. \A m \in Loads, d \in Clients :
          /\ query'[m][d] # "none" <=> query[m][d] # "none"
          /\ query'[m][d] # "read" <=> query[m][d] # "read"
    BY <1>2 DEF Shutdown, TypeOK
  <2>2. UNCHANGED <<pc, todo, answer, results>>
    BY <1>2 DEF Shutdown, loadVars
  <2>3. QED
    BY <2>1, <2>2 DEF AtWork, Quiet, OneQuery, Waiting
<1>3. CASE (\E c \in Clients : QueueChanges(c)) \/ UNCHANGED vars
  BY <1>3 DEF QueueChanges, vars, loadVars, poolVars, AtWork, Quiet,
                OneQuery, Waiting
<1>4. QED
  BY <1>1, <1>2, <1>3, AtWorkAsk DEF Next

\* only StoreSummary takes a pool back to idle
LEMMA StoresOnly ==
  ASSUME TypeOK, [Next]_vars, NEW l \in Loads, Stores(l)
  PROVE  \E c \in Clients, v \in Answers : StoreSummary(l, c, v)
<1>1. pc[l] = "pool" /\ pc'[l] = "idle"
  BY DEF Stores
<1>2. PICK m \in Loads : Ask(m) \/ Progress(m)
  BY <1>1 DEF Next, QueueChanges, Shutdown, vars, loadVars
<1>3. CASE m = l
  <2>1. ~ Ask(m) /\ ~ ListClients(m)
    BY <1>1, <1>3 DEF Ask, AskAll, AskOne, ListClients
  <2>2. \A c \in Clients : ~ SpawnChild(m, c) /\ ~ EvaluateQuery(m, c)
    BY <1>1 DEF SpawnChild, EvaluateQuery, loadVars
  <2>3. \A c \in Clients, v \in Answers : ~ QueryDone(m, c, v) /\ ~ PatchClient(m, c, v)
    BY <1>1, <1>3 DEF QueryDone, PatchClient
  <2>4. QED
    BY <1>2, <1>3, <2>1, <2>2, <2>3 DEF Progress
<1>4. CASE m # l
  <2>1. ~ Ask(m) /\ ~ ListClients(m)
    BY <1>1, <1>4 DEF Ask, AskAll, AskOne, ListClients, TypeOK
  <2>2. \A c \in Clients : ~ SpawnChild(m, c) /\ ~ EvaluateQuery(m, c)
    BY <1>1 DEF SpawnChild, EvaluateQuery, loadVars
  <2>3. \A c \in Clients, v \in Answers :
          ~ QueryDone(m, c, v) /\ ~ PatchClient(m, c, v) /\ ~ StoreSummary(m, c, v)
    BY <1>1, <1>4 DEF QueryDone, PatchClient, StoreSummary, Return, TypeOK
  <2>4. QED
    BY <1>2, <2>1, <2>2, <2>3 DEF Progress
<1>5. QED
  BY <1>3, <1>4

----------------------------------------------------------------------------
(* No refresh goes back behind what it found *)

\* Whatever is cached, or was when a call began, DB2 has already said; what a
\* call has read since is at least as new as what was cached when it began.
Ordered ==
  /\ \A w \in Windows, c \in Clients : entry[w][c] <= version[c]
  /\ \A l \in Loads, c \in Clients : base[l][c] <= version[c]
  /\ \A l \in Loads, c \in Clients :
       answer[l][c] >= 0 => base[l][c] <= answer[l][c] /\ answer[l][c] <= version[c]
  /\ \A l \in Loads, c \in Clients :
       results[l][c] >= 0 => base[l][c] <= results[l][c] /\ results[l][c] <= version[c]

LEMMA Numbers ==
  ASSUME TypeOK, NEW c \in Clients
  PROVE  /\ version[c] \in Nat
         /\ \A w \in Windows : entry[w][c] \in Int
         /\ \A l \in Loads : /\ base[l][c] \in Int /\ answer[l][c] \in Int
                             /\ results[l][c] \in Int
<1>1. Answers \subseteq Int /\ Versions \subseteq Nat
  BY BatchAssumption DEF Answers, Versions, Missing, Failed
<1>2. /\ version[c] \in Versions
      /\ \A w \in Windows : entry[w][c] \in Answers
      /\ \A l \in Loads : /\ base[l][c] \in Answers
                          /\ answer[l][c] \in Versions \cup {Missing}
                          /\ results[l][c] \in Answers
  BY DEF TypeOK
<1>3. version[c] \in Nat /\ \A w \in Windows : entry[w][c] \in Int
  BY <1>1, <1>2
<1>4. ASSUME NEW l \in Loads
      PROVE  base[l][c] \in Int /\ answer[l][c] \in Int /\ results[l][c] \in Int
  <2>1. base[l][c] \in Int /\ results[l][c] \in Int
    BY <1>1, <1>2
  <2>2. answer[l][c] \in Nat \/ answer[l][c] = -1
    BY <1>1, <1>2 DEF Missing
  <2>3. QED
    BY <2>1, <2>2
<1>5. QED
  BY <1>3, <1>4

LEMMA OrderedInit == Init => Ordered
  BY DEF Init, Ordered, Nothing, Missing

LEMMA OrderedAsk ==
  ASSUME TypeOK, AtWork, Ordered, NEW l \in Loads, Ask(l)
  PROVE  Ordered'
<1>1. PICK w \in Windows : AskAll(l, w) \/ \E c \in Clients : AskOne(l, c, w)
  BY DEF Ask
<1>2. CASE AskAll(l, w)
  <2>1. \A m \in Loads : base'[m] = IF m = l THEN entry[w] ELSE base[m]
    BY <1>2 DEF AskAll, TypeOK
  <2>2. \A c \in Clients : answer[l][c] = -1 /\ results[l][c] = -1
    BY <1>2 DEF AskAll, AtWork, Quiet, Missing
  <2>3. UNCHANGED <<version, entry, answer, results>>
    BY <1>2 DEF AskAll, cacheVars, poolVars
  <2>4. QED
    BY <2>1, <2>2, <2>3 DEF Ordered
<1>3. ASSUME NEW c \in Clients, AskOne(l, c, w) PROVE Ordered'
  BY <1>3 DEF AskOne, Ordered, cacheVars
<1>4. QED
  BY <1>1, <1>2, <1>3

\* the value a query settles with
LEMMA SettledOrder ==
  ASSUME TypeOK, Ordered,
         NEW l \in Loads, NEW c \in Clients, NEW v, Settles(l, c, v)
  PROVE  /\ v \in Int /\ v <= version[c]
         /\ v >= 0 => base[l][c] <= v
<1>1. version[c] \in Nat /\ answer[l][c] \in Int
  BY Numbers
<1>2. CASE v = Failed
  BY <1>1, <1>2 DEF Failed
<1>3. CASE v = answer[l][c]
  BY <1>1, <1>3 DEF Ordered
<1>4. QED
  BY <1>2, <1>3 DEF Settles

LEMMA OrderedQueryDone ==
  ASSUME TypeOK, Ordered,
         NEW l \in Loads, NEW c \in Clients, NEW v, QueryDone(l, c, v)
  PROVE  Ordered'
<1>1. \A m \in Loads, d \in Clients :
        answer'[m][d] = IF m = l /\ d = c THEN -1 ELSE answer[m][d]
  BY DEF TypeOK, QueryDone, Put, Missing
<1>2. \A m \in Loads, d \in Clients :
        results'[m][d] = IF m = l /\ d = c THEN v ELSE results[m][d]
  BY DEF TypeOK, QueryDone, Put
<1>3. v <= version[c] /\ (v >= 0 => base[l][c] <= v)
  BY SettledOrder DEF QueryDone
<1>4. UNCHANGED <<version, entry, base>>
  BY DEF QueryDone, cacheVars
<1>5. QED
  BY <1>1, <1>2, <1>3, <1>4 DEF Ordered

LEMMA OrderedReturn ==
  ASSUME TypeOK, AtWork, Ordered, NEW l \in Loads, NEW c \in Clients, NEW v,
         StoreSummary(l, c, v) \/ PatchClient(l, c, v)
  PROVE  Ordered'
<1>1. \A m \in Loads, d \in Clients :
        answer'[m][d] = IF m = l /\ d = c THEN -1 ELSE answer[m][d]
  BY DEF TypeOK, StoreSummary, PatchClient, Put, Missing
<1>2. \A m \in Loads, d \in Clients :
        base'[m][d] = IF m = l THEN -1 ELSE base[m][d]
  BY DEF TypeOK, StoreSummary, PatchClient, Return, Nothing, Missing
<1>3. \A m \in Loads, d \in Clients :
        results'[m][d] = IF m = l THEN -1 ELSE results[m][d]
  <2>1. CASE StoreSummary(l, c, v)
    BY <2>1 DEF TypeOK, StoreSummary, Nothing, Missing
  <2>2. CASE PatchClient(l, c, v)
    BY <2>2 DEF PatchClient, AtWork, Quiet, Missing
  <2>3. QED
    BY <2>1, <2>2
<1>4. v \in Int /\ v <= version[c] /\ window[l] \in Windows /\ version' = version
  BY SettledOrder DEF StoreSummary, PatchClient, TypeOK
<1>5. ASSUME NEW w \in Windows, NEW d \in Clients
      PROVE  entry'[w][d] <= version[d]
  <2>1. entry[w][d] <= version[d]
    BY DEF Ordered
  <2>2. CASE StoreSummary(l, c, v)
    <3>1. w = window[l] => entry'[w][d] = IF d = c THEN v ELSE results[l][d]
      BY <1>4, <2>2 DEF StoreSummary, TypeOK
    <3>2. w # window[l] => entry'[w] = entry[w]
      BY <1>4, <2>2 DEF StoreSummary, TypeOK
    <3>3. results[l][d] <= version[d]
      BY Numbers DEF Ordered
    <3>4. QED
      BY <1>4, <2>1, <3>1, <3>2, <3>3
  <2>3. CASE PatchClient(l, c, v)
    <3>1. entry'[w][d] = entry[w][d] \/ (d = c /\ entry'[w][d] = v)
      BY <1>4, <2>3 DEF PatchClient, TypeOK, Put
    <3>2. QED
      BY <1>4, <2>1, <3>1
  <2>4. QED
    BY <2>2, <2>3
<1>6. ASSUME NEW m \in Loads, NEW d \in Clients
      PROVE  /\ base'[m][d] <= version[d]
             /\ answer'[m][d] >= 0 => base'[m][d] <= answer'[m][d] /\ answer'[m][d] <= version[d]
             /\ results'[m][d] >= 0 => base'[m][d] <= results'[m][d] /\ results'[m][d] <= version[d]
  BY <1>1, <1>2, <1>3, Numbers DEF Ordered
<1>7. QED
  BY <1>4, <1>5, <1>6 DEF Ordered

LEMMA OrderedStep == TypeOK /\ AtWork /\ Ordered /\ [Next]_vars => Ordered'
<1> SUFFICES ASSUME TypeOK, AtWork, Ordered, [Next]_vars PROVE Ordered'
  OBVIOUS
<1>1. ASSUME UNCHANGED <<version, entry, base, answer, results>> PROVE Ordered'
  BY <1>1 DEF Ordered
<1>2. ASSUME NEW l \in Loads, NEW c \in Clients, EvaluateQuery(l, c) PROVE Ordered'
  <2>1. \A m \in Loads, d \in Clients :
          answer'[m][d] = IF m = l /\ d = c THEN version[c] ELSE answer[m][d]
    BY <1>2 DEF EvaluateQuery, Put, TypeOK
  <2>2. UNCHANGED <<version, entry, base, results>>
    BY <1>2 DEF EvaluateQuery, cacheVars, loadVars
  <2>3. version[c] <= version[c]
    BY Numbers
  <2>4. QED
    BY <2>1, <2>2, <2>3 DEF Ordered
<1>3. ASSUME NEW l \in Loads, Progress(l) PROVE Ordered'
  <2>1. CASE ListClients(l)
    BY <1>1, <2>1 DEF ListClients, cacheVars
  <2>2. ASSUME NEW c \in Clients, SpawnChild(l, c) PROVE Ordered'
    BY <1>1, <2>2 DEF SpawnChild, cacheVars, loadVars
  <2>3. QED
    BY <1>2, <1>3, <2>1, <2>2, OrderedQueryDone, OrderedReturn DEF Progress
<1>4. ASSUME NEW c \in Clients, QueueChanges(c) PROVE Ordered'
  <2>1. \A d \in Clients : version'[d] = IF d = c THEN version[c] + 1 ELSE version[d]
    BY <1>4 DEF QueueChanges, TypeOK
  <2>2. UNCHANGED <<entry, base, answer, results>>
    BY <1>4 DEF QueueChanges, cacheVars, loadVars, poolVars
  <2>3. QED
    BY <2>1, <2>2, Numbers DEF Ordered
<1>5. CASE Shutdown \/ UNCHANGED vars
  BY <1>1, <1>5 DEF Shutdown, vars, cacheVars, loadVars, poolVars
<1>6. QED
  BY <1>2, <1>3, <1>4, <1>5, OrderedAsk DEF Next

LEMMA NotBehindStep ==
  ASSUME TypeOK, Ordered, [Next]_vars, NEW l \in Loads, Stores(l),
         NEW c \in Clients, entry'[window[l]][c] \in Versions
  PROVE  entry'[window[l]][c] >= base[l][c]
<1>1. PICK d \in Clients, v \in Answers : StoreSummary(l, d, v)
  BY StoresOnly
<1>2. entry'[window[l]][c] = IF c = d THEN v ELSE results[l][c]
  BY <1>1 DEF StoreSummary, TypeOK
<1>3. CASE c = d
  <2>1. v >= 0 => base[l][c] <= v
    BY <1>1, <1>3, SettledOrder DEF StoreSummary
  <2>2. v >= 0
    BY <1>2, <1>3, BatchAssumption DEF Versions
  <2>3. v \in Int /\ base[l][c] \in Int
    BY <1>1, <1>3, Numbers, SettledOrder DEF StoreSummary
  <2>4. QED
    BY <1>2, <1>3, <2>1, <2>2, <2>3
<1>4. CASE c # d
  <2>1. results[l][c] >= 0
    BY <1>2, <1>4, BatchAssumption DEF Versions
  <2>2. QED
    BY <1>2, <1>4, <2>1, Numbers DEF Ordered
<1>5. QED
  BY <1>3, <1>4

\* However refreshes and patches overlap, and whatever DB2 answers in between, a
\* refresh does not take any client behind what the cache held when it began.
THEOREM NeverGoesBack == Spec => RefreshNeverGoesBack
<1>1. TypeOK /\ Ordered /\ [Next]_vars =>
        [\A l \in Loads : Stores(l) =>
           \A c \in Clients : entry'[window[l]][c] \in Versions =>
                                entry'[window[l]][c] >= base[l][c]]_vars
  BY NotBehindStep
<1>2. Init => AtWork /\ Ordered
  BY AtWorkInit, OrderedInit
<1>3. QED
  BY <1>1, <1>2, TypeCorrect, AtWorkStep, OrderedStep, PTL DEF Spec, RefreshNeverGoesBack

----------------------------------------------------------------------------
(* Every client is answered *)

\* In a pool every available client waits, is being queried, or has an answer.
Accounted ==
  /\ \A l \in Loads, c \in Clients :
       pc[l] = "pool" /\ c \in avail[l] =>
         c \in todo[l] \/ query[l][c] # "none" \/ results[l][c] # Missing
  /\ \A l \in Loads, c \in Clients : query[l][c] = "read" => answer[l][c] # Missing

LEMMA AccountedInit == Init => Accounted
  BY DEF Init, Accounted

LEMMA SettledAnswers ==
  ASSUME Accounted, NEW l \in Loads, NEW c \in Clients, NEW v, Settles(l, c, v)
  PROVE  v # Missing
  BY DEF Accounted, Settles, Missing, Failed

LEMMA AccountedAsk ==
  ASSUME TypeOK, Accounted, NEW l \in Loads, Ask(l)
  PROVE  Accounted'
<1>1. PICK w \in Windows : AskAll(l, w) \/ \E c \in Clients : AskOne(l, c, w)
  BY DEF Ask
<1>2. CASE AskAll(l, w)
  <2>1. \A m \in Loads : pc'[m] = IF m = l THEN "list" ELSE pc[m]
    BY <1>2 DEF AskAll, TypeOK
  <2>2. UNCHANGED <<avail, todo, query, answer, results>>
    BY <1>2 DEF AskAll, poolVars
  <2>3. QED
    BY <2>1, <2>2 DEF Accounted
<1>3. ASSUME NEW c \in Clients, AskOne(l, c, w) PROVE Accounted'
  <2>1. \A m \in Loads : pc'[m] = IF m = l THEN "one" ELSE pc[m]
    BY <1>3 DEF AskOne, TypeOK
  <2>2. \A m \in Loads, d \in Clients :
          query'[m][d] = IF m = l /\ d = c THEN StartPhase ELSE query[m][d]
    BY <1>3 DEF AskOne, Put, TypeOK
  <2>3. UNCHANGED <<avail, todo, answer, results>>
    BY <1>3 DEF AskOne
  <2>4. QED
    BY <2>1, <2>2, <2>3, StartIs DEF Accounted
<1>4. QED
  BY <1>1, <1>2, <1>3

LEMMA AccountedList ==
  ASSUME TypeOK, Accounted, NEW l \in Loads, ListClients(l)
  PROVE  Accounted'
<1>1. PICK A \in SUBSET Clients : \E S \in NextBatch(0, A) :
         /\ avail' = [avail EXCEPT ![l] = A] /\ todo' = [todo EXCEPT ![l] = A \ S]
         /\ query' = [query EXCEPT ![l] = Launch(l, S)]
  BY DEF ListClients
<1>2. PICK S : /\ avail' = [avail EXCEPT ![l] = A]
               /\ todo' = [todo EXCEPT ![l] = A \ S]
               /\ query' = [query EXCEPT ![l] = Launch(l, S)]
  BY <1>1
<1>3. \A m \in Loads, d \in Clients :
        query'[m][d] = IF m = l /\ d \in S THEN StartPhase ELSE query[m][d]
  BY <1>2 DEF TypeOK, Launch
<1>4. \A m \in Loads : /\ avail'[m] = IF m = l THEN A ELSE avail[m]
                       /\ todo'[m] = IF m = l THEN A \ S ELSE todo[m]
                       /\ m # l => pc'[m] = pc[m]
  BY <1>2 DEF TypeOK, ListClients
<1>5. UNCHANGED <<answer, results>>
  BY DEF ListClients
<1>6. QED
  BY <1>3, <1>4, <1>5, StartIs DEF Accounted

LEMMA AccountedConnector ==
  ASSUME TypeOK, Accounted, NEW l \in Loads, NEW c \in Clients,
         SpawnChild(l, c) \/ EvaluateQuery(l, c)
  PROVE  Accounted'
<1>1. UNCHANGED <<pc, avail, todo, results>>
  BY DEF SpawnChild, EvaluateQuery, loadVars
<1>2. CASE SpawnChild(l, c)
  <2>1. /\ answer' = answer
        /\ \A m \in Loads, d \in Clients :
             query'[m][d] = IF m = l /\ d = c THEN "child" ELSE query[m][d]
    BY <1>2 DEF SpawnChild, Put, TypeOK
  <2>2. QED
    BY <1>1, <2>1 DEF Accounted
<1>3. CASE EvaluateQuery(l, c)
  <2>1. \A m \in Loads, d \in Clients :
          query'[m][d] = IF m = l /\ d = c THEN "read" ELSE query[m][d]
    BY <1>3 DEF EvaluateQuery, Put, TypeOK
  <2>2. \A m \in Loads, d \in Clients :
          answer'[m][d] = IF m = l /\ d = c THEN version[c] ELSE answer[m][d]
    BY <1>3 DEF EvaluateQuery, Put, TypeOK
  <2>3. version[c] # Missing
    BY Numbers DEF Missing
  <2>4. QED
    BY <1>1, <2>1, <2>2, <2>3 DEF Accounted
<1>4. QED
  BY <1>2, <1>3

LEMMA AccountedQueryDone ==
  ASSUME TypeOK, AtWork, Accounted,
         NEW l \in Loads, NEW c \in Clients, NEW v, QueryDone(l, c, v)
  PROVE  Accounted'
<1>1. PICK S \in SUBSET todo[l] :
         /\ todo' = [todo EXCEPT ![l] = @ \ S]
         /\ query' = [query EXCEPT ![l] = [Launch(l, S) EXCEPT ![c] = "none"]]
  BY DEF QueryDone, NextBatch
<1>2. \A m \in Loads, d \in Clients :
        query'[m][d] = IF m # l THEN query[m][d]
                       ELSE IF d = c THEN "none"
                       ELSE IF d \in S THEN StartPhase ELSE query[m][d]
  BY <1>1 DEF TypeOK, Launch
<1>3. \A m \in Loads : todo'[m] = IF m = l THEN todo[l] \ S ELSE todo[m]
  BY <1>1 DEF TypeOK
<1>4. \A m \in Loads, d \in Clients :
        answer'[m][d] = IF m = l /\ d = c THEN Missing ELSE answer[m][d]
  BY DEF TypeOK, QueryDone, Put
<1>5. \A m \in Loads, d \in Clients :
        results'[m][d] = IF m = l /\ d = c THEN v ELSE results[m][d]
  BY DEF TypeOK, QueryDone, Put
<1>6. v # Missing
  BY SettledAnswers DEF QueryDone
<1>7. pc' = pc /\ avail' = avail
  BY DEF QueryDone
<1>8. \A m \in Loads, d \in Clients : query'[m][d] = "read" => answer'[m][d] # Missing
  BY <1>2, <1>4, StartIs DEF Accounted
<1>9. ASSUME NEW m \in Loads, NEW d \in Clients, pc[m] = "pool", d \in avail[m]
      PROVE  d \in todo'[m] \/ query'[m][d] # "none" \/ results'[m][d] # Missing
  <2>1. d \in todo[m] \/ query[m][d] # "none" \/ results[m][d] # Missing
    BY <1>9 DEF Accounted
  <2>2. CASE m = l
    BY <1>2, <1>3, <1>5, <1>6, <2>1, <2>2, StartIs
  <2>3. CASE m # l
    BY <1>2, <1>3, <1>5, <2>1, <2>3
  <2>4. QED
    BY <2>2, <2>3
<1>10. QED
  BY <1>7, <1>8, <1>9 DEF Accounted

LEMMA AccountedReturn ==
  ASSUME TypeOK, Accounted, NEW l \in Loads, NEW c \in Clients, NEW v,
         StoreSummary(l, c, v) \/ PatchClient(l, c, v)
  PROVE  Accounted'
<1>1. \A m \in Loads, d \in Clients :
        /\ query'[m][d] = IF m = l /\ d = c THEN "none" ELSE query[m][d]
        /\ answer'[m][d] = IF m = l /\ d = c THEN Missing ELSE answer[m][d]
  BY DEF TypeOK, StoreSummary, PatchClient, Put
<1>2. \A m \in Loads : m # l => /\ results'[m] = results[m] /\ pc'[m] = pc[m]
                                /\ avail'[m] = avail[m]
  BY DEF TypeOK, StoreSummary, PatchClient, Return
<1>3. pc'[l] = "idle" /\ todo' = todo
  BY DEF TypeOK, StoreSummary, PatchClient, Return
<1>4. QED
  BY <1>1, <1>2, <1>3 DEF Accounted

LEMMA AccountedStep == TypeOK /\ AtWork /\ Accounted /\ [Next]_vars => Accounted'
<1> SUFFICES ASSUME TypeOK, AtWork, Accounted, [Next]_vars PROVE Accounted'
  OBVIOUS
<1>1. ASSUME NEW l \in Loads, Progress(l) PROVE Accounted'
  BY <1>1, AccountedList, AccountedConnector, AccountedQueryDone, AccountedReturn
     DEF Progress
<1>2. CASE Shutdown
  <2>1. \A m \in Loads, d \in Clients :
          /\ query'[m][d] # "none" <=> query[m][d] # "none"
          /\ query'[m][d] = "read" <=> query[m][d] = "read"
    BY <1>2 DEF Shutdown, TypeOK
  <2>2. UNCHANGED <<pc, avail, todo, answer, results>>
    BY <1>2 DEF Shutdown, loadVars
  <2>3. QED
    BY <2>1, <2>2 DEF Accounted
<1>3. CASE (\E c \in Clients : QueueChanges(c)) \/ UNCHANGED vars
  BY <1>3 DEF QueueChanges, vars, loadVars, poolVars, Accounted
<1>4. QED
  BY <1>1, <1>2, <1>3, AccountedAsk DEF Next

LEMMA CompleteStep ==
  ASSUME TypeOK, Accounted, [Next]_vars, NEW l \in Loads, Stores(l),
         NEW c \in avail[l]
  PROVE  entry'[window[l]][c] # Missing
<1>1. PICK d \in Clients, v \in Answers : StoreSummary(l, d, v)
  BY StoresOnly
<1>2. c \in Clients
  BY DEF TypeOK
<1>3. entry'[window[l]][c] = IF c = d THEN v ELSE results[l][c]
  BY <1>1, <1>2 DEF StoreSummary, TypeOK
<1>4. v # Missing
  BY <1>1, SettledAnswers DEF StoreSummary
<1>5. c # d => results[l][c] # Missing
  BY <1>1, <1>2 DEF StoreSummary, Last, Live, Accounted
<1>6. QED
  BY <1>3, <1>4, <1>5

\* A pool is left only when every available client has an answer or an error,
\* for every number of clients and every concurrency limit.
THEOREM CompleteCorrect == Spec => SummaryIsComplete
<1>1. TypeOK /\ Accounted /\ [Next]_vars =>
        [\A l \in Loads : Stores(l) =>
           \A c \in avail[l] : entry'[window[l]][c] # Missing]_vars
  BY CompleteStep
<1>2. Init => AtWork /\ Accounted
  BY AtWorkInit, AccountedInit
<1>3. QED
  BY <1>1, <1>2, TypeCorrect, AtWorkStep, AccountedStep, PTL DEF Spec, SummaryIsComplete

----------------------------------------------------------------------------
(* The pool *)

LEMMA PoolList ==
  ASSUME IsFiniteSet(Clients), TypeOK, AtWork, PoolIsBounded,
         NEW l \in Loads, ListClients(l)
  PROVE  PoolIsBounded'
<1>1. PICK A \in SUBSET Clients : \E S \in NextBatch(0, A) :
         query' = [query EXCEPT ![l] = Launch(l, S)]
  BY DEF ListClients
<1>2. PICK S \in NextBatch(0, A) : query' = [query EXCEPT ![l] = Launch(l, S)]
  BY <1>1
<1>3. \A m \in Loads, d \in Clients :
        query'[m][d] = IF m = l /\ d \in S THEN StartPhase ELSE query[m][d]
  BY <1>2 DEF TypeOK, Launch
<1>4. pc[l] = "list" /\ \A m \in Loads : m # l => pc'[m] = pc[m]
  BY DEF ListClients, TypeOK
<1>5. S \in SUBSET Clients
  BY DEF NextBatch
<1>6. Live(l)' = S
  BY <1>3, <1>4, <1>5, StartIs DEF Live, AtWork, Quiet
<1>7. Cardinality(S) <= Limit
  <2>1. Cardinality(S) \in Nat /\ Limit \in Nat
    BY <1>5, FS_Subset, FS_CardinalityType, BatchAssumption
  <2>2. QED
    BY <2>1 DEF NextBatch
<1>8. \A m \in Loads : m # l => Live(m)' = Live(m)
  BY <1>3 DEF Live
<1>9. QED
  BY <1>4, <1>6, <1>7, <1>8 DEF PoolIsBounded

LEMMA PoolQueryDone ==
  ASSUME IsFiniteSet(Clients), TypeOK, AtWork, PoolIsBounded,
         NEW l \in Loads, NEW c \in Clients, NEW v, QueryDone(l, c, v)
  PROVE  PoolIsBounded'
<1> DEFINE n == Cardinality(Live(l)) - 1
<1>1. PICK S \in NextBatch(n, todo[l]) :
         query' = [query EXCEPT ![l] = [Launch(l, S) EXCEPT ![c] = "none"]]
  BY DEF QueryDone
<1>2. S \in SUBSET todo[l] /\ (n + Cardinality(S) <= Limit \/ n + Cardinality(S) = Limit)
  BY <1>1 DEF NextBatch
<1>3. todo[l] \in SUBSET Clients /\ Live(l) \in SUBSET Clients
  BY DEF TypeOK, Live
<1>4. \A m \in Loads, d \in Clients :
        query'[m][d] = IF m # l THEN query[m][d]
                       ELSE IF d = c THEN "none"
                       ELSE IF d \in S THEN StartPhase ELSE query[m][d]
  BY <1>1 DEF TypeOK, Launch
<1>5. pc[l] = "pool" /\ pc' = pc /\ c \in Live(l)
  BY DEF QueryDone, Settles, Live
<1>6. S \cap Live(l) = {}
  BY <1>2, <1>3 DEF AtWork, Waiting, Live
<1>7. Live(l)' = (Live(l) \ {c}) \cup S
  BY <1>2, <1>3, <1>4, <1>5, <1>6, StartIs DEF Live
<1>8. IsFiniteSet(Live(l)) /\ IsFiniteSet(S)
  <2>1. S \in SUBSET Clients
    BY <1>2, <1>3
  <2>2. QED
    BY <1>3, <2>1, FS_Subset
<1>9. Cardinality(Live(l)') <= Limit
  <2> DEFINE R == Live(l) \ {c}
  <2>1. IsFiniteSet(R) /\ Cardinality(R) = n
    BY <1>5, <1>8, FS_RemoveElement
  <2>2. R \cap S = {}
    BY <1>6
  <2>3. Cardinality(R \cup S) = Cardinality(R) + Cardinality(S) - Cardinality(R \cap S)
    <3> HIDE DEF R
    <3>1. QED
      BY <1>8, <2>1, FS_Union
  <2>4. Cardinality(R \cap S) = 0
    BY <2>2, FS_EmptySet
  <2>5. n \in Int /\ Cardinality(S) \in Nat /\ Limit \in Nat
    BY <1>8, FS_CardinalityType, BatchAssumption
  <2> HIDE DEF n, R
  <2>6. Cardinality(R \cup S) <= Limit
    BY <1>2, <2>1, <2>3, <2>4, <2>5
  <2>7. QED
    BY <1>7, <2>6 DEF R
<1>10. \A m \in Loads : m # l => Live(m)' = Live(m)
  BY <1>4 DEF Live
<1>11. QED
  BY <1>5, <1>9, <1>10 DEF PoolIsBounded

\* A step that opens no connector in a pool.
LEMMA PoolSame ==
  ASSUME PoolIsBounded, \A l \in Loads : pc'[l] = "pool" => pc[l] = "pool" /\ Live(l)' = Live(l)
  PROVE  PoolIsBounded'
  BY DEF PoolIsBounded

LEMMA PoolBoundStep ==
  ASSUME IsFiniteSet(Clients), TypeOK, AtWork, PoolIsBounded, [Next]_vars
  PROVE  PoolIsBounded'
<1>1. ASSUME NEW l \in Loads, Ask(l) PROVE PoolIsBounded'
  <2>1. PICK w \in Windows : AskAll(l, w) \/ \E c \in Clients : AskOne(l, c, w)
    BY <1>1 DEF Ask
  <2>2. \A m \in Loads : pc'[m] = "pool" => m # l /\ pc[m] = "pool"
    BY <2>1 DEF AskAll, AskOne, TypeOK
  <2>3. \A m \in Loads : m # l => query'[m] = query[m]
    BY <2>1 DEF AskAll, AskOne, Put, poolVars, TypeOK
  <2>4. QED
    BY <2>2, <2>3, PoolSame DEF Live
<1>2. ASSUME NEW l \in Loads, NEW c \in Clients, SpawnChild(l, c) \/ EvaluateQuery(l, c)
      PROVE  PoolIsBounded'
  <2>1. UNCHANGED pc
    BY <1>2 DEF SpawnChild, EvaluateQuery, loadVars
  <2>2. PICK p \in {"child", "read"} : query' = Put(query, l, c, p)
    BY <1>2 DEF SpawnChild, EvaluateQuery
  <2>3. query[l][c] # "none"
    BY <1>2 DEF SpawnChild, EvaluateQuery
  <2>4. \A m \in Loads, d \in Clients :
          query'[m][d] = IF m = l /\ d = c THEN p ELSE query[m][d]
    BY <2>2 DEF Put, TypeOK
  <2>5. \A m \in Loads : Live(m)' = Live(m)
    BY <2>3, <2>4 DEF Live
  <2>6. QED
    BY <2>1, <2>5, PoolSame
<1>3. ASSUME NEW l \in Loads, NEW c \in Clients, NEW v \in Answers,
             StoreSummary(l, c, v) \/ PatchClient(l, c, v)
      PROVE  PoolIsBounded'
  <2>1. \A m \in Loads : pc'[m] = "pool" => m # l /\ pc[m] = "pool"
    BY <1>3 DEF StoreSummary, PatchClient, Return, TypeOK
  <2>2. \A m \in Loads : m # l => query'[m] = query[m]
    BY <1>3 DEF StoreSummary, PatchClient, Put, TypeOK
  <2>3. QED
    BY <2>1, <2>2, PoolSame DEF Live
<1>4. CASE Shutdown
  <2>1. \A m \in Loads, d \in Clients : query'[m][d] # "none" <=> query[m][d] # "none"
    BY <1>4 DEF Shutdown, TypeOK
  <2>2. UNCHANGED pc
    BY <1>4 DEF Shutdown, loadVars
  <2>3. QED
    BY <2>1, <2>2, PoolSame DEF Live
<1>5. CASE (\E c \in Clients : QueueChanges(c)) \/ UNCHANGED vars
  BY <1>5, PoolSame DEF QueueChanges, vars, loadVars, poolVars, Live
<1>6. QED
  BY <1>1, <1>2, <1>3, <1>4, <1>5, PoolList, PoolQueryDone DEF Next, Progress

\* One refresh never runs more connectors than its limit, however many clients it
\* has to ask and in whatever order they answer.
THEOREM PoolBounded ==
  ASSUME IsFiniteSet(Clients)
  PROVE  Spec => []PoolIsBounded
<1>1. Init => PoolIsBounded
  BY DEF Init, PoolIsBounded
<1>2. TypeOK /\ AtWork /\ PoolIsBounded /\ [Next]_vars => PoolIsBounded'
  BY PoolBoundStep
<1>3. QED
  BY <1>1, <1>2, TypeInit, TypeStep, AtWorkInit, AtWorkStep, PTL DEF Spec

----------------------------------------------------------------------------
(* What the return of a refresh rests on.  That it returns is a liveness        *)
(* property, which TLC checks; two safety facts carry it: a pool that has not   *)
(* returned has a query under way, and every step of its own uses up one of the *)
(* finitely many that its clients leave to take.                                *)

\* The steps of l that client c may still take: started, spawned, evaluated, settled.
StepsLeft(l, c) ==
  IF c \in todo[l] THEN 4
  ELSE IF query[l][c] = "env" THEN 3
  ELSE IF query[l][c] = "child" THEN 2
  ELSE IF query[l][c] \in {"read", "dead"} THEN 1
  ELSE 0

\* A pool with clients never waits for nothing.
Working == \A l \in Loads : pc[l] = "pool" /\ avail[l] # {} => Live(l) # {}

\* No step of any call adds to what a pool has left, and each of its own takes from it.
UsesUpSteps ==
  [][\A l \in Loads : pc[l] = "pool" /\ pc'[l] = "pool" =>
       /\ \A c \in Clients : StepsLeft(l, c)' <= StepsLeft(l, c)
       /\ Progress(l) => \E c \in Clients : StepsLeft(l, c)' < StepsLeft(l, c)]_vars

\* What starts with room in the pool is everything, or something.
LEMMA BatchStarts ==
  ASSUME NEW n \in Int, n < Limit, NEW T, T # {}, NEW S \in NextBatch(n, T)
  PROVE  S # {}
<1>1. Cardinality({}) = 0
  BY FS_EmptySet
<1>2. S = T \/ n + Cardinality(S) = Limit
  BY DEF NextBatch
<1>3. Limit \in Int
  BY BatchAssumption
<1>4. QED
  BY <1>1, <1>2, <1>3

LEMMA WorkingList ==
  ASSUME TypeOK, AtWork, Working, NEW l \in Loads, ListClients(l)
  PROVE  Working'
<1>1. PICK A \in SUBSET Clients : \E S \in NextBatch(0, A) :
         /\ avail' = [avail EXCEPT ![l] = A] /\ query' = [query EXCEPT ![l] = Launch(l, S)]
  BY DEF ListClients
<1>2. PICK S \in NextBatch(0, A) :
         /\ avail' = [avail EXCEPT ![l] = A] /\ query' = [query EXCEPT ![l] = Launch(l, S)]
  BY <1>1
<1>3. S \in SUBSET Clients
  BY DEF NextBatch
<1>4. \A m \in Loads, d \in Clients :
        query'[m][d] = IF m = l /\ d \in S THEN StartPhase ELSE query[m][d]
  BY <1>2 DEF TypeOK, Launch
<1>5. /\ avail'[l] = A
      /\ \A m \in Loads : m # l => avail'[m] = avail[m] /\ pc'[m] = pc[m]
  BY <1>2 DEF ListClients, TypeOK
<1>6. A # {} => S # {}
  <2>1. 0 \in Int /\ 0 < Limit
    BY BatchAssumption
  <2>2. QED
    BY <2>1, BatchStarts
<1>7. S \subseteq Live(l)'
  BY <1>3, <1>4, StartIs DEF Live
<1>8. \A m \in Loads : m # l => Live(m)' = Live(m)
  BY <1>4 DEF Live
<1>9. QED
  BY <1>5, <1>6, <1>7, <1>8 DEF Working

LEMMA WorkingQueryDone ==
  ASSUME TypeOK, AtWork, Working,
         NEW l \in Loads, NEW c \in Clients, NEW v, QueryDone(l, c, v)
  PROVE  Working'
<1>1. PICK S \in NextBatch(Cardinality(Live(l)) - 1, todo[l]) :
         query' = [query EXCEPT ![l] = [Launch(l, S) EXCEPT ![c] = "none"]]
  BY DEF QueryDone
<1>2. S \in SUBSET todo[l] /\ todo[l] \in SUBSET Clients
  BY <1>1 DEF NextBatch, TypeOK
<1>3. \A m \in Loads, d \in Clients :
        query'[m][d] = IF m # l THEN query[m][d]
                       ELSE IF d = c THEN "none"
                       ELSE IF d \in S THEN StartPhase ELSE query[m][d]
  BY <1>1 DEF TypeOK, Launch
<1>4. pc' = pc /\ avail' = avail /\ ~ Last(l, c) /\ c \in Live(l)
  BY DEF QueryDone, Settles, Live
<1>5. c \notin S
  BY <1>2, <1>4 DEF AtWork, Waiting, Live
<1>6. Live(l)' # {}
  <2>1. CASE Live(l) = {c}
    <3>1. todo[l] # {}
      BY <1>4, <2>1 DEF Last
    <3>2. Cardinality(Live(l)) - 1 = 0
      <4>1. Cardinality({c}) = 1
        BY FS_Singleton
      <4>2. QED
        BY <2>1, <4>1
    <3>3. 0 \in Int /\ 0 < Limit
      BY BatchAssumption
    <3>4. S # {}
      BY <1>1, <3>1, <3>2, <3>3, BatchStarts
    <3>5. S \subseteq Live(l)'
      BY <1>2, <1>3, <1>5, StartIs DEF Live
    <3>6. QED
      BY <3>4, <3>5
  <2>2. CASE Live(l) # {c}
    <3>1. PICK d \in Live(l) : d # c
      BY <1>4, <2>2
    <3>2. d \in Live(l)'
      BY <1>3, <3>1, StartIs DEF Live
    <3>3. QED
      BY <3>2
  <2>3. QED
    BY <2>1, <2>2
<1>7. \A m \in Loads : m # l => Live(m)' = Live(m)
  BY <1>3 DEF Live
<1>8. QED
  BY <1>4, <1>6, <1>7 DEF Working

\* A step after which every pool was one before, with the same clients and queries.
LEMMA WorkingSame ==
  ASSUME Working,
         \A l \in Loads : pc'[l] = "pool" =>
           pc[l] = "pool" /\ avail'[l] = avail[l] /\ Live(l)' = Live(l)
  PROVE  Working'
  BY DEF Working

LEMMA WorkingStep ==
  ASSUME TypeOK, AtWork, Working, [Next]_vars
  PROVE  Working'
<1>1. ASSUME NEW l \in Loads, Ask(l) PROVE Working'
  <2>1. PICK w \in Windows : AskAll(l, w) \/ \E c \in Clients : AskOne(l, c, w)
    BY <1>1 DEF Ask
  <2>2. \A m \in Loads : pc'[m] = "pool" => m # l /\ pc[m] = "pool"
    BY <2>1 DEF AskAll, AskOne, TypeOK
  <2>3. \A m \in Loads : m # l => query'[m] = query[m] /\ avail'[m] = avail[m]
    BY <2>1 DEF AskAll, AskOne, Put, poolVars, TypeOK
  <2>4. QED
    BY <2>2, <2>3, WorkingSame DEF Live
<1>2. ASSUME NEW l \in Loads, NEW c \in Clients, SpawnChild(l, c) \/ EvaluateQuery(l, c)
      PROVE  Working'
  <2>1. UNCHANGED <<pc, avail>>
    BY <1>2 DEF SpawnChild, EvaluateQuery, loadVars
  <2>2. PICK p \in {"child", "read"} : query' = Put(query, l, c, p)
    BY <1>2 DEF SpawnChild, EvaluateQuery
  <2>3. query[l][c] # "none"
    BY <1>2 DEF SpawnChild, EvaluateQuery
  <2>4. \A m \in Loads, d \in Clients :
          query'[m][d] = IF m = l /\ d = c THEN p ELSE query[m][d]
    BY <2>2 DEF Put, TypeOK
  <2>5. \A m \in Loads : Live(m)' = Live(m)
    BY <2>3, <2>4 DEF Live
  <2>6. QED
    BY <2>1, <2>5, WorkingSame
<1>3. ASSUME NEW l \in Loads, NEW c \in Clients, NEW v \in Answers,
             StoreSummary(l, c, v) \/ PatchClient(l, c, v)
      PROVE  Working'
  <2>1. \A m \in Loads : pc'[m] = "pool" => m # l /\ pc[m] = "pool"
    BY <1>3 DEF StoreSummary, PatchClient, Return, TypeOK
  <2>2. \A m \in Loads : m # l => query'[m] = query[m] /\ avail'[m] = avail[m]
    BY <1>3 DEF StoreSummary, PatchClient, Return, Put, TypeOK
  <2>3. QED
    BY <2>1, <2>2, WorkingSame DEF Live
<1>4. CASE Shutdown
  <2>1. \A m \in Loads, d \in Clients : query'[m][d] # "none" <=> query[m][d] # "none"
    BY <1>4 DEF Shutdown, TypeOK
  <2>2. UNCHANGED <<pc, avail>>
    BY <1>4 DEF Shutdown, loadVars
  <2>3. QED
    BY <2>1, <2>2, WorkingSame DEF Live
<1>5. CASE (\E c \in Clients : QueueChanges(c)) \/ UNCHANGED vars
  BY <1>5, WorkingSame DEF QueueChanges, vars, loadVars, poolVars, Live
<1>6. QED
  BY <1>1, <1>2, <1>3, <1>4, <1>5, WorkingList, WorkingQueryDone DEF Next, Progress

\* A refresh that has a client to ask always has a connector at work, so it is never
\* left waiting for an answer that nobody will give.  (Without a client it is:
\* the promise of the pool is resolved by its last query.)
THEOREM PoolWorks == Spec => []Working
<1>1. Init => Working
  BY DEF Init, Working
<1>2. TypeOK /\ AtWork /\ Working /\ [Next]_vars => Working'
  BY WorkingStep
<1>3. QED
  BY <1>1, <1>2, TypeInit, TypeStep, AtWorkInit, AtWorkStep, PTL DEF Spec

\* The pool of l as it is in l's own steps, and as it is in the steps of others.
LEMMA OwnStep ==
  ASSUME TypeOK, AtWork, NEW l \in Loads, pc[l] = "pool", pc'[l] = "pool", Progress(l)
  PROVE  /\ \A c \in Clients : StepsLeft(l, c)' <= StepsLeft(l, c)
         /\ \E c \in Clients : StepsLeft(l, c)' < StepsLeft(l, c)
<1>1. ASSUME NEW c \in Clients, SpawnChild(l, c) \/ EvaluateQuery(l, c)
      PROVE  /\ \A d \in Clients : StepsLeft(l, d)' <= StepsLeft(l, d)
             /\ StepsLeft(l, c)' < StepsLeft(l, c)
  <2>1. \A d \in Clients : d # c => query'[l][d] = query[l][d]
    BY <1>1 DEF SpawnChild, EvaluateQuery, Put, TypeOK
  <2>2. todo' = todo /\ c \notin todo[l]
    BY <1>1 DEF SpawnChild, EvaluateQuery, loadVars, AtWork, Waiting
  <2>3. \/ query[l][c] = "env" /\ query'[l][c] = "child"
        \/ query[l][c] = "child" /\ query'[l][c] = "read"
    BY <1>1 DEF SpawnChild, EvaluateQuery, Put, TypeOK
  <2>4. QED
    BY <2>1, <2>2, <2>3 DEF StepsLeft
<1>2. ASSUME NEW c \in Clients, NEW v, QueryDone(l, c, v)
      PROVE  /\ \A d \in Clients : StepsLeft(l, d)' <= StepsLeft(l, d)
             /\ StepsLeft(l, c)' < StepsLeft(l, c)
  <2>1. PICK S \in SUBSET todo[l] :
           /\ todo' = [todo EXCEPT ![l] = @ \ S]
           /\ query' = [query EXCEPT ![l] = [Launch(l, S) EXCEPT ![c] = "none"]]
    BY <1>2 DEF QueryDone, NextBatch
  <2>2. todo'[l] = todo[l] \ S
    BY <2>1 DEF TypeOK
  <2>3. \A d \in Clients : query'[l][d] = IF d = c THEN "none"
                                          ELSE IF d \in S THEN StartPhase ELSE query[l][d]
    BY <2>1 DEF TypeOK, Launch
  <2>4. c \notin todo[l] /\ query[l][c] \in Phases \ {"none"}
    BY <1>2 DEF QueryDone, Settles, AtWork, Waiting, TypeOK
  <2>5. StepsLeft(l, c)' = 0 /\ StepsLeft(l, c) \in 1..4
    BY <2>2, <2>3, <2>4 DEF StepsLeft, Phases
  <2>6. \A d \in Clients : d # c => StepsLeft(l, d)' <= StepsLeft(l, d)
    BY <2>2, <2>3 DEF StepsLeft, StartPhase
  <2>7. QED
    BY <2>5, <2>6
<1>3. ~ ListClients(l)
  BY DEF ListClients
<1>4. ASSUME NEW c, NEW v PROVE ~ StoreSummary(l, c, v) /\ ~ PatchClient(l, c, v)
  BY DEF StoreSummary, PatchClient, Return, TypeOK
<1>5. QED
  BY <1>1, <1>2, <1>3, <1>4 DEF Progress

LEMMA OtherStep ==
  ASSUME TypeOK, AtWork, [Next]_vars, NEW l \in Loads, pc[l] = "pool", pc'[l] = "pool",
         ~ Progress(l)
  PROVE  \A c \in Clients : StepsLeft(l, c)' <= StepsLeft(l, c)
<1>1. ASSUME NEW m \in Loads, Ask(m) PROVE query'[l] = query[l] /\ todo'[l] = todo[l]
  <2>1. PICK w \in Windows : AskAll(m, w) \/ \E c \in Clients : AskOne(m, c, w)
    BY <1>1 DEF Ask
  <2>2. m # l
    BY <2>1 DEF AskAll, AskOne
  <2>3. QED
    BY <2>1, <2>2 DEF AskAll, AskOne, Put, poolVars, TypeOK
<1>2. ASSUME NEW m \in Loads, m # l, Progress(m)
      PROVE  query'[l] = query[l] /\ todo'[l] = todo[l]
  <2>1. CASE ListClients(m)
    BY <1>2, <2>1 DEF ListClients, TypeOK
  <2>2. ASSUME NEW c \in Clients, SpawnChild(m, c) \/ EvaluateQuery(m, c)
        PROVE  query'[l] = query[l] /\ todo'[l] = todo[l]
    BY <1>2, <2>2 DEF SpawnChild, EvaluateQuery, Put, loadVars, TypeOK
  <2>3. ASSUME NEW c \in Clients, NEW v, QueryDone(m, c, v)
        PROVE  query'[l] = query[l] /\ todo'[l] = todo[l]
    BY <1>2, <2>3 DEF QueryDone, TypeOK
  <2>4. ASSUME NEW c \in Clients, NEW v, StoreSummary(m, c, v) \/ PatchClient(m, c, v)
        PROVE  query'[l] = query[l] /\ todo'[l] = todo[l]
    BY <1>2, <2>4 DEF StoreSummary, PatchClient, Put, TypeOK
  <2>5. QED
    BY <1>2, <2>1, <2>2, <2>3, <2>4 DEF Progress
<1>3. CASE Shutdown
  <2>1. /\ todo' = todo
        /\ \A c \in Clients : query'[l][c] = IF query[l][c] = "child" THEN "dead"
                                             ELSE query[l][c]
    BY <1>3 DEF Shutdown, loadVars, TypeOK
  <2>2. QED
    BY <2>1 DEF StepsLeft
<1>4. CASE (\E c \in Clients : QueueChanges(c)) \/ UNCHANGED vars
  BY <1>4 DEF QueueChanges, vars, loadVars, poolVars, StepsLeft
<1>5. ASSUME query'[l] = query[l], todo'[l] = todo[l]
      PROVE  \A c \in Clients : StepsLeft(l, c)' <= StepsLeft(l, c)
  BY <1>5 DEF StepsLeft
<1>6. QED
  BY <1>1, <1>2, <1>3, <1>4, <1>5 DEF Next

\* A refresh takes at most four steps per client, whatever the others do and also
\* when the service shuts down under it.
THEOREM PoolComesToEnd == Spec => UsesUpSteps
<1>1. TypeOK /\ AtWork /\ [Next]_vars =>
        [\A l \in Loads : pc[l] = "pool" /\ pc'[l] = "pool" =>
           /\ \A c \in Clients : StepsLeft(l, c)' <= StepsLeft(l, c)
           /\ Progress(l) => \E c \in Clients : StepsLeft(l, c)' < StepsLeft(l, c)]_vars
  BY OwnStep, OtherStep
<1>2. QED
  BY <1>1, TypeInit, TypeStep, AtWorkInit, AtWorkStep, PTL DEF Spec, UsesUpSteps
=============================================================================
