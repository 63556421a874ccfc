------------------------------ MODULE PunchCounts ------------------------------
(***************************************************************************)
(* The counts of unprocessed punches of all clients, queried from DB2 by a *)
(* pool of workers and cached (routes/unprocessed-punch.ts,                *)
(* services/unprocessed-punch-service.ts).  A query that fails becomes a   *)
(* row with an error, so an answer is an answer here.                      *)
(***************************************************************************)
EXTENDS Integers, FiniteSets

CONSTANTS
  CountClients,   \* clients with payrollEnabled
  CountCalls,     \* API calls that can be in flight at a time
  PunchWorkers    \* CONCURRENCY

ASSUME CountAssumption == PunchWorkers \in Nat \ {0} /\ "none" \notin CountCalls

VARIABLES
  punchCache,        \* punchAllCache: "empty", "fresh" or "old" (its age against the TTL)
  enabled,           \* engine.punchSyncEnabled
  punchAllInFlight,  \* the call that started the fetch others may join, or "none"
  countCall          \* calls in flight: the call whose fetch it awaits and, of a fetch
                     \* or a stream of its own, the clients not yet queried and the
                     \* queries open

countVars == <<punchCache, enabled, punchAllInFlight, countCall>>

NoCountCall == [op |-> "none", of |-> "none", left |-> {}, asked |-> {}]

CountInit ==
  /\ punchCache = "empty" /\ enabled = TRUE /\ punchAllInFlight = "none"
  /\ countCall = [r \in CountCalls |-> NoCountCall]

\* The fetch that the call r started is under way.
IsFetch(r) == countCall[r].op = "all" /\ countCall[r].of = r

CallCounts(r, new) == countCall[r] = NoCountCall /\ countCall' = [countCall EXCEPT ![r] = new]

Waits(s)  == [op |-> "all", of |-> s, left |-> {}, asked |-> {}]
Asks(op, r) == [op |-> op, of |-> r, left |-> CountClients, asked |-> {}]

\* mutant: every call starts a fetch
JoinAlways(r) ==
  /\ enabled
  /\ CallCounts(r, Asks("all", r))
  /\ punchAllInFlight' = r
  /\ UNCHANGED <<punchCache, enabled>>

\* GET /all that is not answered from the cache (it is not fresh, or force is
\* given, and the caller may refresh): it awaits the fetch in flight or starts one
Join(r) ==
  /\ enabled
  /\ CallCounts(r, IF punchAllInFlight = "none" THEN Asks("all", r)
                   ELSE Waits(punchAllInFlight))
  /\ punchAllInFlight' = IF punchAllInFlight = "none" THEN r ELSE punchAllInFlight
  /\ UNCHANGED <<punchCache, enabled>>

\* GET /stream: rows that go to the caller and not to the cache
Stream(r) ==
  /\ enabled
  /\ CallCounts(r, Asks("stream", r))
  /\ UNCHANGED <<punchCache, enabled, punchAllInFlight>>

\* processNext: each of the workers asks for the next client
AskOne(r, c) ==
  /\ c \in countCall[r].left /\ Cardinality(countCall[r].asked) < PunchWorkers
  /\ countCall' = [countCall EXCEPT ![r].left = @ \ {c}, ![r].asked = @ \cup {c}]
  /\ UNCHANGED <<punchCache, enabled, punchAllInFlight>>

Answered(r, c) ==
  /\ c \in countCall[r].asked
  /\ countCall' = [countCall EXCEPT ![r].asked = @ \ {c}]
  /\ UNCHANGED <<punchCache, enabled, punchAllInFlight>>

\* every call that awaits the promise is answered; finally withdraws it, whichever
\* fetch is in flight by then
Settle(r, entry) ==
  /\ punchCache' = entry
  /\ punchAllInFlight' = "none"
  /\ countCall' = [s \in CountCalls |->
                     IF countCall[s].op = "all" /\ countCall[s].of = r THEN NoCountCall
                     ELSE countCall[s]]
  /\ UNCHANGED enabled

FetchDone(r) ==
  /\ IsFetch(r) /\ countCall[r].left = {} /\ countCall[r].asked = {}
  /\ Settle(r, "fresh")

\* the query for the clients rejects: 500
FetchRejects(r) ==
  /\ IsFetch(r) /\ countCall[r].left = CountClients /\ countCall[r].asked = {}
  /\ Settle(r, punchCache)

\* the last row is sent, or the query for the clients rejects
StreamEnds(r) ==
  /\ countCall[r].op = "stream" /\ countCall[r].asked = {}
  /\ countCall[r].left \in {{}, CountClients}
  /\ countCall' = [countCall EXCEPT ![r] = NoCountCall]
  /\ UNCHANGED <<punchCache, enabled, punchAllInFlight>>

\* the TTL passes, an administrator switches the sync
CacheAges  == punchCache = "fresh" /\ punchCache' = "old"
                /\ UNCHANGED <<enabled, punchAllInFlight, countCall>>
SetEnabled == enabled' = ~ enabled
                /\ UNCHANGED <<punchCache, punchAllInFlight, countCall>>

CountNext ==
  \/ CacheAges \/ SetEnabled
  \/ \E r \in CountCalls :
       \/ Join(r) \/ Stream(r)
       \/ FetchDone(r) \/ FetchRejects(r) \/ StreamEnds(r)
       \/ \E c \in CountClients : AskOne(r, c) \/ Answered(r, c)

CountSpec == CountInit /\ [][CountNext]_countVars

----------------------------------------------------------------------------
(* Properties *)

\* "Track in-flight fetch so concurrent requests don't each spawn 46 JVM
\* processes": whatever calls overlap and fail, one fetch at most is under way, with
\* at most PunchWorkers queries open (as many as each stream has), it is there for
\* every call that waits for it, and none that has ended is left behind to be joined.
FetchIsShared ==
  /\ \A r, s \in CountCalls : IsFetch(r) /\ IsFetch(s) => r = s
  /\ \A r \in CountCalls : Cardinality(countCall[r].asked) <= PunchWorkers
  /\ \A r \in CountCalls : countCall[r].op = "all" =>
       countCall[r].of \in CountCalls /\ IsFetch(countCall[r].of)
  /\ punchAllInFlight # "none" => IsFetch(punchAllInFlight)
=============================================================================
