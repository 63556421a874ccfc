---------------------------- MODULE ProgressiveLoad ----------------------------
(***************************************************************************)
(* The page of unprocessed punches in the browser                          *)
(* (hooks/useProgressivePunchData.ts): start() lists the clients, then     *)
(* queries one after the other with a pool of workers and shows every row  *)
(* as it comes.  A new start aborts the one before; so does leaving the    *)
(* page.  The rows go to a React Query cache, which the poller of the      *)
(* whole application (hooks/useBackgroundPolling.ts) writes as well, and   *)
(* whose updates the page shows at once.                                   *)
(*                                                                         *)
(* An await is answered in an action of its own; what the page holds is    *)
(* gone when it is left.  The user may refresh and the sync is enabled:    *)
(* otherwise the page only shows what the cache has.                       *)
(***************************************************************************)
EXTENDS Integers, FiniteSets

CONSTANTS
  Boxes,        \* clients with payrollEnabled
  LoadRuns,     \* runs of start() that can be in flight at a time
  LoadWorkers   \* engine.db2QueryConcurrency

ASSUME LoadAssumption == LoadWorkers \in Nat \ {0}

NoLoad == "no load"
ASSUME LoadNames == NoLoad \notin LoadRuns

VARIABLES
  mounted,     \* the page is shown
  loadStatus,  \* "idle", "connecting", "streaming", "done", "error"
  shown,       \* each client's row: "none", "loading" or "row"
  load,        \* runs of start(): stage, aborted, clients left, queries open
  current,     \* abortRef
  store,       \* the cache entry: "empty", "fresh" or "old"
  poll         \* punchInFlight, and punchLastTriggeredMs within the window

loadVars == <<mounted, loadStatus, shown, load, current, store, poll>>

NotStarted == [stage |-> "free", aborted |-> FALSE, left |-> {}, asked |-> {}]
All(x) == [b \in Boxes |-> x]

LoadInit ==
  /\ mounted = FALSE /\ loadStatus = "idle" /\ shown = All("none")
  /\ load = [l \in LoadRuns |-> NotStarted] /\ current = NoLoad
  /\ store = "empty"
  /\ poll = [inFlight |-> FALSE, recent |-> FALSE]

Aborted == IF current = NoLoad THEN load
           ELSE [load EXCEPT ![current].aborted = load[current].stage # "free"]

\* setState on a page that was left does nothing
Show(rows, st) ==
  IF mounted THEN shown' = rows /\ loadStatus' = st ELSE UNCHANGED <<shown, loadStatus>>

\* the promise chain of l has ended
End(l) == load' = [load EXCEPT ![l] = NotStarted]

----------------------------------------------------------------------------
(* start() and the answers it waits for *)

Begun(l) == /\ load[l] = NotStarted
            /\ load' = [Aborted EXCEPT ![l] = [NotStarted EXCEPT !.stage = "list"]]
            /\ current' = l
            /\ shown' = All("none") /\ loadStatus' = "connecting"

start(l) == mounted /\ Begun(l) /\ UNCHANGED <<mounted, store, poll>>

\* mutant: the skeletons of an aborted run are rendered
ListedAlways(l) ==
  /\ load[l].stage = "list"
  /\ load' = [load EXCEPT ![l] = [@ EXCEPT !.stage = "pool", !.left = Boxes]]
  /\ Show(All("loading"), "streaming")
  /\ UNCHANGED <<mounted, current, store, poll>>

\* getClients: skeleton rows
Listed(l) ==
  /\ load[l].stage = "list"
  /\ IF load[l].aborted THEN End(l) /\ UNCHANGED <<shown, loadStatus>>
     ELSE /\ load' = [load EXCEPT ![l] = [@ EXCEPT !.stage = "pool", !.left = Boxes]]
          /\ Show(All("loading"), "streaming")
  /\ UNCHANGED <<mounted, current, store, poll>>

\* its catch does not ask whether the run was aborted
ListRejected(l) ==
  /\ load[l].stage = "list"
  /\ End(l) /\ Show(shown, "error")
  /\ UNCHANGED <<mounted, current, store, poll>>

\* processNext: an aborted run asks for nothing more
AskBox(l, b) ==
  /\ load[l].stage = "pool" /\ ~ load[l].aborted
  /\ b \in load[l].left /\ Cardinality(load[l].asked) < LoadWorkers
  /\ load' = [load EXCEPT ![l].left = @ \ {b}, ![l].asked = @ \cup {b}]
  /\ UNCHANGED <<mounted, loadStatus, shown, current, store, poll>>

\* a count or an error row; an aborted run drops it
BoxAnswered(l, b) ==
  /\ b \in load[l].asked
  /\ load' = [load EXCEPT ![l].asked = @ \ {b}]
  /\ IF load[l].aborted THEN UNCHANGED <<shown, loadStatus>>
     ELSE Show([shown EXCEPT ![b] = "row"], loadStatus)
  /\ UNCHANGED <<mounted, current, store, poll>>

\* Promise.all: done, and the rows go to the cache
LoadDone(l) ==
  /\ load[l].stage = "pool" /\ load[l].asked = {}
  /\ load[l].aborted \/ load[l].left = {}
  /\ End(l)
  /\ IF load[l].aborted THEN UNCHANGED <<shown, loadStatus, store>>
     ELSE Show(shown, "done") /\ store' = "fresh"
  /\ UNCHANGED <<mounted, current, poll>>

----------------------------------------------------------------------------
(* The page: the effect and its cleanup, the timer *)

Mount(l) ==
  /\ ~ mounted /\ mounted' = TRUE
  /\ IF store = "fresh" THEN /\ shown' = All("row") /\ loadStatus' = "done"
                             /\ UNCHANGED <<load, current>>
                        ELSE Begun(l)
  /\ UNCHANGED <<store, poll>>

Unmount ==
  /\ mounted /\ mounted' = FALSE
  /\ load' = Aborted /\ current' = NoLoad
  /\ shown' = All("none") /\ loadStatus' = "idle"
  /\ UNCHANGED <<store, poll>>

----------------------------------------------------------------------------
(* triggerPunchRefresh *)

PollTick ==
  /\ ~ poll.recent /\ ~ poll.inFlight
  /\ poll' = [inFlight |-> TRUE, recent |-> TRUE]
  /\ UNCHANGED <<mounted, loadStatus, shown, load, current, store>>

\* the subscription of the page shows the new entry
Polled ==
  /\ poll.inFlight /\ poll' = [poll EXCEPT !.inFlight = FALSE]
  /\ store' = "fresh" /\ Show(All("row"), loadStatus)
  /\ UNCHANGED <<mounted, load, current>>

PollFails ==
  /\ poll.inFlight /\ poll' = [inFlight |-> FALSE, recent |-> FALSE]
  /\ UNCHANGED <<mounted, loadStatus, shown, load, current, store>>

\* 30 minutes pass
WindowOver ==
  /\ store = "fresh" \/ poll.recent
  /\ store' = (IF store = "fresh" THEN "old" ELSE store)
  /\ poll' = [poll EXCEPT !.recent = FALSE]
  /\ UNCHANGED <<mounted, loadStatus, shown, load, current>>

LoadStep(l) ==
  \/ Listed(l) \/ ListRejected(l) \/ LoadDone(l)
  \/ \E b \in Boxes : AskBox(l, b) \/ BoxAnswered(l, b)

LoadNext ==
  \/ \E l \in LoadRuns : start(l) \/ Mount(l) \/ LoadStep(l)
  \/ Unmount \/ PollTick \/ Polled \/ PollFails \/ WindowOver

LoadSpec == LoadInit /\ [][LoadNext]_loadVars

----------------------------------------------------------------------------
(* Properties *)

\* A page that says it is done shows a row for every client, whatever aborted
\* runs answer late and whatever the poller puts into the cache meanwhile.
DoneShowsEveryClient ==
  mounted /\ loadStatus = "done" => \A b \in Boxes : shown[b] = "row"
=============================================================================
