----------------------------- MODULE LiveMonitor -----------------------------
(***************************************************************************)
(* The job monitor page and what keeps it up to date: the events of the    *)
(* executor (engine/executor.ts), their broadcast over a WebSocket         *)
(* (websocket/index.ts), the browser's socket (hooks/useWebSocket.ts) and  *)
(* the two lists of the page (components/Monitor/JobMonitor.tsx), which    *)
(* events make it fetch again.  The live list is also polled; the history  *)
(* is not.  The lists do not act on each other, so one of them is          *)
(* followed, chosen at the start.                                          *)
(*                                                                         *)
(* A row is its status and how often it has been written.  RUNNING is      *)
(* "runs", PENDING and RETRY_PENDING are "waits", SUCCESS, FAILED and      *)
(* CANCELLED are "over": the order of the statuses is JobLifecycle.        *)
(***************************************************************************)
EXTENDS Integers, Sequences

CONSTANTS
  Executions,  \* executions of jobs
  Writes       \* a row written so often is not tried again (bounds the run)

ASSUME MonitorAssumption == Writes \in Nat

VARIABLES
  table,       \* job_executions, one row per execution
  engine,      \* what jobExecutor does with it: out, starting, running, ending
  open,        \* the page is shown
  up,          \* its socket is connected, so it is in the room stream:execution
  inbox,       \* events sent to it and not handled yet, in order
  list,        \* which list is followed: live or history
  fetcher,     \* the query of that list
  heard        \* auxiliary: the write of a row whose end the page was told of

monitorVars == <<table, engine, open, up, inbox, list, fetcher, heard>>
serverVars == <<table, engine>>
socketVars == <<up, inbox>>
pageVars == <<open, fetcher, heard>>

Fresh == [status |-> "waits", writes |-> 0]
Unread == [e \in Executions |-> Fresh]

\* A query: whether it has rows, its rows, whether they are known to be out of date,
\* the fetch under way and the rows it has read.
NoQuery == [known |-> FALSE, rows |-> Unread, invalid |-> TRUE,
            fetch |-> "idle", answer |-> Unread]

Asked(q) == [q EXCEPT !.fetch = "asked", !.answer = Unread]
Joined(q) == IF q.fetch = "idle" THEN Asked(q) ELSE q

\* mutant: a fetch under way is as good as another
RefetchJoins(q) == [Joined(q) EXCEPT !.invalid = TRUE]

\* refetch and invalidateQueries: what is under way is cancelled and asked again,
\* except the first fetch, which is joined
Refetch(q) == [(IF q.known THEN Asked(q) ELSE Joined(q)) EXCEPT !.invalid = TRUE]

MonitorInit ==
  /\ table = Unread
  /\ engine = [e \in Executions |-> "out"]
  /\ open = FALSE /\ up = FALSE /\ inbox = <<>>
  /\ list \in {"live", "history"} /\ fetcher = NoQuery
  /\ heard = [e \in Executions |-> 0]

----------------------------------------------------------------------------
(* The server *)

Written(e, status) ==
  table' = [table EXCEPT ![e] = [status |-> status, writes |-> @.writes + 1]]

\* the row is RUNNING before execution:started is emitted
StartRun(e) ==
  /\ engine[e] = "out" /\ table[e].status = "waits"
  /\ Written(e, "runs")
  /\ engine' = [engine EXCEPT ![e] = "starting"]
  /\ UNCHANGED <<socketVars, list, pageVars>>

\* the result is written, over a cancel if there was one, before it is emitted
EndRun(e) ==
  /\ engine[e] = "running"
  /\ Written(e, "over")
  /\ engine' = [engine EXCEPT ![e] = "ending"]
  /\ UNCHANGED <<socketVars, list, pageVars>>

\* broadcastToRoom: the sockets that are in the room now get it, no other ever
Emit(e) ==
  LET event == [name |-> IF engine[e] = "starting" THEN "started" ELSE "ended",
                run |-> e, writes |-> table[e].writes]
  IN /\ engine[e] \in {"starting", "ending"}
     /\ inbox' = IF up THEN Append(inbox, event) ELSE inbox
     /\ engine' = [engine EXCEPT ![e] = IF @ = "starting" THEN "running" ELSE "out"]
     /\ UNCHANGED <<table, up, list, pageVars>>

\* executeWithRetry: a failed attempt is tried again; no event
Retry(e) ==
  /\ engine[e] = "out" /\ table[e].status = "over" /\ table[e].writes < Writes
  /\ Written(e, "waits")
  /\ UNCHANGED <<engine, socketVars, list, pageVars>>

\* a user cancels a process that runs; its event has no listener, so only the page
\* the request came from fetches again
CancelRun(e) ==
  /\ engine[e] = "running" /\ table[e].status = "runs"
  /\ Written(e, "over")
  /\ UNCHANGED fetcher \/ (open /\ fetcher' = Refetch(fetcher))
  /\ UNCHANGED <<engine, socketVars, list, open, heard>>

----------------------------------------------------------------------------
(* The socket *)

\* the handshake, also after a loss; whether and when is the network's affair, and
\* after display.wsReconnectAttempts the browser no longer tries
Connect ==
  /\ open /\ ~ up
  /\ up' = TRUE
  /\ UNCHANGED <<serverVars, inbox, list, pageVars>>

\* what is on its way is lost and not sent again
Disconnect ==
  /\ up
  /\ up' = FALSE /\ inbox' = <<>>
  /\ UNCHANGED <<serverVars, list, pageVars>>

\* the listeners of the page; a start is of interest to the live list only
Hear ==
  /\ inbox # <<>>
  /\ LET m == Head(inbox) IN
     /\ fetcher' = IF m.name = "ended" \/ list = "live" THEN Refetch(fetcher) ELSE fetcher
     /\ heard' = IF m.name = "ended" /\ fetcher.known
                   THEN [heard EXCEPT ![m.run] = m.writes] ELSE heard
  /\ inbox' = Tail(inbox)
  /\ UNCHANGED <<serverVars, up, list, open>>

----------------------------------------------------------------------------
(* The page and its query *)

\* rows that are at least staleTime old are fetched again when the page is shown
Open ==
  /\ ~ open
  /\ open' = TRUE
  /\ \E old \in BOOLEAN : fetcher' = IF old \/ fetcher.invalid THEN Joined(fetcher) ELSE fetcher
  /\ UNCHANGED <<serverVars, socketVars, list, heard>>

\* the socket is closed with the page; the cache and a fetch under way stay
Leave ==
  /\ open
  /\ open' = FALSE /\ up' = FALSE /\ inbox' = <<>>
  /\ UNCHANGED <<serverVars, list, fetcher, heard>>

\* mutant: only events make the page fetch again
PollLiveOnce ==
  /\ list = "live" /\ open /\ fetcher.fetch = "idle" /\ ~ fetcher.known
  /\ fetcher' = Asked(fetcher)
  /\ UNCHANGED <<serverVars, socketVars, list, open, heard>>

\* refetchInterval, of the live list
PollLive ==
  /\ list = "live" /\ open /\ fetcher.fetch = "idle"
  /\ fetcher' = Asked(fetcher)
  /\ UNCHANGED <<serverVars, socketVars, list, open, heard>>

ReadRows ==
  /\ fetcher.fetch = "asked"
  /\ fetcher' = [fetcher EXCEPT !.fetch = "answered", !.answer = table]
  /\ UNCHANGED <<serverVars, socketVars, list, open, heard>>

Arrived ==
  /\ fetcher.fetch = "answered"
  /\ fetcher' = [NoQuery EXCEPT !.known = TRUE, !.rows = fetcher.answer, !.invalid = FALSE]
  /\ UNCHANGED <<serverVars, socketVars, list, open, heard>>

\* after one retry; the rows the page has stay, without a word.  A poll that fails
\* is one that was not made.
Failed ==
  /\ fetcher.fetch # "idle" /\ list = "history"
  /\ fetcher' = [fetcher EXCEPT !.invalid = TRUE, !.fetch = "idle", !.answer = Unread]
  /\ UNCHANGED <<serverVars, socketVars, list, open, heard>>

Fetching == PollLive \/ ReadRows \/ Arrived

MonitorNext ==
  \/ \E e \in Executions : StartRun(e) \/ EndRun(e) \/ Emit(e) \/ Retry(e) \/ CancelRun(e)
  \/ Connect \/ Disconnect \/ Hear \/ Open \/ Leave \/ Fetching \/ Failed

MonitorFairness == WF_monitorVars(Fetching)

MonitorSpec == MonitorInit /\ [][MonitorNext]_monitorVars /\ MonitorFairness

----------------------------------------------------------------------------
(* Properties *)

\* A list is fetched again when an event says that an execution has ended.  An end
\* the page was told of is in it once its query is at rest and has not failed: the
\* answer of a fetch that read the table before the end does not hide it.
HeardIsShown ==
  fetcher.fetch = "idle" /\ ~ fetcher.invalid
    => \A e \in Executions : heard[e] <= fetcher.rows[e].writes

\* Events get lost while the socket is down.  An execution that has ended leaves the
\* live list of an open page all the same.
LeavesLive ==
  \A e \in Executions :
    LET shown == list = "live" /\ open /\ fetcher.known /\ fetcher.rows[e].status # "over"
    IN (shown /\ table[e].status = "over") ~> (~ shown \/ table[e].status # "over")
=============================================================================
