------------------------------ MODULE FileMonitor ------------------------------
(***************************************************************************)
(* The upload-file scan: POST /fetch and POST /cancel of                   *)
(* routes/file-monitor.ts and fetchUploadFileMonitor, which visits one app *)
(* server after the other over SSH.  One scan at a time, for all users:    *)
(* activeScan is both the lock and the place where a cancel is left.       *)
(*                                                                         *)
(* Exactly one kind of files is looked for (validateFileMonitorScanType),  *)
(* so a visit is one connection and one command.  The order of the clients *)
(* and the files found are data no property looks at.                      *)
(***************************************************************************)
EXTENDS Integers, FiniteSets

CONSTANTS
  ScanClients,   \* active clients
  Fetches,       \* POST /fetch calls that can be in flight at a time
  UsesTotp       \* sshCredentialsUseTotp: 30 s between two servers

ASSUME ScanAssumption == UsesTotp \in BOOLEAN

VARIABLES
  activeScan,    \* whether there is one, whether it was cancelled
  fetch,         \* calls in flight: the scope, the clients left, the one being
                 \* visited, the clients with a row
  report         \* the result the last scan completed with

scanVars == <<activeScan, fetch, report>>

NoScan   == [on |-> FALSE, cancelled |-> FALSE]
NotAFetch == [stage |-> "free", plan |-> {}, left |-> {}, at |-> {}, rows |-> {}]
NoReport == [plan |-> {}, rows |-> {}, cancelled |-> FALSE, failed |-> FALSE]

ScanInit == activeScan = NoScan /\ fetch = [f \in Fetches |-> NotAFetch] /\ report = NoReport

Scanning(f) == fetch[f].stage \in {"query", "connect", "exec", "cooldown"}

\* the scope is resolved before a scan in progress is looked for
Fetch(f) ==
  /\ fetch[f] = NotAFetch
  /\ fetch' = [fetch EXCEPT ![f].stage = "resolve"]
  /\ UNCHANGED <<activeScan, report>>

\* 409 when there is a scan; a query error and an empty scope are answered too
Resolved(f) ==
  /\ fetch[f].stage = "resolve"
  /\ \/ /\ ~ activeScan.on
        /\ activeScan' = [NoScan EXCEPT !.on = TRUE]
        /\ fetch' = [fetch EXCEPT ![f].stage = "query"]
     \/ fetch' = [fetch EXCEPT ![f] = NotAFetch] /\ UNCHANGED activeScan
  /\ UNCHANGED report

\* buildFileMonitorResult, the complete event, and finally
Complete(f, r, failed) ==
  /\ report' = [plan |-> r.plan, rows |-> r.rows, cancelled |-> r.stage = "cancelled",
                failed |-> failed]
  /\ activeScan' = NoScan
  /\ fetch' = [fetch EXCEPT ![f] = NotAFetch]

\* the head of the loop: stop, or go on to a client with a server; the clients
\* without one get their SKIPPED row in the same synchronous piece
Advance(f, r) ==
  IF activeScan.cancelled THEN Complete(f, [r EXCEPT !.stage = "cancelled"], FALSE)
  ELSE \/ Complete(f, [r EXCEPT !.rows = @ \cup r.left], FALSE)
       \/ \E skip \in SUBSET r.left : \E c \in r.left \ skip :
            /\ fetch' = [fetch EXCEPT ![f] =
                 [r EXCEPT !.stage = "connect", !.left = @ \ (skip \cup {c}),
                           !.at = {c}, !.rows = @ \cup skip]]
            /\ UNCHANGED <<activeScan, report>>

\* the scope is read again; the credentials may be missing
Queried(f) ==
  /\ fetch[f].stage = "query"
  /\ \/ \E plan \in SUBSET ScanClients :
          Advance(f, [fetch[f] EXCEPT !.plan = plan, !.left = plan])
     \/ Complete(f, fetch[f], TRUE)

\* a row for the client visited, ALERT, CLEAN or ERROR
Row(f) == [fetch[f] EXCEPT !.rows = @ \cup fetch[f].at, !.at = {}]

\* sshConnect; a cancel destroys the connection being made
Connected(f) ==
  /\ fetch[f].stage = "connect"
  /\ \/ /\ ~ activeScan.cancelled
        /\ fetch' = [fetch EXCEPT ![f].stage = "exec"]
        /\ UNCHANGED <<activeScan, report>>
     \/ IF activeScan.cancelled THEN Advance(f, fetch[f]) ELSE Advance(f, Row(f))

\* sshExecCancellable: an answer, an error or the timeout; after a row, the pause
\* the one-time code needs
Executed(f) ==
  /\ fetch[f].stage = "exec" /\ ~ activeScan.cancelled
  /\ IF UsesTotp /\ fetch[f].left # {}
       THEN /\ fetch' = [fetch EXCEPT ![f] = [Row(f) EXCEPT !.stage = "cooldown"]]
            /\ UNCHANGED <<activeScan, report>>
       ELSE Advance(f, Row(f))

\* a cancel, or a server that drops the connection, ends the whole scan
Interrupted(f) ==
  /\ fetch[f].stage = "exec"
  /\ Complete(f, [fetch[f] EXCEPT !.stage = "cancelled"], FALSE)

\* interruptibleDelay
Paused(f) == fetch[f].stage = "cooldown" /\ Advance(f, fetch[f])

\* POST /cancel, or the caller of the scan disconnects: requestScanCancel
CancelScan ==
  /\ activeScan.on /\ activeScan' = [activeScan EXCEPT !.cancelled = TRUE]
  /\ UNCHANGED <<fetch, report>>

ScanStep(f) ==
  Resolved(f) \/ Queried(f) \/ Connected(f) \/ Executed(f) \/ Interrupted(f) \/ Paused(f)

ScanNext == CancelScan \/ \E f \in Fetches : Fetch(f) \/ ScanStep(f)

ScanSpec == ScanInit /\ [][ScanNext]_scanVars

----------------------------------------------------------------------------
(* Properties *)

\* "at most one active scan": two calls that resolve their scopes together do
\* not both scan, and however a scan ends the next one is not locked out.
ScanIsExclusive ==
  /\ Cardinality({f \in Fetches : Scanning(f)}) <= 1
  /\ activeScan.on <=> \E f \in Fetches : Scanning(f)
=============================================================================
