----------------------------- MODULE OutageImpact -----------------------------
(***************************************************************************)
(* The outage-impact calculator: POST /impact and POST /cancel of          *)
(* routes/outage.ts, computeOutageImpact, the NDJSON stream that carries   *)
(* its events, and the two pages that read it - the calculator itself and, *)
(* for the calendars, the table of entries.  One calculation at a time for *)
(* all users: activeCalculation is the lock, and holds the cancel flag.    *)
(*                                                                         *)
(* After the query for the jobs there is no await: the loop over clients   *)
(* is one step, so a cancel can only be seen before the first of them.     *)
(* Instants are minutes; a client has one job, known by the minutes at     *)
(* which its cron expression fires, or by having a bad one.                *)
(***************************************************************************)
EXTENDS Naturals, Sequences, FiniteSets, SequencesExt

CONSTANTS
  ImpactClients,   \* active clients
  Viewers,         \* browsers with one of the pages open
  Calendars,       \* those that have the calendar open
  Hangs            \* TRUE: the query may outlast CALC_STALE_MS

ASSUME ImpactAssumption ==
  Calendars \subseteq Viewers /\ Hangs \in BOOLEAN /\ IsFiniteSet(ImpactClients)

VARIABLES
  activeCalc,      \* activeCalculation: whether set, cancelled, older than half an hour
  querying,        \* the calculations that wait for their jobs: whose, and whether
                   \* the response is still connected
  wire,            \* wire[v]: what the response to v holds and v has not read
  view,            \* view[v]: mutation state, error, result on screen, result received
  cleared          \* whether a calculation was ever taken for stale

impactVars == <<activeCalc, querying, wire, view, cleared>>

LastMinute == 3
DayEnd == 2                   \* the last minute of the day the window starts on
WindowStart == 0
WindowEnd == 1
MaxFires == 2                 \* 500 in the code: the fires looked for
BadCron == {LastMinute + 1}
Crons == SUBSET (0 .. LastMinute) \cup {BadCron}

NoCalc   == [on |-> FALSE, cancelled |-> FALSE, old |-> FALSE]
NoResult == [rows |-> {}, hits |-> {}, cancelled |-> FALSE, whole |-> FALSE, shown |-> FALSE]
Results  == [rows : SUBSET ImpactClients, hits : SUBSET ImpactClients,
             cancelled : BOOLEAN, whole : BOOLEAN, shown : BOOLEAN]
NewPage  == [at |-> "idle", error |-> FALSE, result |-> NoResult, final |-> NoResult]
StreamEvent(kind, data) == [kind |-> kind, data |-> data]

ImpactTypeOK ==
  /\ activeCalc \in [on : BOOLEAN, cancelled : BOOLEAN, old : BOOLEAN]
  /\ querying \subseteq Viewers \X BOOLEAN
  /\ \A v \in Viewers : \A i \in DOMAIN wire[v] :
       /\ wire[v][i].kind \in {"start", "progress", "complete", "end", "error"}
       /\ wire[v][i].data \in Results
  /\ view \in [Viewers -> [at : {"idle", "sent", "pending"}, error : BOOLEAN,
                           result : Results, final : Results]]

ImpactInit ==
  /\ activeCalc = NoCalc /\ querying = {} /\ cleared = FALSE
  /\ wire = [v \in Viewers |-> << >>]
  /\ view = [v \in Viewers |-> NewPage]

----------------------------------------------------------------------------
(* The arithmetic of outage-cron-utils.ts *)

\* The minutes a search from `from` on finds; it gives up after MaxFires of them.
Found(cron, from) ==
  {t \in cron : from <= t /\ Cardinality({u \in cron : from <= u /\ u < t}) < MaxFires}

FiresInside(cron) == Found(cron, WindowStart) \cap (WindowStart .. WindowEnd)

\* This search starts at the end of the window, which it does not count.
FiresLaterToday(cron) == Found(cron, WindowEnd) \cap (WindowEnd + 1 .. DayEnd)

\* evaluateJob: a job counts when it fires in the window and, unless the user
\* wants those too, not again later that day.
Evaluate(cron, noRetry) ==
  cron # BadCron /\ FiresInside(cron) # {} /\ ~(noRetry /\ FiresLaterToday(cron) # {})

\* The clients with jobs, and those of them whose job is hit.
Plans ==
  UNION {{<<plan, {c \in plan : Evaluate(cron[c], noRetry)}>> :
            cron \in [plan -> Crons], noRetry \in BOOLEAN} : plan \in SUBSET ImpactClients}

----------------------------------------------------------------------------
(* The server *)

ShowsPage(v, page) == view' = [view EXCEPT ![v] = page]
Respond(v, events) == wire' = [wire EXCEPT ![v] = @ \o events]
RefuseImpact(v) == Respond(v, <<StreamEvent("error", NoResult)>>)

\* CALC_STALE_MS has passed since the calculation began
Ages ==
  /\ Hangs /\ activeCalc.on /\ activeCalc' = [activeCalc EXCEPT !.old = TRUE]
  /\ UNCHANGED <<querying, wire, view, cleared>>

\* POST /impact up to its first await; a bad body or window is refused with the
\* lock given back.
PostImpact(v) ==
  /\ view[v].at = "sent"
  /\ ShowsPage(v, [view[v] EXCEPT !.at = "pending"])
  /\ cleared' = (cleared \/ (activeCalc.on /\ activeCalc.old))
  /\ IF activeCalc.on /\ ~ activeCalc.old
       THEN RefuseImpact(v) /\ UNCHANGED <<activeCalc, querying>>
       ELSE \/ /\ activeCalc' = [NoCalc EXCEPT !.on = TRUE]
               /\ querying' = querying \cup {<<v, TRUE>>}
               /\ UNCHANGED wire
            \/ RefuseImpact(v) /\ activeCalc' = NoCalc /\ UNCHANGED querying

\* One progress event per client, in the order of their codes.
ProgressEvents(plan, hits) ==
  [i \in 1 .. Cardinality(plan) |->
     StreamEvent("progress", [NoResult EXCEPT !.rows = {SetToSeq(plan)[i]} \cap hits])]

\* computeOutageImpact once its jobs are there.  The loop asks for the flag of
\* whatever calculation is active: none, when the end of another has cleared it,
\* and then the response breaks off after its first event.
Computed(plan, hits) ==
  LET first == StreamEvent("start", [NoResult EXCEPT !.shown = TRUE])
      whole == [rows |-> hits, hits |-> hits, cancelled |-> FALSE, whole |-> TRUE, shown |-> TRUE]
      none  == [whole EXCEPT !.rows = {}, !.cancelled = TRUE]
  IN CASE plan # {} /\ ~ activeCalc.on -> <<first>>
       [] plan # {} /\ activeCalc.on /\ activeCalc.cancelled -> <<first, StreamEvent("complete", none)>>
       [] OTHER -> <<first>> \o ProgressEvents(plan, hits) \o <<StreamEvent("complete", whole)>>

\* The rest of the handler, finally included; nothing is written to a response
\* that is no longer connected.
ComputeImpact(v) ==
  \E live \in BOOLEAN :
    /\ <<v, live>> \in querying
    /\ querying' = querying \ {<<v, live>>}
    /\ activeCalc' = NoCalc
    /\ IF ~live THEN UNCHANGED wire
       ELSE \/ RefuseImpact(v)
            \/ \E p \in Plans :
                 Respond(v, Computed(p[1], p[2]) \o <<StreamEvent("end", NoResult)>>)
    /\ UNCHANGED <<view, cleared>>

\* POST /cancel, from the page of any user whose calculation is pending
CancelCalc ==
  /\ activeCalc.on /\ \E v \in Viewers : view[v].at = "pending"
  /\ activeCalc' = [activeCalc EXCEPT !.cancelled = TRUE]
  /\ UNCHANGED <<querying, wire, view, cleared>>

----------------------------------------------------------------------------
(* The pages *)

PageAsks(v) == ShowsPage(v, [view[v] EXCEPT !.at = "sent", !.error = FALSE, !.final = NoResult])

\* calcMutation, runImpact: one at a time
SubmitImpact(v) ==
  /\ view[v].at = "idle" /\ PageAsks(v)
  /\ UNCHANGED <<activeCalc, querying, wire, cleared>>

\* The outages tab hands the calculator another window, also in mid-calculation.
Prefill(v) ==
  /\ v \notin Calendars
  /\ ShowsPage(v, [view[v] EXCEPT !.error = FALSE, !.result = NoResult])
  /\ UNCHANGED <<activeCalc, querying, wire, cleared>>

\* handleOutageStreamEvent: rows are added to a result that is there.  What the
\* calendar shows of a calculation under way it forgets at the end.
Applied(v, e) ==
  LET r == view[v].result IN
  CASE v \in Calendars -> r
    [] v \notin Calendars /\ e.kind = "progress" ->
         IF r.shown THEN [r EXCEPT !.rows = @ \cup e.data.rows] ELSE r
    [] OTHER -> e.data

\* postNdjsonStream, one event after the other
ReadEvent(v) ==
  /\ view[v].at = "pending" /\ wire[v] # << >>
  /\ Head(wire[v]).kind \in {"start", "progress", "complete"}
  /\ wire' = [wire EXCEPT ![v] = Tail(@)]
  /\ ShowsPage(v, [view[v] EXCEPT !.result = Applied(v, Head(wire[v])),
                     !.final = IF Head(wire[v]).kind = "complete" THEN Head(wire[v]).data
                                                                  ELSE view[v].final])
  /\ UNCHANGED <<activeCalc, querying, cleared>>

PageFails(v) == ShowsPage(v, [view[v] EXCEPT !.at = "idle", !.error = TRUE])

\* mutant: a stream that ends without its last event is taken for a result
ReadEndTrusting(v) ==
  /\ view[v].at = "pending" /\ wire[v] # << >> /\ Head(wire[v]).kind \in {"end", "error"}
  /\ wire' = [wire EXCEPT ![v] = Tail(@)]
  /\ IF Head(wire[v]).kind = "error" THEN PageFails(v)
       ELSE ShowsPage(v, [view[v] EXCEPT !.at = "idle"])
  /\ UNCHANGED <<activeCalc, querying, cleared>>

\* A stream that ends without its last event is an error, like an answer that is one.
ReadEnd(v) ==
  /\ view[v].at = "pending" /\ wire[v] # << >> /\ Head(wire[v]).kind \in {"end", "error"}
  /\ wire' = [wire EXCEPT ![v] = Tail(@)]
  /\ IF Head(wire[v]).kind = "error" \/ ~ view[v].final.whole THEN PageFails(v)
       ELSE ShowsPage(v, [view[v] EXCEPT !.at = "idle", !.result = view[v].final])
  /\ UNCHANGED <<activeCalc, querying, cleared>>

\* The connection is lost.  The close of a response that is not finished cancels
\* whichever calculation is active.
BreakStream(v) ==
  /\ view[v].at = "pending" /\ <<v, FALSE>> \notin querying
  /\ PageFails(v)
  /\ wire' = [wire EXCEPT ![v] = << >>]
  /\ IF <<v, TRUE>> \in querying
       THEN /\ querying' = (querying \ {<<v, TRUE>>}) \cup {<<v, FALSE>>}
            /\ activeCalc' = [activeCalc EXCEPT !.cancelled = activeCalc.on]
       ELSE UNCHANGED <<activeCalc, querying>>
  /\ UNCHANGED cleared

ImpactNext ==
  \/ Ages \/ CancelCalc
  \/ \E v \in Viewers : \/ SubmitImpact(v) \/ Prefill(v) \/ PostImpact(v) \/ ComputeImpact(v)
                        \/ ReadEvent(v) \/ ReadEnd(v) \/ BreakStream(v)

ImpactSpec == ImpactInit /\ [][ImpactNext]_impactVars

----------------------------------------------------------------------------
(* Properties *)

\* "Calculation already in progress": unless one was given up for stale, one at a
\* time, and however it ends - refused, failed, cancelled, its user gone - the
\* lock is free again.
CalculationIsExclusive ==
  ~ cleared => Cardinality(querying) <= 1 /\ (activeCalc.on <=> querying # {})

\* A page that shows neither an error nor a calculation under way shows a whole
\* result, if any: every job hit for the clients of its plan, or, cancelled, none
\* at all - never rows left over from a stream that broke off.
QuietPageIsWhole ==
  \A v \in Viewers :
    LET r == view[v].result IN
    view[v].at = "idle" /\ ~ view[v].error /\ r.shown =>
      r.whole /\ r.rows = IF r.cancelled THEN {} ELSE r.hits

\* One calculation of outage impact at a time, and pages that show a whole result.
ImpactIsSound == CalculationIsExclusive /\ QuietPageIsWhole
=============================================================================
