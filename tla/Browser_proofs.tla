---------------------------- MODULE Browser_proofs ----------------------------
(***************************************************************************)
(* Theorems about the browser and what feeds it: the sessions of its tabs  *)
(* (Browser), the page of unprocessed punches (ProgressiveLoad), the job   *)
(* monitor (LiveMonitor), and the two services that work for everybody at  *)
(* once, the counts of punches (PunchCounts) and the file scan             *)
(* (FileMonitor).  For any number of tabs, sessions, calls, clients.       *)
(* They are taken by way of MCServices, their sum, for the last theorem.   *)
(***************************************************************************)
EXTENDS MCServices, Counting, TLAPS

----------------------------------------------------------------------------
(* Sessions.  A write the server accepts ran as the user the tab showed.   *)
(* It rests on the token of a tab that shows a user being that of the      *)
(* session it shows, and on a login being under way only while the tab     *)
(* shows nobody.                                                           *)

\* A tab that shows a user has the token of that user's session.
TabOK(t) == tab[t].shows # None => tab[t].csrf = tab[t].shows

\* A tab that signs in shows nobody: the token of the answer is stored at once, the
\* user only when /me answers.
EntryOK(t) == flight[t]["entry"].op = "login" => tab[t].shows = None

\* What a write was sent with, and which session it was served for.
WriteOK(q) ==
  /\ q.op # "write" => q = NoRequest
  /\ q.code = 0 => q.csrf = q.shown
  /\ q.code = 200 => q.session = q.shown

BrowserInv ==
  /\ BrowserTypeOK
  /\ \A t \in Tabs : TabOK(t) /\ EntryOK(t) /\ WriteOK(flight[t]["write"])

----------------------------------------------------------------------------

LEMMA NoRequestIsTyped == NoRequest \in TabRequests
BY DEF NoRequest, TabRequests, MaybeSession

LEMMA BlankIsTyped == Blank \in [shows: MaybeSession, csrf: MaybeSession]
BY DEF Blank, MaybeSession

LEMMA RequestIsTyped ==
  ASSUME BrowserTypeOK, NEW t \in Tabs,
         NEW op \in {"start", "login", "me", "logout", "poll", "write"}
  PROVE  Request(t, op) \in TabRequests /\ Request(t, op).op = op
<1>1. cookie \in MaybeSession /\ tab[t].csrf \in MaybeSession /\ tab[t].shows \in MaybeSession
  BY DEF BrowserTypeOK
<1>2. None \in MaybeSession
  BY DEF MaybeSession
<1> DEFINE csrf == IF op \in Guarded THEN tab[t].csrf ELSE None
           seen == IF op = "write" THEN tab[t].shows ELSE None
<1>3. csrf \in MaybeSession /\ seen \in MaybeSession
  BY <1>1, <1>2
<1>4. Request(t, op) = [op |-> op, jar |-> cookie, csrf |-> csrf, shown |-> seen,
                        code |-> 0, session |-> None]
  BY DEF Request
<1> HIDE DEF csrf, seen
<1> QED
  BY <1>1, <1>2, <1>3, <1>4 DEF TabRequests

\* Sending changes one slot, to a typed request.
LEMMA SendKeeps ==
  ASSUME BrowserInv, NEW t \in Tabs, NEW k \in Kinds,
         NEW op \in {"login", "logout", "poll", "write"}, Send(t, k, op),
         tab[t].shows # None \/ op = "login", op = "login" => tab[t].shows = None,
         op = "write" <=> k = "write"
  PROVE  BrowserInv'
<1>1. BrowserTypeOK'
  BY RequestIsTyped DEF BrowserInv, BrowserTypeOK, Send
<1>2. ASSUME NEW u \in Tabs
      PROVE  (TabOK(u) /\ EntryOK(u) /\ WriteOK(flight[u]["write"]))'
  <2>1. TabOK(u)'
    BY DEF BrowserInv, TabOK, Send
  <2>2. EntryOK(u)'
    BY RequestIsTyped DEF BrowserInv, BrowserTypeOK, EntryOK, Send, Kinds
  <2>3. WriteOK(flight[u]["write"])'
    <3>1. CASE u = t /\ k = "write"
      <4>1. flight'[u]["write"] = Request(t, "write")
        BY <3>1 DEF Send, BrowserInv, BrowserTypeOK, Kinds
      <4>2. tab[t].csrf = tab[t].shows
        BY <3>1 DEF BrowserInv, TabOK
      <4> QED
        BY <4>1, <4>2 DEF WriteOK, Request, NoRequest, Guarded
    <3>2. CASE ~ (u = t /\ k = "write")
      BY <3>2 DEF Send, BrowserInv, BrowserTypeOK, Kinds
    <3> QED
      BY <3>1, <3>2
  <2> QED
    BY <2>1, <2>2, <2>3
<1> QED
  BY <1>1, <1>2 DEF BrowserInv

\* Writing what a tab keeps.
LEMMA KeepIs ==
  ASSUME BrowserTypeOK, NEW t \in Tabs, NEW shows \in MaybeSession,
         NEW csrf \in MaybeSession, Keep(t, shows, csrf)
  PROVE  /\ tab' \in [Tabs -> [shows: MaybeSession, csrf: MaybeSession]]
         /\ tab'[t] = [shows |-> shows, csrf |-> csrf]
         /\ \A u \in Tabs \ {t} : tab'[u] = tab[u]
BY DEF BrowserTypeOK, Keep

\* An answer arrives in a tab, or is lost: the slot is free, and the tab keeps what it
\* had, or the user and the token of one session, or nothing.
LEMMA DropKeeps ==
  ASSUME BrowserInv, NEW t \in Tabs, NEW k \in Kinds, Drop(t, k),
         \/ UNCHANGED tab
         \/ Keep(t, None, None)
         \/ /\ k = "entry"
            /\ Keep(t, flight[t]["entry"].session, flight[t]["entry"].session),
         cookie' \in MaybeSession, UNCHANGED <<alive, issued>>
  PROVE  BrowserInv'
<1> USE DEF BrowserInv
<1>1. BrowserTypeOK /\ None \in MaybeSession /\ "entry" \in Kinds /\ "write" \in Kinds
  BY DEF MaybeSession, Kinds
<1>2. flight[t]["entry"].session \in MaybeSession
  BY <1>1 DEF BrowserTypeOK, TabRequests
<1>3. /\ flight' \in [Tabs -> [Kinds -> TabRequests]]
      /\ \A u \in Tabs, j \in Kinds :
           flight'[u][j] = IF u = t /\ j = k THEN NoRequest ELSE flight[u][j]
  BY <1>1, NoRequestIsTyped DEF BrowserTypeOK, Drop
<1>4. PICK s \in MaybeSession :
        /\ tab' = tab \/ Keep(t, s, s)
        /\ s # None => tab' = tab \/ k = "entry"
  BY <1>1, <1>2
<1>5. /\ tab' \in [Tabs -> [shows: MaybeSession, csrf: MaybeSession]]
      /\ tab'[t] = tab[t] \/ tab'[t] = [shows |-> s, csrf |-> s]
      /\ \A u \in Tabs \ {t} : tab'[u] = tab[u]
  <2>1. CASE tab' = tab
    BY <1>1, <2>1 DEF BrowserTypeOK
  <2>2. CASE Keep(t, s, s)
    BY <1>1, <2>2, KeepIs
  <2>3. tab' = tab \/ Keep(t, s, s)
    BY <1>4
  <2> QED
    BY <2>1, <2>2, <2>3
<1>6. BrowserTypeOK'
  BY <1>1, <1>3, <1>5 DEF BrowserTypeOK
<1>7. ASSUME NEW u \in Tabs
      PROVE  (TabOK(u) /\ EntryOK(u) /\ WriteOK(flight[u]["write"]))'
  <2>1. TabOK(u)'
    BY <1>5 DEF TabOK
  <2>2. EntryOK(u)'
    <3>1. CASE u = t /\ k = "entry"
      <4>1. flight'[u]["entry"].op = "idle"
        BY <1>1, <1>3, <3>1 DEF NoRequest
      <4> QED
        BY <4>1 DEF EntryOK
    <3>2. CASE ~ (u = t /\ k = "entry")
      <4>1. flight'[u]["entry"] = flight[u]["entry"]
        BY <1>1, <1>3, <3>2
      <4>2. tab[u].shows = None => tab'[u].shows = None
        BY <1>4, <1>5, <3>2
      <4> QED
        BY <4>1, <4>2 DEF EntryOK
    <3> QED
      BY <3>1, <3>2
  <2>3. WriteOK(flight[u]["write"])'
    <3>1. flight'[u]["write"] \in {NoRequest, flight[u]["write"]}
      BY <1>1, <1>3
    <3>2. WriteOK(NoRequest) /\ WriteOK(flight[u]["write"])
      BY DEF WriteOK, NoRequest
    <3> QED
      BY <3>1, <3>2 DEF WriteOK
  <2> QED
    BY <2>1, <2>2, <2>3
<1> QED
  BY <1>6, <1>7

\* The server answers: what a write is served for is the session its token is of.
LEMMA AnswerKeeps ==
  ASSUME BrowserInv, NEW t \in Tabs, NEW k \in Kinds,
         NEW STATE code, NEW STATE session,
         code \in {200, 401, 403}, session \in MaybeSession,
         Answer(t, k, code, session), Waiting(t, k),
         k = "write" /\ code = 200 => session = flight[t][k].csrf,
         alive' \subseteq issued', issued' \subseteq Sessions, UNCHANGED <<cookie, tab>>
  PROVE  BrowserInv'
<1> USE DEF BrowserInv
<1>1. BrowserTypeOK /\ "entry" \in Kinds /\ "write" \in Kinds
  BY DEF Kinds
<1> DEFINE old == flight[t][k]
           q == [op |-> old.op, jar |-> None, csrf |-> None, shown |-> old.shown,
                 code |-> code, session |-> session]
<1>2. q \in TabRequests
  BY <1>1 DEF BrowserTypeOK, TabRequests, MaybeSession
<1>3. /\ flight' \in [Tabs -> [Kinds -> TabRequests]]
      /\ \A u \in Tabs, j \in Kinds :
           flight'[u][j] = IF u = t /\ j = k THEN q ELSE flight[u][j]
  <2>1. flight' = [flight EXCEPT ![t][k] = q]
    BY DEF Answer
  <2> HIDE DEF q
  <2> QED
    BY <1>1, <1>2, <2>1 DEF BrowserTypeOK
<1>4. BrowserTypeOK'
  BY <1>1, <1>3 DEF BrowserTypeOK
<1>5. ASSUME NEW u \in Tabs
      PROVE  (TabOK(u) /\ EntryOK(u) /\ WriteOK(flight[u]["write"]))'
  <2>1. TabOK(u)'
    BY DEF TabOK
  <2>2. EntryOK(u)'
    <3>1. flight'[u]["entry"].op = flight[u]["entry"].op
      BY <1>1, <1>3
    <3>2. EntryOK(u) /\ tab'[u] = tab[u]
      OBVIOUS
    <3> QED
      BY <3>1, <3>2 DEF EntryOK
  <2>3. WriteOK(flight[u]["write"])'
    <3>1. CASE u = t /\ k = "write"
      <4>1. flight'[u]["write"] = q
        BY <1>1, <1>3, <3>1
      <4>2. old # NoRequest /\ old.code = 0 /\ WriteOK(old)
        BY <3>1 DEF Waiting
      <4> QED
        BY <3>1, <4>1, <4>2 DEF WriteOK
    <3>2. CASE ~ (u = t /\ k = "write")
      <4>1. flight'[u]["write"] = flight[u]["write"]
        BY <1>1, <1>3, <3>2
      <4> QED
        BY <4>1 DEF WriteOK
    <3> QED
      BY <3>1, <3>2
  <2> QED
    BY <2>1, <2>2, <2>3
<1> QED
  BY <1>4, <1>5

LEMMA ServeKeeps ==
  ASSUME BrowserInv, NEW t \in Tabs, NEW k \in Kinds, Serve(t, k)
  PROVE  BrowserInv'
<1> DEFINE q == flight[t][k]
           code == Verdict(q)
           session == IF code = 200 THEN q.jar ELSE None
<1>1. BrowserTypeOK /\ q \in TabRequests
  BY DEF BrowserInv, BrowserTypeOK
<1>2. code \in {200, 401, 403} /\ session \in MaybeSession
  BY <1>1 DEF Verdict, TabRequests, MaybeSession
<1>3. ASSUME k = "write", code = 200
      PROVE  session = q.csrf
  <2>1. q.op = "write"
    BY <1>3 DEF BrowserInv, WriteOK, Serve, Waiting
  <2>2. TokenFits(q) /\ q.jar \in alive
    BY <1>3, <2>1 DEF Verdict, Guarded
  <2>3. q.jar # None
    BY <1>1, <2>2, BrowserAssumption DEF BrowserTypeOK
  <2> QED
    BY <1>3, <2>2, <2>3 DEF TokenFits
<1>4. /\ Answer(t, k, code, session) /\ Waiting(t, k)
      /\ alive' \subseteq issued' /\ issued' \subseteq Sessions
      /\ UNCHANGED <<cookie, tab>>
  BY <1>1 DEF Serve, BrowserTypeOK
<1> HIDE DEF code, session
<1> QED
  BY <1>2, <1>3, <1>4, AnswerKeeps

LEMMA ServeLoginKeeps ==
  ASSUME BrowserInv, NEW t \in Tabs, ServeLogin(t)
  PROVE  BrowserInv'
<1>1. BrowserTypeOK /\ "entry" \in Kinds /\ None \in MaybeSession
  BY DEF BrowserInv, Kinds, MaybeSession
<1>2. CASE \E s \in Sessions \ issued :
             /\ issued' = issued \cup {s} /\ alive' = alive \cup {s}
             /\ Answer(t, "entry", 200, s)
  <2>1. PICK s \in Sessions \ issued :
               /\ issued' = issued \cup {s} /\ alive' = alive \cup {s}
               /\ Answer(t, "entry", 200, s)
    BY <1>2
  <2>2. /\ s \in MaybeSession /\ alive' \subseteq issued' /\ issued' \subseteq Sessions
        /\ Waiting(t, "entry") /\ UNCHANGED <<cookie, tab>>
    BY <1>1, <2>1 DEF BrowserTypeOK, MaybeSession, ServeLogin
  <2> QED
    BY <1>1, <2>1, <2>2, AnswerKeeps
<1>3. CASE UNCHANGED <<issued, alive>> /\ Answer(t, "entry", 403, None)
  <2>1. /\ alive' \subseteq issued' /\ issued' \subseteq Sessions
        /\ Waiting(t, "entry") /\ UNCHANGED <<cookie, tab>>
    BY <1>1, <1>3 DEF BrowserTypeOK, ServeLogin
  <2> QED
    BY <1>1, <1>3, <2>1, AnswerKeeps
<1> QED
  BY <1>2, <1>3 DEF ServeLogin

\* A new page starts with nothing.
LEMMA LoadKeeps ==
  ASSUME BrowserInv, NEW t \in Tabs, Load(t)
  PROVE  BrowserInv'
<1> USE DEF BrowserInv
<1> DEFINE begin == [op |-> "start", jar |-> cookie, csrf |-> None, shown |-> None,
                     code |-> 0, session |-> None]
<1>1. BrowserTypeOK /\ begin \in TabRequests
  BY DEF BrowserTypeOK, TabRequests, MaybeSession
<1>2. /\ flight' \in [Tabs -> [Kinds -> TabRequests]]
      /\ \A u \in Tabs \ {t} : flight'[u] = flight[u]
      /\ flight'[t]["entry"].op = "start" /\ flight'[t]["write"] = NoRequest
  BY <1>1, NoRequestIsTyped DEF Load, BrowserTypeOK, NoRequest, Kinds
<1>3. /\ tab' \in [Tabs -> [shows: MaybeSession, csrf: MaybeSession]]
      /\ \A u \in Tabs \ {t} : tab'[u] = tab[u]
      /\ tab'[t].shows = None
  BY <1>1, BlankIsTyped DEF Load, BrowserTypeOK, Blank
<1>4. BrowserTypeOK'
  BY <1>1, <1>2, <1>3 DEF BrowserTypeOK, Load
<1>5. ASSUME NEW u \in Tabs
      PROVE  (TabOK(u) /\ EntryOK(u) /\ WriteOK(flight[u]["write"]))'
  <2>1. TabOK(u)' /\ EntryOK(u)'
    BY <1>2, <1>3 DEF TabOK, EntryOK
  <2>2. WriteOK(NoRequest) /\ WriteOK(flight[u]["write"])
    BY DEF WriteOK, NoRequest
  <2>3. WriteOK(flight[u]["write"])'
    BY <1>2, <2>2 DEF WriteOK
  <2> QED
    BY <2>1, <2>3
<1> QED
  BY <1>4, <1>5

\* The token of the new session is stored while the tab shows nobody.
LEMMA LoggedInKeeps ==
  ASSUME BrowserInv, NEW t \in Tabs, LoggedIn(t)
  PROVE  BrowserInv'
<1> USE DEF BrowserInv
<1> DEFINE old == flight[t]["entry"]
<1>1. /\ BrowserTypeOK /\ "entry" \in Kinds /\ "write" \in Kinds
      /\ old \in TabRequests
  BY DEF BrowserTypeOK, Kinds
<1>2. tab[t].shows = None
  BY DEF LoggedIn, GotAnswer, EntryOK
<1>3. CASE old.code = 200
  <2> DEFINE me == [op |-> "me", jar |-> old.session, csrf |-> None, shown |-> None,
                    code |-> 0, session |-> None]
  <2>1. me \in TabRequests
    BY <1>1 DEF TabRequests, MaybeSession
  <2>2. flight' = [flight EXCEPT ![t]["entry"] = me]
    BY <1>3 DEF LoggedIn, Request, Guarded
  <2>3. /\ flight' \in [Tabs -> [Kinds -> TabRequests]]
        /\ flight'[t]["entry"].op = "me" /\ flight'[t]["write"] = flight[t]["write"]
        /\ \A u \in Tabs \ {t} : flight'[u] = flight[u]
    BY <1>1, <2>1, <2>2 DEF BrowserTypeOK
  <2>4. /\ tab' \in [Tabs -> [shows: MaybeSession, csrf: MaybeSession]]
        /\ \A u \in Tabs : tab'[u].shows = tab[u].shows
        /\ \A u \in Tabs \ {t} : tab'[u] = tab[u]
    <3>1. tab' = [tab EXCEPT ![t].csrf = old.session]
      BY <1>3 DEF LoggedIn
    <3>2. old.session \in MaybeSession
      BY <1>1 DEF TabRequests
    <3> HIDE DEF old
    <3> QED
      BY <1>1, <3>1, <3>2 DEF BrowserTypeOK
  <2>5. BrowserTypeOK'
    BY <1>1, <1>3, <2>3, <2>4 DEF LoggedIn, BrowserTypeOK, TabRequests
  <2>6. ASSUME NEW u \in Tabs
        PROVE  (TabOK(u) /\ EntryOK(u) /\ WriteOK(flight[u]["write"]))'
    <3>1. TabOK(u)'
      BY <1>2, <2>4 DEF TabOK
    <3>2. EntryOK(u)'
      BY <2>3, <2>4 DEF EntryOK
    <3>3. WriteOK(flight[u]["write"]) /\ flight'[u]["write"] = flight[u]["write"]
      BY <2>3
    <3>4. WriteOK(flight[u]["write"])'
      BY <3>3 DEF WriteOK
    <3> QED
      BY <3>1, <3>2, <3>4
  <2> QED
    BY <2>5, <2>6
<1>4. CASE old.code # 200
  <2>1. Drop(t, "entry") /\ UNCHANGED tab /\ UNCHANGED cookie /\ UNCHANGED <<alive, issued>>
    BY <1>4 DEF LoggedIn
  <2>2. cookie' \in MaybeSession
    BY <1>1, <2>1 DEF BrowserTypeOK
  <2> QED
    BY <1>1, <2>1, <2>2, DropKeeps
<1> QED
  BY <1>3, <1>4

----------------------------------------------------------------------------

LEMMA NextKeeps ==
  ASSUME BrowserInv, BrowserNext
  PROVE  BrowserInv'
<1>1. BrowserTypeOK /\ Kinds = {"entry", "logout", "poll", "write"} /\ None \in MaybeSession
  BY DEF BrowserInv, Kinds, MaybeSession
<1>2. ASSUME NEW t \in Tabs, Load(t)
      PROVE  BrowserInv'
  BY <1>2, LoadKeeps
<1>3. ASSUME NEW t \in Tabs, Login(t) \/ Logout(t) \/ Poll(t) \/ Change(t)
      PROVE  BrowserInv'
  BY <1>1, <1>3, SendKeeps DEF Login, Logout, Poll, Change
<1>4. ASSUME NEW t \in Tabs, ServeLogin(t)
      PROVE  BrowserInv'
  BY <1>4, ServeLoginKeeps
<1>5. ASSUME NEW t \in Tabs, NEW k \in Kinds, Serve(t, k)
      PROVE  BrowserInv'
  BY <1>5, ServeKeeps
<1>6. ASSUME NEW s \in Sessions, SessionEnds(s)
      PROVE  BrowserInv'
  <2>1. BrowserTypeOK'
    BY <1>1, <1>6 DEF BrowserTypeOK, SessionEnds
  <2> QED
    BY <1>6, <2>1 DEF BrowserInv, SessionEnds, TabOK, EntryOK, WriteOK
<1>7. ASSUME NEW t \in Tabs, Known(t)
      PROVE  BrowserInv'
  <2>1. cookie' \in MaybeSession
    BY <1>1, <1>7 DEF BrowserTypeOK, Known
  <2> QED
    BY <1>1, <1>7, <2>1, DropKeeps DEF Known
<1>8. ASSUME NEW t \in Tabs, LoggedIn(t)
      PROVE  BrowserInv'
  BY <1>8, LoggedInKeeps
<1>9. ASSUME NEW t \in Tabs, LoggedOut(t)
      PROVE  BrowserInv'
  <2>1. cookie' \in MaybeSession
    BY <1>1, <1>9 DEF BrowserTypeOK, LoggedOut
  <2> QED
    BY <1>1, <1>9, <2>1, DropKeeps DEF LoggedOut
<1>10. ASSUME NEW t \in Tabs, NEW k \in Kinds, Received(t, k) \/ Lost(t, k)
       PROVE  BrowserInv'
  <2>1. /\ cookie' \in MaybeSession /\ UNCHANGED <<alive, issued>> /\ Drop(t, k)
        /\ UNCHANGED tab \/ Keep(t, None, None)
    BY <1>1, <1>10 DEF BrowserTypeOK, Received, Lost
  <2> QED
    BY <1>1, <2>1, DropKeeps
<1> QED
  BY <1>1, <1>2, <1>3, <1>4, <1>5, <1>6, <1>7, <1>8, <1>9, <1>10
  DEF BrowserNext, PollStep

\* Tabs share one cookie and keep a token of their own; a write the server accepts ran
\* as the user the tab showed when it was sent (csrfMiddleware, verifyCsrfToken).
THEOREM AcceptedAsShown == BrowserSpec => []WritesAsShown
<1>1. BrowserInit => BrowserInv
  <2> SUFFICES ASSUME BrowserInit
               PROVE  BrowserInv
    OBVIOUS
  <2>1. BrowserTypeOK
    BY NoRequestIsTyped, BlankIsTyped DEF BrowserInit, BrowserTypeOK, MaybeSession
  <2>2. ASSUME NEW t \in Tabs
        PROVE  TabOK(t) /\ EntryOK(t) /\ WriteOK(flight[t]["write"])
    <3>1. /\ tab[t].shows = None /\ flight[t]["entry"].op = "idle"
          /\ flight[t]["write"] = NoRequest
      BY DEF BrowserInit, Blank, NoRequest, Kinds
    <3>2. WriteOK(NoRequest)
      BY DEF WriteOK, NoRequest
    <3> QED
      BY <3>1, <3>2 DEF TabOK, EntryOK
  <2> QED
    BY <2>1, <2>2 DEF BrowserInv
<1>2. BrowserInv /\ [BrowserNext]_browserVars => BrowserInv'
  <2>1. CASE BrowserNext
    BY <2>1, NextKeeps
  <2>2. CASE UNCHANGED browserVars
    BY <2>2 DEF browserVars, BrowserInv, BrowserTypeOK, TabOK, EntryOK, WriteOK
  <2> QED
    BY <2>1, <2>2
<1>3. BrowserInv => WritesAsShown
  BY DEF BrowserInv, WriteOK, WritesAsShown
<1> QED
  BY <1>1, <1>2, <1>3, PTL DEF BrowserSpec

----------------------------------------------------------------------------
(* The page of unprocessed punches *)

Loads == [stage: {"free", "list", "pool"}, aborted: BOOLEAN,
          left: SUBSET Boxes, asked: SUBSET Boxes]

LoadTypes ==
  /\ mounted \in BOOLEAN
  /\ shown \in [Boxes -> {"none", "loading", "row"}]
  /\ load \in [LoadRuns -> Loads]
  /\ current \in LoadRuns \cup {NoLoad}

\* Only the run of start() that abortRef holds may still write, and only while the
\* page is there; what it has asked for and has been answered has its row.
RunsSound ==
  /\ current # NoLoad => mounted
  /\ \A l \in LoadRuns : load[l].stage # "free" /\ ~ load[l].aborted => l = current
  /\ \A l \in LoadRuns : load[l].stage = "pool" /\ ~ load[l].aborted =>
       \A box \in Boxes \ (load[l].left \cup load[l].asked) : shown[box] = "row"

LoadInv == LoadTypes /\ RunsSound /\ DoneShowsEveryClient

LEMMA NotStartedLoad == NotStarted \in Loads /\ NotStarted.stage = "free"
  BY DEF NotStarted, Loads

LEMMA LoadInitially == LoadInit => LoadInv
  BY NotStartedLoad
     DEF LoadInit, LoadInv, LoadTypes, RunsSound, DoneShowsEveryClient, All

\* After an abort no run writes to the page.
LEMMA AbortedAll ==
  ASSUME LoadTypes, RunsSound
  PROVE  /\ Aborted \in [LoadRuns -> Loads]
         /\ \A l \in LoadRuns : Aborted[l].stage # "free" => Aborted[l].aborted
<1>1. CASE current = NoLoad
  BY <1>1, LoadNames DEF Aborted, LoadTypes, RunsSound
<1>2. CASE current # NoLoad
  <2> DEFINE cut == load[current].stage # "free"
             x == [load[current] EXCEPT !.aborted = cut]
  <2>1. cut \in BOOLEAN /\ current \in LoadRuns /\ load[current] \in Loads
    BY <1>2 DEF LoadTypes
  <2>2. x \in Loads /\ x.stage = load[current].stage /\ x.aborted = cut
    <3> HIDE DEF cut
    <3>1. QED
      BY <2>1 DEF Loads
  <2>3. Aborted = [load EXCEPT ![current] = x]
    BY <1>2 DEF Aborted
  <2>4. Aborted \in [LoadRuns -> Loads]
    <3> HIDE DEF x
    <3>1. QED
      BY <2>1, <2>2, <2>3 DEF LoadTypes
  <2>5. ASSUME NEW l \in LoadRuns, Aborted[l].stage # "free" PROVE Aborted[l].aborted
    <3>1. CASE l = current
      <4>1. Aborted[l] = x
        <5> HIDE DEF x
        <5>1. QED
          BY <3>1, <2>1, <2>3 DEF LoadTypes
      <4>2. cut
        BY <4>1, <2>2, <2>5
      <4>3. QED
        BY <4>1, <4>2, <2>2, Zenon
    <3>2. CASE l # current
      <4>1. Aborted[l] = load[l]
        <5> HIDE DEF x
        <5>1. QED
          BY <3>2, <2>3 DEF LoadTypes
      <4>2. QED
        BY <4>1, <2>5, <3>2 DEF RunsSound
    <3>3. QED
      BY <3>1, <3>2
  <2>6. QED
    BY <2>4, <2>5
<1>3. QED
  BY <1>1, <1>2

\* What an abort leaves of the invariant, whatever the page then shows.
LEMMA BegunKeeps ==
  ASSUME LoadTypes, RunsSound, mounted' = TRUE, NEW l \in LoadRuns, Begun(l)
  PROVE  LoadInv'
<1> DEFINE x == [NotStarted EXCEPT !.stage = "list"]
<1>1. x \in Loads /\ x.stage = "list"
  BY NotStartedLoad DEF Loads
<1>2. load' = [Aborted EXCEPT ![l] = x]
  BY DEF Begun
<1>3. /\ load' \in [LoadRuns -> Loads] /\ load'[l] = x
      /\ \A k \in LoadRuns : k # l => load'[k] = Aborted[k]
  <2> HIDE DEF x
  <2>1. QED
    BY <1>1, <1>2, AbortedAll
<1>4. \A k \in LoadRuns : load'[k].stage # "free" /\ ~ load'[k].aborted => k = l
  <2> HIDE DEF x
  <2>1. QED
    BY <1>3, AbortedAll
<1>5. \A k \in LoadRuns : load'[k].stage = "pool" => load'[k].aborted
  <2> HIDE DEF x
  <2>1. QED
    BY <1>1, <1>3, <1>4
<1>6. current' = l /\ shown' = All("none") /\ loadStatus' = "connecting"
  BY DEF Begun
<1>7. QED
  <2> HIDE DEF x
  <2>1. LoadTypes'
    BY <1>3, <1>6 DEF LoadTypes, All
  <2>2. RunsSound'
    BY <1>4, <1>5, <1>6 DEF RunsSound
  <2>3. QED
    BY <2>1, <2>2, <1>6 DEF LoadInv, DoneShowsEveryClient

\* The step of one run: the others stay as they are.
LEMMA RunStep ==
  ASSUME LoadInv, NEW l \in LoadRuns, LoadStep(l)
  PROVE  LoadInv'
<1> USE DEF LoadInv
<1>0. load \in [LoadRuns -> Loads] /\ load[l] \in Loads
  BY DEF LoadTypes
<1>1. ASSUME End(l), UNCHANGED <<mounted, current>>, LoadTypes',
             UNCHANGED shown, DoneShowsEveryClient'
      PROVE  LoadInv'
  <2>1. /\ load'[l].stage = "free"
        /\ \A k \in LoadRuns : k # l => load'[k] = load[k]
    BY <1>0, <1>1, NotStartedLoad DEF End
  <2>2. RunsSound'
    BY <1>1, <2>1 DEF RunsSound
  <2>3. QED
    BY <1>1, <2>2
<1>2. CASE Listed(l)
  <2>1. CASE load[l].aborted
    <3>1. End(l) /\ UNCHANGED <<mounted, current, shown, loadStatus>>
      BY <1>2, <2>1, Zenon DEF Listed
    <3>2. LoadTypes' /\ DoneShowsEveryClient'
      BY <3>1, NotStartedLoad DEF End, LoadTypes, DoneShowsEveryClient
    <3>3. QED
      BY <1>1, <3>1, <3>2
  <2>2. CASE ~ load[l].aborted
    <3> DEFINE y == [load[l] EXCEPT !.stage = "pool"]
               z == [y EXCEPT !.left = Boxes]
    <3>1. y \in Loads /\ y.stage = "pool" /\ y.aborted = load[l].aborted
      BY <1>0 DEF Loads
    <3>2. z \in Loads /\ z.stage = "pool" /\ z.left = Boxes
      <4> HIDE DEF y
      <4>1. QED
        BY <3>1 DEF Loads
    <3>3. z.aborted = load[l].aborted
      <4> HIDE DEF y
      <4>1. z.aborted = y.aborted
        BY <3>1 DEF Loads
      <4>2. QED
        BY <3>1, <4>1, Zenon
    <3>4. load' = [load EXCEPT ![l] = z] /\ Show(All("loading"), "streaming")
      BY <1>2, <2>2, Zenon DEF Listed
    <3>5. load[l].stage = "list" /\ UNCHANGED <<mounted, current>>
      BY <1>2 DEF Listed
    <3>6. l = current /\ mounted
      BY <2>2, <3>5, LoadNames DEF RunsSound
    <3>7. shown' = All("loading") /\ loadStatus' = "streaming"
      BY <3>4, <3>6 DEF Show
    <3> HIDE DEF z
    <3>8. /\ load' \in [LoadRuns -> Loads] /\ load'[l] = z
          /\ \A k \in LoadRuns : k # l => load'[k] = load[k]
      BY <1>0, <3>2, <3>4
    <3>9. RunsSound'
      BY <2>2, <3>2, <3>3, <3>5, <3>6, <3>8 DEF RunsSound
    <3>10. LoadTypes' /\ DoneShowsEveryClient'
      BY <3>5, <3>7, <3>8 DEF LoadTypes, All, DoneShowsEveryClient
    <3>11. QED
      BY <3>9, <3>10
  <2>3. QED
    BY <2>1, <2>2
<1>3. CASE ListRejected(l)
  <2>1. End(l) /\ UNCHANGED <<mounted, current, shown>>
    BY <1>3 DEF ListRejected, Show
  <2>2. LoadTypes' /\ DoneShowsEveryClient'
    BY <1>3, <2>1, NotStartedLoad DEF ListRejected, Show, End, LoadTypes, DoneShowsEveryClient
  <2>3. QED
    BY <1>1, <2>1, <2>2
<1>4. CASE LoadDone(l)
  <2>1. End(l) /\ UNCHANGED <<mounted, current, shown>>
    BY <1>4 DEF LoadDone, Show
  <2>2. LoadTypes'
    BY <2>1, NotStartedLoad DEF End, LoadTypes
  <2>3. DoneShowsEveryClient'
    <3>1. CASE load[l].aborted
      <4>1. UNCHANGED <<shown, loadStatus>>
        BY <1>4, <3>1, Zenon DEF LoadDone
      <4>2. QED
        BY <2>1, <4>1 DEF DoneShowsEveryClient
    <3>2. CASE ~ load[l].aborted
      <4>1. load[l].stage = "pool" /\ load[l].asked = {} /\ load[l].left = {}
        BY <1>4, <3>2 DEF LoadDone
      <4>2. \A box \in Boxes : shown[box] = "row"
        BY <3>2, <4>1 DEF RunsSound
      <4>3. QED
        BY <2>1, <4>2 DEF DoneShowsEveryClient
    <3>3. QED
      BY <3>1, <3>2
  <2>4. QED
    BY <1>1, <2>1, <2>2, <2>3
<1>5. ASSUME NEW box \in Boxes, AskBox(l, box) PROVE LoadInv'
  <2> DEFINE p == load[l].left \ {box}
             q == load[l].asked \cup {box}
             y == [load[l] EXCEPT !.left = p]
             z == [y EXCEPT !.asked = q]
  <2>0. p \in SUBSET Boxes /\ q \in SUBSET Boxes
    BY <1>0 DEF Loads
  <2>1. y \in Loads /\ y.left = p /\ y.stage = load[l].stage
    <3> HIDE DEF p
    <3>1. QED
      BY <1>0, <2>0 DEF Loads
  <2>2. y.aborted = load[l].aborted
    <3> HIDE DEF p
    <3>1. QED
      BY <1>0, <2>0 DEF Loads
  <2>3. z \in Loads /\ z.left = p /\ z.asked = q /\ z.stage = load[l].stage
    <3> HIDE DEF p, q, y
    <3>1. QED
      BY <2>0, <2>1 DEF Loads
  <2>4. z.aborted = load[l].aborted
    <3> HIDE DEF p, q, y
    <3>1. z.aborted = y.aborted
      BY <2>0, <2>1 DEF Loads
    <3>2. QED
      BY <2>2, <3>1, Zenon
  <2>5. load' = [load EXCEPT ![l] = z]
    BY <1>5 DEF AskBox
  <2>6. UNCHANGED <<mounted, current, shown, loadStatus>> /\ ~ load[l].aborted
    BY <1>5 DEF AskBox
  <2>7. p \cup q = load[l].left \cup load[l].asked
    BY <1>5 DEF AskBox
  <2> HIDE DEF p, q, z
  <2>8. /\ load' \in [LoadRuns -> Loads] /\ load'[l] = z
        /\ \A k \in LoadRuns : k # l => load'[k] = load[k]
    BY <1>0, <2>3, <2>5
  <2>9. RunsSound'
    BY <2>3, <2>4, <2>6, <2>7, <2>8 DEF RunsSound
  <2>10. QED
    BY <2>6, <2>8, <2>9 DEF LoadTypes, DoneShowsEveryClient
<1>6. ASSUME NEW box \in Boxes, BoxAnswered(l, box) PROVE LoadInv'
  <2> DEFINE q == load[l].asked \ {box}
             z == [load[l] EXCEPT !.asked = q]
  <2>0. q \in SUBSET Boxes
    BY <1>0 DEF Loads
  <2>1. /\ z \in Loads /\ z.asked = q /\ z.stage = load[l].stage
        /\ z.left = load[l].left
    <3> HIDE DEF q
    <3>1. QED
      BY <1>0, <2>0 DEF Loads
  <2>2. z.aborted = load[l].aborted
    <3> HIDE DEF q
    <3>1. QED
      BY <1>0, <2>0 DEF Loads
  <2>3. load' = [load EXCEPT ![l] = z] /\ UNCHANGED <<mounted, current>>
    BY <1>6 DEF BoxAnswered
  <2> HIDE DEF z
  <2>4. /\ load' \in [LoadRuns -> Loads] /\ load'[l] = z
        /\ \A k \in LoadRuns : k # l => load'[k] = load[k]
    BY <1>0, <2>1, <2>3
  <2>5. \/ UNCHANGED <<shown, loadStatus>>
        \/ shown' = [shown EXCEPT ![box] = "row"] /\ loadStatus' = loadStatus
    BY <1>6 DEF BoxAnswered, Show
  <2>6. CASE load[l].aborted
    <3>1. UNCHANGED <<shown, loadStatus>>
      BY <1>6, <2>6, Zenon DEF BoxAnswered
    <3>2. RunsSound'
      BY <2>1, <2>2, <2>3, <2>4, <2>6, <3>1 DEF RunsSound
    <3>3. QED
      BY <2>3, <2>4, <3>1, <3>2 DEF LoadTypes, DoneShowsEveryClient
  <2>7. CASE ~ load[l].aborted /\ load[l].stage # "free"
    <3>1. l = current /\ mounted
      BY <2>7, LoadNames DEF RunsSound
    <3>2. shown' = [shown EXCEPT ![box] = "row"] /\ loadStatus' = loadStatus
      BY <1>6, <2>7, <3>1 DEF BoxAnswered, Show
    <3>3. \A c \in Boxes : shown'[c] = IF c = box THEN "row" ELSE shown[c]
      BY <3>2 DEF LoadTypes
    <3>4. RunsSound'
      BY <2>1, <2>2, <2>3, <2>4, <2>7, <3>1, <3>3 DEF RunsSound
    <3>5. QED
      BY <2>3, <2>4, <3>2, <3>3, <3>4 DEF LoadTypes, DoneShowsEveryClient
  <2>8. CASE load[l].stage = "free"
    <3>1. \A c \in Boxes : shown[c] = "row" => shown'[c] = "row"
      BY <2>5 DEF LoadTypes
    <3>2. shown' \in [Boxes -> {"none", "loading", "row"}]
      BY <2>5 DEF LoadTypes
    <3>3. RunsSound'
      BY <2>1, <2>2, <2>3, <2>4, <2>8, <3>1 DEF RunsSound
    <3>4. QED
      BY <2>3, <2>4, <2>5, <3>1, <3>2, <3>3 DEF LoadTypes, DoneShowsEveryClient
  <2>9. QED
    BY <2>6, <2>7, <2>8
<1>7. QED
  BY <1>2, <1>3, <1>4, <1>5, <1>6 DEF LoadStep

\* At most the run abortRef holds writes, and what is not yet there it still has to
\* ask for or is waiting for.
THEOREM LoadInvariance == LoadInv /\ [LoadNext]_loadVars => LoadInv'
<1> SUFFICES ASSUME LoadInv, [LoadNext]_loadVars PROVE LoadInv'
  OBVIOUS
<1> USE DEF LoadInv
<1>1. ASSUME NEW l \in LoadRuns, start(l) PROVE LoadInv'
  BY <1>1, BegunKeeps DEF start, LoadTypes
<1>2. ASSUME NEW l \in LoadRuns, Mount(l) PROVE LoadInv'
  <2>1. CASE store = "fresh"
    BY <1>2, <2>1 DEF Mount, LoadTypes, RunsSound, DoneShowsEveryClient, All
  <2>2. CASE store # "fresh"
    BY <1>2, <2>2, BegunKeeps DEF Mount
  <2>3. QED
    BY <2>1, <2>2
<1>3. CASE Unmount
  <2>1. load' = Aborted /\ current' = NoLoad /\ mounted' = FALSE /\ shown' = All("none")
    BY <1>3 DEF Unmount
  <2>2. LoadTypes'
    BY <2>1, AbortedAll DEF LoadTypes, All
  <2>3. RunsSound'
    BY <2>1, AbortedAll DEF RunsSound
  <2>4. QED
    BY <2>1, <2>2, <2>3 DEF DoneShowsEveryClient
<1>4. CASE Polled
  <2>1. UNCHANGED <<mounted, load, current, loadStatus>>
    BY <1>4 DEF Polled, Show
  <2>2. shown' = All("row") \/ (UNCHANGED shown)
    BY <1>4 DEF Polled, Show
  <2>3. shown' \in [Boxes -> {"none", "loading", "row"}]
    BY <2>2 DEF All, LoadTypes
  <2>4. \A box \in Boxes : shown[box] = "row" => shown'[box] = "row"
    BY <2>2 DEF All
  <2>5. QED
    BY <2>1, <2>3, <2>4 DEF LoadTypes, RunsSound, DoneShowsEveryClient
<1>5. CASE PollTick \/ PollFails \/ WindowOver \/ UNCHANGED loadVars
  BY <1>5 DEF PollTick, PollFails, WindowOver, loadVars, LoadTypes, RunsSound,
              DoneShowsEveryClient
<1>6. QED
  BY <1>1, <1>2, <1>3, <1>4, <1>5, RunStep DEF LoadNext

\* The page of punches, when it says it is done, shows a row for every client.
THEOREM DoneIsComplete == LoadSpec => []DoneShowsEveryClient
<1>1. LoadInv => DoneShowsEveryClient
  BY DEF LoadInv
<1>2. QED
  BY <1>1, LoadInitially, LoadInvariance, PTL DEF LoadSpec

----------------------------------------------------------------------------
(* The job monitor *)

RowStatuses == {"waits", "runs", "over"}
Lists == [Executions -> [status: RowStatuses, writes: Nat]]
Queries == [known: BOOLEAN, rows: Lists, invalid: BOOLEAN,
            fetch: {"idle", "asked", "answered"}, answer: Lists]
Events == [name: {"started", "ended"}, run: Executions, writes: Nat]

MonitorTypes ==
  /\ table \in Lists
  /\ fetcher \in Queries
  /\ heard \in [Executions -> Nat]
  /\ inbox \in Seq(Events)

\* These rows have every end the page was told of.
HasHeard(rows) == \A e \in Executions : heard[e] <= rows[e].writes

\* A query at rest whose rows are not known to be out of date, and one that has read
\* its answer, have what was heard; nothing is heard that the table does not have.
QuerySound(q) ==
  /\ ~ q.known => \A e \in Executions : heard[e] = 0
  /\ q.fetch = "answered" => HasHeard(q.answer)
  /\ q.fetch = "idle" /\ ~ q.invalid => HasHeard(q.rows)

HeardInv ==
  /\ MonitorTypes
  /\ HasHeard(table)
  /\ \A i \in DOMAIN inbox : inbox[i].writes <= table[inbox[i].run].writes
  /\ QuerySound(fetcher)

LEMMA QueryTypes == Unread \in Lists /\ NoQuery \in Queries /\ NoQuery.fetch = "idle"
                    /\ NoQuery.known = FALSE /\ NoQuery.invalid = TRUE
  BY DEF Unread, Fresh, Lists, NoQuery, Queries, RowStatuses

LEMMA MonitorInitially == MonitorInit => HeardInv
<1> SUFFICES ASSUME MonitorInit PROVE HeardInv
  OBVIOUS
<1>1. MonitorTypes /\ \A i \in DOMAIN inbox : FALSE
  BY QueryTypes DEF MonitorInit, MonitorTypes
<1>2. HasHeard(table)
  BY DEF MonitorInit, HasHeard, Unread, Fresh
<1>3. QuerySound(fetcher)
  BY QueryTypes DEF MonitorInit, QuerySound
<1>4. QED
  BY <1>1, <1>2, <1>3 DEF HeardInv

\* A fetch that is asked for has not read anything yet.
LEMMA AskedQuery ==
  ASSUME NEW q \in Queries
  PROVE  /\ Asked(q) \in Queries /\ Asked(q).fetch = "asked"
         /\ Asked(q).known = q.known
<1> DEFINE y == [q EXCEPT !.fetch = "asked"]
           z == [y EXCEPT !.answer = Unread]
<1>1. y \in Queries /\ y.fetch = "asked"
  BY DEF Queries
<1>2. y.known = q.known
  BY DEF Queries
<1>3. z \in Queries /\ z.fetch = "asked"
  <2> HIDE DEF y
  <2>1. QED
    BY <1>1, QueryTypes DEF Queries
<1>4. z.known = q.known
  <2> HIDE DEF y
  <2>1. z.known = y.known
    BY <1>1 DEF Queries
  <2>2. QED
    BY <1>2, <2>1, Zenon
<1>5. Asked(q) = z
  BY DEF Asked
<1>6. QED
  BY <1>3, <1>4, <1>5, Zenon

LEMMA JoinedQuery ==
  ASSUME NEW q \in Queries
  PROVE  /\ Joined(q) \in Queries /\ Joined(q).fetch # "idle"
         /\ Joined(q).known = q.known
         /\ Joined(q).fetch = "answered" => q.fetch = "answered" /\ Joined(q).answer = q.answer
<1>1. CASE q.fetch = "idle"
  <2>1. Joined(q) = Asked(q)
    BY <1>1 DEF Joined
  <2>2. Joined(q).fetch = "asked"
    BY <2>1, AskedQuery, Zenon
  <2>3. QED
    BY <2>1, <2>2, AskedQuery, Zenon
<1>2. CASE q.fetch # "idle"
  BY <1>2, Zenon DEF Joined
<1>3. QED
  BY <1>1, <1>2

\* After an event the query is not at rest, and a query that had rows reads again.
LEMMA RefetchedQuery ==
  ASSUME NEW q \in Queries
  PROVE  /\ Refetch(q) \in Queries /\ Refetch(q).fetch # "idle"
         /\ Refetch(q).known = q.known
         /\ q.known => Refetch(q).fetch = "asked"
         /\ Refetch(q).fetch = "answered" =>
              q.fetch = "answered" /\ Refetch(q).answer = q.answer
<1> DEFINE y == IF q.known THEN Asked(q) ELSE Joined(q)
           z == [y EXCEPT !.invalid = TRUE]
<1>1. /\ y \in Queries /\ y.fetch # "idle" /\ y.known = q.known
      /\ q.known => y.fetch = "asked"
      /\ y.fetch = "answered" => q.fetch = "answered" /\ y.answer = q.answer
  <2>1. CASE q.known
    <3>1. y = Asked(q)
      BY <2>1, Zenon
    <3>2. y.fetch = "asked"
      BY <3>1, AskedQuery, Zenon
    <3> HIDE DEF y
    <3>3. QED
      BY <3>1, <3>2, AskedQuery, Zenon
  <2>2. CASE ~ q.known
    <3>1. y = Joined(q)
      BY <2>2, Zenon
    <3> HIDE DEF y
    <3>2. QED
      BY <2>2, <3>1, JoinedQuery, Zenon
  <2>3. QED
    BY <2>1, <2>2
<1>2. z \in Queries /\ z.fetch = y.fetch /\ z.answer = y.answer
  <2> HIDE DEF y
  <2>1. QED
    BY <1>1 DEF Queries
<1>3. z.known = y.known
  <2> HIDE DEF y
  <2>1. QED
    BY <1>1 DEF Queries
<1>4. Refetch(q) = z
  BY DEF Refetch
<1> HIDE DEF y, z
<1>5. QED
  BY <1>1, <1>2, <1>3, <1>4, Zenon

\* Rows are only written on.
LEMMA TableWritten ==
  ASSUME HeardInv, NEW e \in Executions, NEW s \in RowStatuses, Written(e, s)
  PROVE  /\ table' \in Lists
         /\ \A f \in Executions : table[f].writes <= table'[f].writes
<1> DEFINE x == [status |-> s, writes |-> table[e].writes + 1]
<1>1. table \in Lists /\ table[e].writes \in Nat
  BY DEF HeardInv, MonitorTypes, Lists
<1>2. x \in [status: RowStatuses, writes: Nat] /\ x.writes = table[e].writes + 1
  BY <1>1
<1>3. table' = [table EXCEPT ![e] = x]
  BY DEF Written
<1> HIDE DEF x
<1>4. table' \in Lists /\ \A f \in Executions : table'[f] = IF f = e THEN x ELSE table[f]
  BY <1>1, <1>2, <1>3 DEF Lists
<1>5. ASSUME NEW f \in Executions PROVE table[f].writes <= table'[f].writes
  <2>1. table[f].writes \in Nat
    BY <1>1 DEF Lists
  <2>2. QED
    BY <1>1, <1>2, <1>4, <2>1
<1>6. QED
  BY <1>4, <1>5

\* With a table that was only written on, what was heard and sent is still in it.
LEMMA TableKept ==
  ASSUME HeardInv, table' \in Lists,
         \A f \in Executions : table[f].writes <= table'[f].writes,
         UNCHANGED <<heard, inbox>>
  PROVE  /\ HasHeard(table)'
         /\ \A i \in DOMAIN inbox' : inbox'[i].writes <= table'[inbox'[i].run].writes
<1>1. \A f \in Executions : table[f].writes \in Nat /\ table'[f].writes \in Nat
  BY DEF HeardInv, MonitorTypes, Lists
<1>2. \A f \in Executions : heard[f] \in Nat
  BY DEF HeardInv, MonitorTypes
<1>3. \A i \in DOMAIN inbox : inbox[i].run \in Executions /\ inbox[i].writes \in Nat
  <2>1. \A i \in DOMAIN inbox : inbox[i] \in Events
    BY DEF HeardInv, MonitorTypes
  <2>2. QED
    BY <2>1 DEF Events
<1>4. HasHeard(table)'
  BY <1>1, <1>2 DEF HeardInv, HasHeard
<1>5. ASSUME NEW i \in DOMAIN inbox PROVE inbox[i].writes <= table'[inbox[i].run].writes
  BY <1>1, <1>3 DEF HeardInv
<1>6. QED
  BY <1>4, <1>5

\* A query that was asked again, or joined, is as sound as it was.
LEMMA RefetchSound ==
  ASSUME NEW q \in Queries, QuerySound(q), NEW r \in Queries, r.fetch # "idle",
         r.known = q.known,
         r.fetch = "answered" => q.fetch = "answered" /\ r.answer = q.answer
  PROVE  QuerySound(r)
  BY DEF QuerySound

LEMMA ServerKeeps ==
  ASSUME HeardInv, NEW e \in Executions,
         StartRun(e) \/ EndRun(e) \/ Emit(e) \/ Retry(e) \/ CancelRun(e)
  PROVE  HeardInv'
<1>1. CASE StartRun(e) \/ EndRun(e) \/ Retry(e)
  <2>1. PICK s \in RowStatuses : Written(e, s)
    BY <1>1 DEF StartRun, EndRun, Retry, RowStatuses
  <2>2. UNCHANGED <<heard, inbox, fetcher>>
    BY <1>1 DEF StartRun, EndRun, Retry, socketVars, pageVars
  <2>3. table' \in Lists /\ HasHeard(table)'
        /\ \A i \in DOMAIN inbox' : inbox'[i].writes <= table'[inbox'[i].run].writes
    BY <2>1, <2>2, TableWritten, TableKept
  <2>4. MonitorTypes' /\ QuerySound(fetcher)'
    BY <2>2, <2>3 DEF HeardInv, MonitorTypes, QuerySound, HasHeard
  <2>5. QED
    BY <2>3, <2>4 DEF HeardInv
<1>2. CASE CancelRun(e)
  <2>1. Written(e, "over") /\ UNCHANGED <<heard, inbox>>
    BY <1>2 DEF CancelRun, socketVars
  <2>2. table' \in Lists /\ HasHeard(table)'
        /\ \A i \in DOMAIN inbox' : inbox'[i].writes <= table'[inbox'[i].run].writes
    BY <2>1, TableWritten, TableKept DEF RowStatuses
  <2>3. fetcher \in Queries /\ QuerySound(fetcher)
    BY DEF HeardInv, MonitorTypes
  <2>4. fetcher' = fetcher \/ fetcher' = Refetch(fetcher)
    BY <1>2 DEF CancelRun
  <2>5. QuerySound(Refetch(fetcher)) /\ Refetch(fetcher) \in Queries
    BY <2>3, RefetchedQuery, RefetchSound
  <2>6. fetcher' \in Queries /\ QuerySound(fetcher')
    BY <2>3, <2>4, <2>5, Zenon
  <2>7. QuerySound(fetcher)'
    BY <2>1, <2>6 DEF QuerySound, HasHeard
  <2>8. QED
    BY <2>1, <2>2, <2>6, <2>7 DEF HeardInv, MonitorTypes
<1>3. CASE Emit(e)
  <2> DEFINE n == IF engine[e] = "starting" THEN "started" ELSE "ended"
             event == [name |-> n, run |-> e, writes |-> table[e].writes]
  <2>1. table[e].writes \in Nat /\ n \in {"started", "ended"}
    BY DEF HeardInv, MonitorTypes, Lists
  <2>2. event \in Events /\ event.run = e /\ event.writes = table[e].writes
    <3> HIDE DEF n
    <3>1. QED
      BY <2>1 DEF Events
  <2>3. inbox' = (IF up THEN Append(inbox, event) ELSE inbox)
        /\ UNCHANGED <<table, fetcher, heard>>
    BY <1>3 DEF Emit, pageVars
  <2> HIDE DEF event
  <2>4. inbox \in Seq(Events)
    BY DEF HeardInv, MonitorTypes
  <2>5. inbox' \in Seq(Events)
    BY <2>2, <2>3, <2>4
  <2>6. ASSUME NEW i \in DOMAIN inbox' PROVE inbox'[i].writes <= table[inbox'[i].run].writes
    <3>1. CASE i \in DOMAIN inbox
      <4>1. inbox'[i] = inbox[i]
        BY <2>2, <2>3, <2>4, <3>1
      <4>2. QED
        BY <3>1, <4>1 DEF HeardInv
    <3>2. CASE i \notin DOMAIN inbox
      <4>1. inbox'[i] = event
        BY <2>2, <2>3, <2>4, <3>2
      <4>2. QED
        BY <2>1, <2>2, <4>1
    <3>3. QED
      BY <3>1, <3>2
  <2>7. QED
    BY <2>3, <2>5, <2>6 DEF HeardInv, MonitorTypes, QuerySound, HasHeard
<1>4. QED
  BY <1>1, <1>2, <1>3

LEMMA HearKeeps == HeardInv /\ Hear => HeardInv'
<1> SUFFICES ASSUME HeardInv, Hear PROVE HeardInv'
  OBVIOUS
<1> DEFINE m == Head(inbox)
<1>1. /\ fetcher \in Queries /\ QuerySound(fetcher) /\ inbox \in Seq(Events)
      /\ heard \in [Executions -> Nat] /\ inbox # << >>
  BY DEF HeardInv, MonitorTypes, Hear
<1>2. inbox' = Tail(inbox) /\ table' = table
  BY DEF Hear, serverVars
<1>3. /\ inbox' \in Seq(Events)
      /\ \A i \in DOMAIN inbox' : i + 1 \in DOMAIN inbox /\ inbox'[i] = inbox[i + 1]
  BY <1>1, <1>2
<1>4. \A i \in DOMAIN inbox' : inbox'[i].writes <= table'[inbox'[i].run].writes
  BY <1>2, <1>3 DEF HeardInv
<1>5. m = inbox[1] /\ 1 \in DOMAIN inbox
  BY <1>1
<1>6. m \in Events /\ m.writes <= table[m.run].writes
  BY <1>1, <1>5 DEF HeardInv
<1>7. m.run \in Executions /\ m.writes \in Nat
  BY <1>6 DEF Events
<1>8. /\ Refetch(fetcher) \in Queries /\ Refetch(fetcher).known = fetcher.known
      /\ QuerySound(Refetch(fetcher))
      /\ fetcher.known => Refetch(fetcher).fetch = "asked"
  BY <1>1, RefetchedQuery, RefetchSound
<1>9. /\ fetcher' = (IF m.name = "ended" \/ list = "live" THEN Refetch(fetcher) ELSE fetcher)
      /\ heard' = (IF m.name = "ended" /\ fetcher.known
                     THEN [heard EXCEPT ![m.run] = m.writes] ELSE heard)
  BY DEF Hear
<1> HIDE DEF m
<1>10. CASE m.name = "ended" /\ fetcher.known
  <2>1. fetcher' = Refetch(fetcher) /\ heard' = [heard EXCEPT ![m.run] = m.writes]
    BY <1>9, <1>10
  <2>2. fetcher' \in Queries /\ fetcher'.fetch = "asked"
    BY <1>8, <1>10, <2>1
  <2>3. fetcher'.known
    BY <1>8, <1>10, <2>1, Zenon
  <2>4. heard' \in [Executions -> Nat] /\ HasHeard(table)'
    BY <1>1, <1>2, <1>6, <1>7, <2>1 DEF HeardInv, HasHeard
  <2>5. QuerySound(fetcher)'
    BY <2>2, <2>3 DEF QuerySound
  <2>6. QED
    BY <1>2, <1>3, <1>4, <2>2, <2>4, <2>5 DEF HeardInv, MonitorTypes
<1>11. CASE ~ (m.name = "ended" /\ fetcher.known)
  <2>1. heard' = heard
    BY <1>9, <1>11, Zenon
  <2>2. fetcher' \in Queries /\ QuerySound(fetcher')
    BY <1>1, <1>8, <1>9, Zenon
  <2>3. QuerySound(fetcher)' /\ HasHeard(table)'
    BY <1>2, <2>1, <2>2 DEF QuerySound, HasHeard, HeardInv
  <2>4. QED
    BY <1>1, <1>2, <1>3, <1>4, <2>1, <2>2, <2>3 DEF HeardInv, MonitorTypes
<1>12. QED
  BY <1>10, <1>11

\* Steps that touch neither the table, nor what was heard, nor the events under way.
LEMMA QueryKeeps ==
  ASSUME HeardInv, UNCHANGED <<table, heard>>, inbox' = inbox \/ inbox' = << >>,
         fetcher' \in Queries, QuerySound(fetcher')
  PROVE  HeardInv'
<1>1. inbox' \in Seq(Events)
      /\ \A i \in DOMAIN inbox' : inbox'[i].writes <= table'[inbox'[i].run].writes
  <2>1. CASE inbox' = inbox
    BY <2>1 DEF HeardInv, MonitorTypes
  <2>2. CASE inbox' = << >>
    BY <2>2
  <2>3. QED
    BY <2>1, <2>2
<1>2. QED
  BY <1>1 DEF HeardInv, MonitorTypes, QuerySound, HasHeard

LEMMA PageKeeps ==
  ASSUME HeardInv, Connect \/ Disconnect \/ Open \/ Leave \/ Fetching \/ Failed
  PROVE  HeardInv'
<1>0. fetcher \in Queries /\ QuerySound(fetcher) /\ table \in Lists /\ HasHeard(table)
  BY DEF HeardInv, MonitorTypes
<1>1. CASE Connect \/ Disconnect \/ Leave
  BY <1>0, <1>1, QueryKeeps DEF Connect, Disconnect, Leave, serverVars, pageVars
<1>2. CASE Open
  <2>1. fetcher' = fetcher \/ fetcher' = Joined(fetcher)
    BY <1>2 DEF Open
  <2>2. UNCHANGED <<table, heard, inbox>>
    BY <1>2 DEF Open, serverVars, socketVars
  <2>3. Joined(fetcher) \in Queries /\ QuerySound(Joined(fetcher))
    BY <1>0, JoinedQuery, RefetchSound
  <2>4. fetcher' \in Queries /\ QuerySound(fetcher')
    BY <1>0, <2>1, <2>3, Zenon
  <2>5. QED
    BY <2>2, <2>4, QueryKeeps
<1>3. CASE PollLive
  <2>1. fetcher' = Asked(fetcher) /\ UNCHANGED <<table, heard, inbox>>
    BY <1>3 DEF PollLive, serverVars, socketVars
  <2>2. /\ Asked(fetcher) \in Queries /\ Asked(fetcher).known = fetcher.known
        /\ Asked(fetcher).fetch = "asked"
    BY <1>0, AskedQuery
  <2>3. QuerySound(Asked(fetcher))
    BY <1>0, <2>2, RefetchSound
  <2>4. QED
    BY <2>1, <2>2, <2>3, QueryKeeps
<1>4. CASE ReadRows
  <2> DEFINE y == [fetcher EXCEPT !.fetch = "answered"]
             z == [y EXCEPT !.answer = table]
  <2>1. y \in Queries /\ y.fetch = "answered"
    BY <1>0 DEF Queries
  <2>2. y.known = fetcher.known
    BY <1>0 DEF Queries
  <2>3. z \in Queries /\ z.fetch = "answered" /\ z.answer = table
    <3> HIDE DEF y
    <3>1. QED
      BY <1>0, <2>1 DEF Queries
  <2>4. z.known = fetcher.known
    <3> HIDE DEF y
    <3>1. z.known = y.known
      BY <1>0, <2>1 DEF Queries
    <3>2. QED
      BY <2>2, <3>1, Zenon
  <2>5. fetcher' = z /\ UNCHANGED <<table, heard, inbox>>
    BY <1>4 DEF ReadRows, serverVars, socketVars
  <2> HIDE DEF z
  <2>6. QuerySound(z)
    BY <1>0, <2>3, <2>4 DEF QuerySound
  <2>7. QED
    BY <2>3, <2>5, <2>6, QueryKeeps
<1>5. CASE Arrived
  <2> DEFINE ans == fetcher.answer
             x == [NoQuery EXCEPT !.known = TRUE]
             y == [x EXCEPT !.rows = ans]
             z == [y EXCEPT !.invalid = FALSE]
  <2>0. ans \in Lists /\ HasHeard(ans)
    BY <1>0, <1>5 DEF Queries, QuerySound, Arrived
  <2>1. x \in Queries /\ x.fetch = "idle" /\ x.known
    BY QueryTypes DEF Queries
  <2>2. y \in Queries /\ y.fetch = "idle" /\ y.rows = ans /\ y.known
    <3> HIDE DEF x, ans
    <3>1. QED
      BY <2>0, <2>1 DEF Queries
  <2>3. z \in Queries /\ z.fetch = "idle" /\ z.rows = ans /\ z.known
    <3> HIDE DEF y, ans
    <3>1. QED
      BY <2>2 DEF Queries
  <2>4. fetcher' = z /\ UNCHANGED <<table, heard, inbox>>
    BY <1>5 DEF Arrived, serverVars, socketVars
  <2> HIDE DEF z, ans
  <2>5. QuerySound(z)
    BY <2>0, <2>3 DEF QuerySound
  <2>6. QED
    BY <2>3, <2>4, <2>5, QueryKeeps
<1>6. CASE Failed
  <2> DEFINE x == [fetcher EXCEPT !.invalid = TRUE]
             y == [x EXCEPT !.fetch = "idle"]
             z == [y EXCEPT !.answer = Unread]
  <2>1. x \in Queries /\ x.invalid
    BY <1>0 DEF Queries
  <2>2. x.known = fetcher.known
    BY <1>0 DEF Queries
  <2>3. y \in Queries /\ y.fetch = "idle" /\ y.invalid
    <3> HIDE DEF x
    <3>1. QED
      BY <2>1 DEF Queries
  <2>4. y.known = x.known
    <3> HIDE DEF x
    <3>1. QED
      BY <2>1 DEF Queries
  <2>5. z \in Queries /\ z.fetch = "idle" /\ z.invalid
    <3> HIDE DEF y
    <3>1. QED
      BY <2>3, QueryTypes DEF Queries
  <2>6. z.known = y.known
    <3> HIDE DEF y
    <3>1. QED
      BY <2>3, QueryTypes DEF Queries
  <2>7. fetcher' = z /\ UNCHANGED <<table, heard, inbox>>
    BY <1>6 DEF Failed, serverVars, socketVars
  <2> HIDE DEF x, y, z
  <2>8. z.known = fetcher.known
    BY <2>2, <2>4, <2>6, Zenon
  <2>9. QuerySound(z)
    BY <1>0, <2>5, <2>8 DEF QuerySound
  <2>10. QED
    BY <2>5, <2>7, <2>9, QueryKeeps
<1>7. QED
  BY <1>1, <1>2, <1>3, <1>4, <1>5, <1>6 DEF Fetching

\* Every end that was heard is in the answer a fetch has read, because the events
\* that are on their way name writes the table already has.
THEOREM HeardInvariance == HeardInv /\ [MonitorNext]_monitorVars => HeardInv'
<1> SUFFICES ASSUME HeardInv, [MonitorNext]_monitorVars PROVE HeardInv'
  OBVIOUS
<1>1. CASE UNCHANGED monitorVars
  BY <1>1 DEF monitorVars, HeardInv, MonitorTypes, QuerySound, HasHeard
<1>2. QED
  BY <1>1, ServerKeeps, HearKeeps, PageKeeps DEF MonitorNext

\* An end the page was told of is in its list once the query is at rest.
THEOREM HeardEnds == MonitorSpec => []HeardIsShown
<1>1. HeardInv => HeardIsShown
  BY DEF HeardInv, QuerySound, HasHeard, HeardIsShown
<1>2. QED
  BY <1>1, MonitorInitially, HeardInvariance, PTL DEF MonitorSpec

----------------------------------------------------------------------------
(* The shared fetch of punches *)

CountCallRows == [op: {"none", "all", "stream"}, of: CountCalls \cup {"none"},
                  left: SUBSET CountClients, asked: SUBSET CountClients]

\* A pool keeps to its workers; its set of open queries has a size.
FitsWorkers(x) == IsFiniteSet(x.asked) /\ Cardinality(x.asked) <= PunchWorkers

\* Every call that waits, waits for the fetch others may join, and that one is under way.
FetchInv ==
  /\ countCall \in [CountCalls -> CountCallRows]
  /\ \A r \in CountCalls : FitsWorkers(countCall[r])
  /\ \A r \in CountCalls : countCall[r].op = "all" =>
       countCall[r].of = punchAllInFlight /\ punchAllInFlight # "none"
  /\ punchAllInFlight # "none" => punchAllInFlight \in CountCalls /\ IsFetch(punchAllInFlight)

LEMMA NoCalls ==
  /\ NoCountCall \in CountCallRows /\ FitsWorkers(NoCountCall)
  /\ NoCountCall.op = "none"
<1>1. NoCountCall \in CountCallRows /\ NoCountCall.op = "none" /\ NoCountCall.asked = {}
  BY DEF NoCountCall, CountCallRows
<1>2. QED
  BY <1>1, FS_EmptySet, CountAssumption DEF FitsWorkers

LEMMA CountInitially == CountInit => FetchInv
  BY NoCalls DEF CountInit, FetchInv

\* One call changes, and the fetch others may join is not withdrawn.
LEMMA CallChanges ==
  ASSUME FetchInv, NEW r \in CountCalls, NEW x \in CountCallRows, FitsWorkers(x),
         countCall' = [countCall EXCEPT ![r] = x], UNCHANGED punchAllInFlight,
         x.op = "all" => x.of = punchAllInFlight /\ punchAllInFlight # "none",
         r = punchAllInFlight => x.op = "all"
  PROVE  FetchInv'
<1>0. countCall \in [CountCalls -> CountCallRows]
  BY DEF FetchInv
<1>1. /\ countCall' \in [CountCalls -> CountCallRows]
      /\ \A s \in CountCalls : countCall'[s] = IF s = r THEN x ELSE countCall[s]
  BY <1>0
<1>2. \A s \in CountCalls : FitsWorkers(countCall'[s])
  BY <1>1 DEF FetchInv
<1>3. \A s \in CountCalls : countCall'[s].op = "all" =>
        countCall'[s].of = punchAllInFlight' /\ punchAllInFlight' # "none"
  BY <1>1 DEF FetchInv
<1>4. ASSUME punchAllInFlight' # "none"
      PROVE  punchAllInFlight' \in CountCalls /\ IsFetch(punchAllInFlight)'
  <2>1. /\ punchAllInFlight \in CountCalls
        /\ countCall[punchAllInFlight].op = "all"
        /\ countCall[punchAllInFlight].of = punchAllInFlight
    BY <1>4 DEF FetchInv, IsFetch
  <2>2. QED
    BY <1>1, <2>1 DEF IsFetch
<1>5. QED
  BY <1>1, <1>2, <1>3, <1>4 DEF FetchInv, FitsWorkers

LEMMA JoinKeeps ==
  ASSUME FetchInv, NEW r \in CountCalls, Join(r)
  PROVE  FetchInv'
<1>0. countCall \in [CountCalls -> CountCallRows] /\ countCall[r].op = "none"
  BY NoCalls DEF FetchInv, Join, CallCounts
<1>1. CASE punchAllInFlight # "none"
  <2> DEFINE x == Waits(punchAllInFlight)
  <2>1. /\ x \in CountCallRows /\ x.op = "all" /\ x.of = punchAllInFlight
        /\ x.asked = {}
    BY <1>1 DEF FetchInv, Waits, CountCallRows
  <2>2. FitsWorkers(x)
    BY <2>1, FS_EmptySet, CountAssumption DEF FitsWorkers
  <2>3. countCall' = [countCall EXCEPT ![r] = x] /\ UNCHANGED punchAllInFlight
    BY <1>1 DEF Join, CallCounts
  <2> HIDE DEF x
  <2>4. QED
    BY <1>1, <2>1, <2>2, <2>3, CallChanges
<1>2. CASE punchAllInFlight = "none"
  <2> DEFINE x == Asks("all", r)
  <2>1. x \in CountCallRows /\ x.op = "all" /\ x.of = r /\ x.asked = {}
    BY DEF Asks, CountCallRows
  <2>2. FitsWorkers(x)
    BY <2>1, FS_EmptySet, CountAssumption DEF FitsWorkers
  <2>3. countCall' = [countCall EXCEPT ![r] = x] /\ punchAllInFlight' = r
    BY <1>2 DEF Join, CallCounts
  <2> HIDE DEF x
  <2>4. /\ countCall' \in [CountCalls -> CountCallRows]
        /\ \A s \in CountCalls : countCall'[s] = IF s = r THEN x ELSE countCall[s]
    BY <1>0, <2>1, <2>3
  <2>5. \A s \in CountCalls : FitsWorkers(countCall'[s])
    BY <2>2, <2>4 DEF FetchInv
  \* nobody waited, for there was nothing to wait for
  <2>6. \A s \in CountCalls : countCall'[s].op = "all" => s = r
    BY <1>2, <2>4 DEF FetchInv
  <2>7. r # "none" /\ countCall'[r] = x
    BY <2>4, CountAssumption
  <2>8. QED
    BY <2>1, <2>3, <2>4, <2>5, <2>6, <2>7 DEF FetchInv, FitsWorkers, IsFetch
<1>3. QED
  BY <1>1, <1>2

LEMMA StreamKeeps ==
  ASSUME FetchInv, NEW r \in CountCalls, Stream(r) \/ StreamEnds(r)
  PROVE  FetchInv'
<1>0. countCall[r].op # "all" /\ UNCHANGED punchAllInFlight
  BY NoCalls DEF Stream, StreamEnds, CallCounts
<1>1. r # punchAllInFlight
  BY <1>0, CountAssumption DEF FetchInv, IsFetch
<1>2. CASE Stream(r)
  <2> DEFINE x == Asks("stream", r)
  <2>1. x \in CountCallRows /\ x.op = "stream" /\ x.asked = {}
    BY DEF Asks, CountCallRows
  <2>2. FitsWorkers(x)
    BY <2>1, FS_EmptySet, CountAssumption DEF FitsWorkers
  <2>3. countCall' = [countCall EXCEPT ![r] = x]
    BY <1>2 DEF Stream, CallCounts
  <2> HIDE DEF x
  <2>4. QED
    BY <1>0, <1>1, <2>1, <2>2, <2>3, CallChanges
<1>3. CASE StreamEnds(r)
  <2>1. countCall' = [countCall EXCEPT ![r] = NoCountCall]
    BY <1>3 DEF StreamEnds
  <2>2. QED
    BY <1>0, <1>1, <2>1, NoCalls, CallChanges
<1>4. QED
  BY <1>2, <1>3

\* A call whose pool changes stays the call it was.
LEMMA PoolChanges ==
  ASSUME FetchInv, NEW r \in CountCalls, NEW p \in SUBSET CountClients,
         NEW q \in SUBSET CountClients, IsFiniteSet(q), Cardinality(q) <= PunchWorkers,
         countCall' = [countCall EXCEPT ![r] = [op |-> countCall[r].op,
                         of |-> countCall[r].of, left |-> p, asked |-> q]],
         UNCHANGED punchAllInFlight
  PROVE  FetchInv'
<1> DEFINE x == [op |-> countCall[r].op, of |-> countCall[r].of, left |-> p, asked |-> q]
<1>0. countCall[r] \in CountCallRows
  BY DEF FetchInv
<1>1. /\ x \in CountCallRows /\ x.op = countCall[r].op /\ x.of = countCall[r].of
      /\ x.asked = q
  BY <1>0 DEF CountCallRows
<1>2. countCall' = [countCall EXCEPT ![r] = x]
  OBVIOUS
<1> HIDE DEF x
<1>3. x.op = "all" => x.of = punchAllInFlight /\ punchAllInFlight # "none"
  BY <1>1 DEF FetchInv
<1>4. r = punchAllInFlight => x.op = "all"
  BY <1>1, CountAssumption DEF FetchInv, IsFetch
<1>5. FitsWorkers(x)
  BY <1>1 DEF FitsWorkers
<1>6. QED
  BY <1>1, <1>2, <1>3, <1>4, <1>5, CallChanges

LEMMA PoolKeeps ==
  ASSUME FetchInv, NEW r \in CountCalls, NEW c \in CountClients,
         AskOne(r, c) \/ Answered(r, c)
  PROVE  FetchInv'
<1> DEFINE l == countCall[r]
<1>0. /\ l \in CountCallRows /\ l.left \in SUBSET CountClients
      /\ l.asked \in SUBSET CountClients
      /\ IsFiniteSet(l.asked) /\ Cardinality(l.asked) <= PunchWorkers
      /\ PunchWorkers \in Nat /\ UNCHANGED punchAllInFlight
  BY CountAssumption DEF FetchInv, FitsWorkers, CountCallRows, AskOne, Answered
<1>l. l = [op |-> l.op, of |-> l.of, left |-> l.left, asked |-> l.asked]
  BY <1>0 DEF CountCallRows
<1>1. CASE AskOne(r, c)
  <2> DEFINE p == l.left \ {c}
             q == l.asked \cup {c}
             y == [l EXCEPT !.left = p]
  <2>1. p \in SUBSET CountClients /\ q \in SUBSET CountClients
    BY <1>0
  <2>2. IsFiniteSet(q) /\ Cardinality(q) <= PunchWorkers
    BY <1>0, <1>1, PoolGrows DEF AskOne
  <2>3. countCall' = [countCall EXCEPT ![r] = [y EXCEPT !.asked = q]]
    BY <1>1 DEF AskOne
  <2>4. y = [op |-> l.op, of |-> l.of, left |-> p, asked |-> l.asked]
    <3> HIDE DEF l, p
    <3>1. QED
      BY <1>l
  <2>5. [y EXCEPT !.asked = q] = [op |-> l.op, of |-> l.of, left |-> p, asked |-> q]
    <3> HIDE DEF l, p, q, y
    <3>1. QED
      BY <2>4
  <2> HIDE DEF p, q, y
  <2>6. QED
    BY <1>0, <2>1, <2>2, <2>3, <2>5, PoolChanges
<1>2. CASE Answered(r, c)
  <2> DEFINE q == l.asked \ {c}
             x == [l EXCEPT !.asked = q]
  <2>1. q \in SUBSET CountClients /\ q \in SUBSET l.asked
    BY <1>0
  <2>2. IsFiniteSet(q) /\ Cardinality(q) <= PunchWorkers
    BY <1>0, <2>1, PoolShrinks
  <2>3. countCall' = [countCall EXCEPT ![r] = x]
    BY <1>2 DEF Answered
  <2>4. x = [op |-> l.op, of |-> l.of, left |-> l.left, asked |-> q]
    <3> HIDE DEF l, q
    <3>1. QED
      BY <1>l
  <2> HIDE DEF q, x
  <2>5. QED
    BY <1>0, <2>1, <2>2, <2>3, <2>4, PoolChanges
<1>3. QED
  BY <1>1, <1>2

\* The fetch that ends is the one everybody waits for.
LEMMA SettleKeeps ==
  ASSUME FetchInv, NEW r \in CountCalls, FetchDone(r) \/ FetchRejects(r)
  PROVE  FetchInv'
<1>0. countCall \in [CountCalls -> CountCallRows]
  BY DEF FetchInv
<1>1. IsFetch(r) /\ \E x : Settle(r, x)
  BY DEF FetchDone, FetchRejects
<1>2. r = punchAllInFlight
  BY <1>1 DEF FetchInv, IsFetch
<1>3. /\ countCall' \in [CountCalls -> CountCallRows]
      /\ \A s \in CountCalls : countCall'[s] \in {NoCountCall, countCall[s]}
      /\ \A s \in CountCalls : countCall'[s].op # "all"
  BY <1>0, <1>1, <1>2, NoCalls DEF Settle, FetchInv
<1>4. punchAllInFlight' = "none"
  BY <1>1 DEF Settle
<1>5. \A s \in CountCalls : FitsWorkers(countCall'[s])
  BY <1>3, NoCalls DEF FetchInv
<1>6. QED
  BY <1>3, <1>4, <1>5 DEF FetchInv, FitsWorkers

\* Calls join the fetch under way, or start one; nobody waits for a fetch that is gone.
THEOREM CountInvariance == FetchInv /\ [CountNext]_countVars => FetchInv'
<1> SUFFICES ASSUME FetchInv, [CountNext]_countVars PROVE FetchInv'
  OBVIOUS
<1>1. CASE CacheAges \/ SetEnabled \/ UNCHANGED countVars
  BY <1>1 DEF CacheAges, SetEnabled, countVars, FetchInv, FitsWorkers, IsFetch
<1>2. QED
  BY <1>1, JoinKeeps, StreamKeeps, PoolKeeps, SettleKeeps DEF CountNext

LEMMA FetchHolds == FetchInv => FetchIsShared
  BY DEF FetchInv, FetchIsShared, FitsWorkers, IsFetch

\* However many calls overlap and whatever fails, one fetch at most is under way for all
\* who ask, with no more queries than there are workers; none that ended can be joined.
THEOREM FetchShared == CountSpec => []FetchIsShared
  BY FetchHolds, CountInitially, CountInvariance, PTL DEF CountSpec

----------------------------------------------------------------------------
(* The lock of the file scan *)

ScanStages == {"free", "resolve", "query", "connect", "exec", "cooldown", "cancelled"}
Busy == {"query", "connect", "exec", "cooldown"}
FetchRows == [stage: ScanStages, plan: SUBSET ScanClients, left: SUBSET ScanClients,
              at: SUBSET ScanClients, rows: SUBSET ScanClients]

\* The lock is held while a call scans, and one call at most does.
LockInv ==
  /\ fetch \in [Fetches -> FetchRows]
  /\ activeScan \in [on: BOOLEAN, cancelled: BOOLEAN]
  /\ \A f, g \in Fetches : Scanning(f) /\ Scanning(g) => f = g
  /\ activeScan.on <=> \E f \in Fetches : Scanning(f)

LEMMA ScanRows == /\ NotAFetch \in FetchRows /\ NotAFetch.stage = "free"
                  /\ NoScan \in [on: BOOLEAN, cancelled: BOOLEAN] /\ ~ NoScan.on
  BY DEF NotAFetch, FetchRows, ScanStages, NoScan

LEMMA ScanInitially == ScanInit => LockInv
  BY ScanRows DEF ScanInit, LockInv, Scanning

\* A call that scans goes on scanning.
LEMMA ScanGoesOn ==
  ASSUME LockInv, NEW f \in Fetches, Scanning(f), NEW x \in FetchRows, x.stage \in Busy,
         fetch' = [fetch EXCEPT ![f] = x], UNCHANGED activeScan
  PROVE  LockInv'
<1>1. fetch' \in [Fetches -> FetchRows]
  BY DEF LockInv
<1>2. \A g \in Fetches : Scanning(g)' <=> Scanning(g)
  <2>1. \A g \in Fetches : fetch'[g] = IF g = f THEN x ELSE fetch[g]
    BY DEF LockInv
  <2>2. QED
    BY <2>1 DEF Scanning, Busy
<1>3. QED
  BY <1>1, <1>2, Zenon DEF LockInv

\* The call that scans ends and gives the lock back.
LEMMA ScanEnds ==
  ASSUME LockInv, NEW f \in Fetches, Scanning(f), NEW r, NEW broken, Complete(f, r, broken)
  PROVE  LockInv'
<1>1. activeScan' = NoScan /\ fetch' = [fetch EXCEPT ![f] = NotAFetch]
  BY DEF Complete
<1>2. \A g \in Fetches : ~ Scanning(g)'
  BY <1>1, ScanRows DEF LockInv, Scanning
<1>3. fetch' \in [Fetches -> FetchRows]
  BY <1>1, ScanRows DEF LockInv
<1>4. QED
  BY <1>1, <1>2, <1>3, ScanRows, Zenon DEF LockInv

\* A call that does not scan stays out of the way.
LEMMA ScanAside ==
  ASSUME LockInv, NEW f \in Fetches, ~ Scanning(f), NEW x \in FetchRows, x.stage \notin Busy,
         fetch' = [fetch EXCEPT ![f] = x], UNCHANGED activeScan
  PROVE  LockInv'
<1>1. fetch' \in [Fetches -> FetchRows]
  BY DEF LockInv
<1>2. \A g \in Fetches : Scanning(g)' <=> Scanning(g)
  <2>1. \A g \in Fetches : fetch'[g] = IF g = f THEN x ELSE fetch[g]
    BY DEF LockInv
  <2>2. QED
    BY <2>1 DEF Scanning, Busy
<1>3. QED
  BY <1>1, <1>2, Zenon DEF LockInv

LEMMA ScanAdvances ==
  ASSUME LockInv, NEW f \in Fetches, Scanning(f), NEW r \in FetchRows, Advance(f, r)
  PROVE  LockInv'
<1>1. ASSUME NEW x, Complete(f, x, FALSE) PROVE LockInv'
  BY <1>1, ScanEnds
<1>2. ASSUME NEW skip \in SUBSET r.left, NEW c \in r.left \ skip,
             fetch' = [fetch EXCEPT ![f] =
               [r EXCEPT !.stage = "connect", !.left = @ \ (skip \cup {c}),
                         !.at = {c}, !.rows = @ \cup skip]],
             UNCHANGED activeScan
      PROVE  LockInv'
  <2> DEFINE n == r.left \ (skip \cup {c})
             v == r.rows \cup skip
             w == [r EXCEPT !.stage = "connect"]
             x == [w EXCEPT !.left = n]
             y == [x EXCEPT !.at = {c}]
             z == [y EXCEPT !.rows = v]
  <2>1. n \in SUBSET ScanClients /\ v \in SUBSET ScanClients /\ {c} \in SUBSET ScanClients
    BY DEF FetchRows
  <2>2. w \in FetchRows /\ w.stage = "connect"
    BY DEF FetchRows, ScanStages
  <2>3. x \in FetchRows /\ x.stage = "connect"
    <3> HIDE DEF w, n
    <3>1. QED
      BY <2>1, <2>2 DEF FetchRows
  <2>4. y \in FetchRows /\ y.stage = "connect"
    <3> HIDE DEF x
    <3>1. QED
      BY <2>1, <2>3 DEF FetchRows
  <2>5. z \in FetchRows /\ z.stage = "connect"
    <3> HIDE DEF y, v
    <3>1. QED
      BY <2>1, <2>4 DEF FetchRows
  <2>6. fetch' = [fetch EXCEPT ![f] = z]
    BY <1>2
  <2> HIDE DEF z
  <2>7. QED
    BY <1>2, <2>5, <2>6, ScanGoesOn DEF Busy
<1>3. CASE activeScan.cancelled
  BY <1>1, <1>3 DEF Advance
<1>4. CASE ~ activeScan.cancelled
  BY <1>1, <1>2, <1>4 DEF Advance
<1>5. QED
  BY <1>3, <1>4

LEMMA RowIs ==
  ASSUME LockInv, NEW f \in Fetches
  PROVE  Row(f) \in FetchRows
<1> DEFINE v == fetch[f].rows \cup fetch[f].at
           y == [fetch[f] EXCEPT !.rows = v]
           z == [y EXCEPT !.at = {}]
<1>1. fetch[f] \in FetchRows /\ v \in SUBSET ScanClients
  BY DEF LockInv, FetchRows
<1>2. y \in FetchRows
  <2> HIDE DEF v
  <2>1. QED
    BY <1>1 DEF FetchRows
<1>3. z \in FetchRows
  <2> HIDE DEF y
  <2>1. QED
    BY <1>2 DEF FetchRows
<1>4. Row(f) = z
  BY DEF Row
<1>5. QED
  BY <1>3, <1>4, Zenon

LEMMA ScanStepKeeps ==
  ASSUME LockInv, NEW f \in Fetches, ScanStep(f)
  PROVE  LockInv'
<1>0. fetch[f] \in FetchRows
  BY DEF LockInv
<1>1. CASE Resolved(f)
  <2>1. fetch[f].stage = "resolve" /\ ~ Scanning(f)
    BY <1>1 DEF Resolved, Scanning
  <2>2. CASE ~ activeScan.on /\ activeScan' = [NoScan EXCEPT !.on = TRUE]
             /\ fetch' = [fetch EXCEPT ![f].stage = "query"]
    <3> DEFINE x == [fetch[f] EXCEPT !.stage = "query"]
               s == [NoScan EXCEPT !.on = TRUE]
    <3>1. x \in FetchRows /\ x.stage = "query"
      BY <1>0 DEF FetchRows, ScanStages
    <3>2. fetch' = [fetch EXCEPT ![f] = x] /\ activeScan' = s
      BY <2>2
    <3>3. s \in [on: BOOLEAN, cancelled: BOOLEAN] /\ s.on
      BY DEF NoScan
    <3>4. \A g \in Fetches : ~ Scanning(g)
      BY <2>2, Zenon DEF LockInv
    <3> HIDE DEF x, s
    <3>5. \A g \in Fetches : fetch'[g] = IF g = f THEN x ELSE fetch[g]
      BY <3>2 DEF LockInv
    <3>6. \A g \in Fetches : Scanning(g)' <=> g = f
      BY <3>1, <3>4, <3>5 DEF Scanning
    <3>7. fetch' \in [Fetches -> FetchRows]
      BY <3>1, <3>2 DEF LockInv
    <3>8. QED
      BY <3>2, <3>3, <3>6, <3>7, Zenon DEF LockInv
  <2>3. CASE fetch' = [fetch EXCEPT ![f] = NotAFetch] /\ UNCHANGED activeScan
    BY <2>1, <2>3, ScanRows, ScanAside DEF Busy
  <2>4. QED
    BY <1>1, <2>2, <2>3 DEF Resolved
<1>2. CASE Queried(f)
  <2>1. Scanning(f)
    BY <1>2 DEF Queried, Scanning
  <2>2. ASSUME NEW plan \in SUBSET ScanClients,
               Advance(f, [fetch[f] EXCEPT !.plan = plan, !.left = plan])
        PROVE  LockInv'
    <3> DEFINE y == [fetch[f] EXCEPT !.plan = plan]
               z == [y EXCEPT !.left = plan]
    <3>1. y \in FetchRows
      BY <1>0 DEF FetchRows
    <3>2. z \in FetchRows
      <4> HIDE DEF y
      <4>1. QED
        BY <3>1 DEF FetchRows
    <3>3. [fetch[f] EXCEPT !.plan = plan, !.left = plan] = z
      OBVIOUS
    <3> HIDE DEF z
    <3>4. Advance(f, z)
      BY <2>2, <3>3, Zenon
    <3>5. QED
      BY <2>1, <3>2, <3>4, ScanAdvances
  <2>3. CASE Complete(f, fetch[f], TRUE)
    BY <2>1, <2>3, ScanEnds
  <2>4. QED
    BY <1>2, <2>2, <2>3 DEF Queried
<1>3. CASE Connected(f)
  <2>1. Scanning(f)
    BY <1>3 DEF Connected, Scanning
  <2>2. CASE fetch' = [fetch EXCEPT ![f].stage = "exec"] /\ UNCHANGED activeScan
    <3> DEFINE x == [fetch[f] EXCEPT !.stage = "exec"]
    <3>1. x \in FetchRows /\ x.stage = "exec"
      BY <1>0 DEF FetchRows, ScanStages
    <3>2. fetch' = [fetch EXCEPT ![f] = x]
      BY <2>2
    <3> HIDE DEF x
    <3>3. QED
      BY <2>1, <2>2, <3>1, <3>2, ScanGoesOn DEF Busy
  <2>3. CASE Advance(f, fetch[f]) \/ Advance(f, Row(f))
    BY <1>0, <2>1, <2>3, RowIs, ScanAdvances
  <2>4. QED
    BY <1>3, <2>2, <2>3 DEF Connected
<1>4. CASE Executed(f)
  <2>1. Scanning(f)
    BY <1>4 DEF Executed, Scanning
  <2>2. CASE fetch' = [fetch EXCEPT ![f] = [Row(f) EXCEPT !.stage = "cooldown"]]
             /\ UNCHANGED activeScan
    <3> DEFINE r == Row(f)
               x == [r EXCEPT !.stage = "cooldown"]
    <3>1. r \in FetchRows
      BY RowIs
    <3> HIDE DEF r
    <3>2. x \in FetchRows /\ x.stage = "cooldown"
      BY <3>1 DEF FetchRows, ScanStages
    <3>3. fetch' = [fetch EXCEPT ![f] = x]
      BY <2>2 DEF r
    <3> HIDE DEF x
    <3>4. QED
      BY <2>1, <2>2, <3>2, <3>3, ScanGoesOn DEF Busy
  <2>3. CASE Advance(f, Row(f))
    BY <2>1, <2>3, RowIs, ScanAdvances
  <2>4. QED
    BY <1>4, <2>2, <2>3 DEF Executed
<1>5. CASE Interrupted(f)
  BY <1>5, ScanEnds DEF Interrupted, Scanning
<1>6. CASE Paused(f)
  BY <1>0, <1>6, ScanAdvances DEF Paused, Scanning
<1>7. QED
  BY <1>1, <1>2, <1>3, <1>4, <1>5, <1>6 DEF ScanStep

\* The lock is taken and given back together with the scan it stands for.
THEOREM ScanInvariance == LockInv /\ [ScanNext]_scanVars => LockInv'
<1> SUFFICES ASSUME LockInv, [ScanNext]_scanVars PROVE LockInv'
  OBVIOUS
<1>1. ASSUME NEW f \in Fetches, Fetch(f) PROVE LockInv'
  <2> DEFINE x == [fetch[f] EXCEPT !.stage = "resolve"]
  <2>1. x \in FetchRows /\ x.stage = "resolve"
    BY DEF LockInv, FetchRows, ScanStages
  <2>2. fetch' = [fetch EXCEPT ![f] = x] /\ UNCHANGED activeScan /\ ~ Scanning(f)
    BY <1>1, ScanRows DEF Fetch, Scanning
  <2> HIDE DEF x
  <2>3. QED
    BY <2>1, <2>2, ScanAside DEF Busy
<1>2. CASE CancelScan
  <2> DEFINE s == [activeScan EXCEPT !.cancelled = TRUE]
  <2>1. s \in [on: BOOLEAN, cancelled: BOOLEAN]
    BY DEF LockInv
  <2>2. s.on = activeScan.on
    BY DEF LockInv
  <2>3. activeScan' = s /\ UNCHANGED fetch
    BY <1>2 DEF CancelScan
  <2> HIDE DEF s
  <2>4. QED
    BY <2>1, <2>2, <2>3, Zenon DEF LockInv, Scanning
<1>3. CASE UNCHANGED scanVars
  BY <1>3, Zenon DEF scanVars, LockInv, Scanning
<1>4. QED
  BY <1>1, <1>2, <1>3, ScanStepKeeps DEF ScanNext

LEMMA LockExcludes == LockInv => ScanIsExclusive
<1> SUFFICES ASSUME LockInv PROVE ScanIsExclusive
  OBVIOUS
<1> DEFINE S == {f \in Fetches : Scanning(f)}
<1>1. Cardinality(S) <= 1
  <2>1. CASE S = {}
    <3>1. Cardinality(S) = 0
      <4> HIDE DEF S
      <4>1. QED
        BY <2>1, FS_EmptySet
    <3>2. QED
      BY <3>1
  <2>2. CASE S # {}
    <3>1. PICK f : S = {f}
      BY <2>2 DEF LockInv
    <3>2. Cardinality(S) = 1
      <4> HIDE DEF S
      <4>1. QED
        BY <3>1, FS_Singleton
    <3>3. QED
      BY <3>2
  <2>3. QED
    BY <2>1, <2>2
<1>2. QED
  BY <1>1, Zenon DEF LockInv, ScanIsExclusive

\* At most one scan, and the lock is held exactly while there is one.
THEOREM ScanExclusive == ScanSpec => []ScanIsExclusive
  BY LockExcludes, ScanInitially, ScanInvariance, PTL DEF ScanSpec

----------------------------------------------------------------------------
(* The limits, in the sum of the components (MCServices).  What BatchCache_proofs *)
(* shows of every batch cache is cited for the one that moves there; the instance *)
(* of the theorems and that of the model have definitions of their own, so that   *)
(* they say the same is shown piece by piece.                                     *)

Pool == INSTANCE BatchCache_proofs WITH
  Clients <- BatchClients, Windows <- {2}, Loads <- BatchLoads,
  Limit <- 2, MaxVersion <- 0, Backlog <- {0}, Stoppable <- TRUE, pc <- batchPc

LEMMA PoolAssumes == Pool!BatchAssumption
BY SMT DEF Pool!BatchAssumption, Pool!Versions

LEMMA SameSizes ==
  \A S : /\ Pool!IsFiniteSet(S) <=> IsFiniteSet(S)
         /\ Pool!Cardinality(S) = Cache!Cardinality(S)
BY DEF Pool!IsFiniteSet, IsFiniteSet, Pool!Cardinality, Cache!Cardinality

LEMMA SameBound == Pool!PoolIsBounded <=> Cache!PoolIsBounded
BY SameSizes DEF Pool!PoolIsBounded, Cache!PoolIsBounded, Pool!Live, Cache!Live

LEMMA SameVars ==
  /\ UNCHANGED Cache!vars => UNCHANGED Pool!vars
  /\ UNCHANGED batchVars => UNCHANGED Pool!vars
BY DEF Pool!vars, Pool!cacheVars, Pool!loadVars, Pool!poolVars,
       Cache!vars, Cache!cacheVars, Cache!loadVars, Cache!poolVars, batchVars

LEMMA SameInit == Pool!Init <=> Cache!Init
BY DEF Pool!Init, Pool!Nothing, Pool!Nobody, Pool!Missing,
       Cache!Init, Cache!Nothing, Cache!Nobody, Cache!Missing

\* The values and expressions the actions are built from.
LEMMA SameParts ==
  /\ Pool!Missing = Cache!Missing /\ Pool!Failed = Cache!Failed
  /\ Pool!Answers = Cache!Answers
  /\ Pool!Nothing = Cache!Nothing /\ Pool!Nobody = Cache!Nobody
  /\ Pool!StartPhase = Cache!StartPhase
  /\ \A l : Pool!Live(l) = Cache!Live(l)
  /\ \A v : Pool!Listed(v) = Cache!Listed(v)
<1> USE DEF Pool!Missing, Pool!Failed, Cache!Missing, Cache!Failed
<1>1. Pool!Answers = Cache!Answers
  BY DEF Pool!Answers, Pool!Versions, Cache!Answers, Cache!Versions
<1>2. Pool!Nothing = Cache!Nothing /\ Pool!Nobody = Cache!Nobody
  BY DEF Pool!Nothing, Pool!Nobody, Cache!Nothing, Cache!Nobody
<1>3. Pool!StartPhase = Cache!StartPhase
  BY DEF Pool!StartPhase, Cache!StartPhase
<1>4. \A l : Pool!Live(l) = Cache!Live(l)
  BY DEF Pool!Live, Cache!Live
<1>5. \A v : Pool!Listed(v) = Cache!Listed(v)
  BY DEF Pool!Listed, Cache!Listed
<1>6. QED
  BY <1>1, <1>2, <1>3, <1>4, <1>5

LEMMA SamePut == \A f, x, c, v : Pool!Put(f, x, c, v) = Cache!Put(f, x, c, v)
BY DEF Pool!Put, Cache!Put

LEMMA SameBatch ==
  /\ \A n, T : Pool!NextBatch(n, T) = Cache!NextBatch(n, T)
  /\ \A l, S : Pool!Launch(l, S) = Cache!Launch(l, S)
<1>1. \A n, T : Pool!NextBatch(n, T) = Cache!NextBatch(n, T)
  BY SameSizes DEF Pool!NextBatch, Cache!NextBatch
<1>2. \A l, S : Pool!Launch(l, S) = Cache!Launch(l, S)
  BY SameParts DEF Pool!Launch, Cache!Launch
<1>3. QED
  BY <1>1, <1>2

LEMMA SameSettle ==
  /\ \A l, c, v : Pool!Settles(l, c, v) <=> Cache!Settles(l, c, v)
  /\ \A l, c : Pool!Last(l, c) <=> Cache!Last(l, c)
BY SameParts DEF Pool!Settles, Pool!Last, Cache!Settles, Cache!Last

\* The actions, from the question to the answer.
LEMMA SameStart ==
  \A l \in BatchLoads :
    Pool!Ask(l) \/ Pool!ListClients(l) <=> Cache!Ask(l) \/ Cache!ListClients(l)
BY SameSizes
   DEF Pool!Ask, Pool!AskAll, Pool!AskOne, Pool!ListClients, Pool!NextBatch, Pool!Launch,
       Pool!StartPhase, Pool!Put, Pool!cacheVars, Pool!poolVars,
       Cache!Ask, Cache!AskAll, Cache!AskOne, Cache!ListClients, Cache!NextBatch,
       Cache!Launch, Cache!StartPhase, Cache!Put, Cache!cacheVars, Cache!poolVars

LEMMA SameConnector ==
  \A l, c : /\ Pool!SpawnChild(l, c) <=> Cache!SpawnChild(l, c)
            /\ Pool!EvaluateQuery(l, c) <=> Cache!EvaluateQuery(l, c)
BY SamePut
   DEF Pool!SpawnChild, Pool!EvaluateQuery, Pool!cacheVars, Pool!loadVars,
       Cache!SpawnChild, Cache!EvaluateQuery, Cache!cacheVars, Cache!loadVars

LEMMA SameQueryDone ==
  \A l, c, v : Pool!QueryDone(l, c, v) <=> Cache!QueryDone(l, c, v)
BY SameSizes, SameParts, SamePut, SameBatch, SameSettle
   DEF Pool!QueryDone, Pool!cacheVars, Cache!QueryDone, Cache!cacheVars

LEMMA SameReturn ==
  \A l, c, v : /\ Pool!StoreSummary(l, c, v) <=> Cache!StoreSummary(l, c, v)
               /\ Pool!PatchClient(l, c, v) <=> Cache!PatchClient(l, c, v)
BY SameParts, SamePut, SameSettle
   DEF Pool!StoreSummary, Pool!PatchClient, Pool!Return, Pool!Cached, Pool!PatchedAlerts,
       Cache!StoreSummary, Cache!PatchClient, Cache!Return, Cache!Cached,
       Cache!PatchedAlerts

LEMMA SameOutside ==
  /\ \A c : Pool!QueueChanges(c) <=> Cache!QueueChanges(c)
  /\ Pool!Shutdown <=> Cache!Shutdown
BY DEF Pool!QueueChanges, Pool!Shutdown, Pool!cacheVars, Pool!loadVars, Pool!poolVars,
       Cache!QueueChanges, Cache!Shutdown, Cache!cacheVars, Cache!loadVars,
       Cache!poolVars

LEMMA SameNext == Cache!Next => Pool!Next
BY SameParts, SameStart, SameConnector, SameQueryDone, SameReturn, SameOutside
   DEF Pool!Next, Pool!Progress, Cache!Next, Cache!Progress

\* A step of the sum is, for each component, a step of its own or none.
LEMMA PartsStep ==
  ASSUME [ServicesNext]_serviceVars
  PROVE  /\ [Pool!Next]_(Pool!vars)
         /\ [CountNext]_countVars
         /\ [ScanNext]_scanVars
<1>1. CASE BatchPart
  BY <1>1, SameNext DEF BatchPart
<1>2. CASE CountPart
  BY <1>2, SameVars DEF CountPart
<1>3. CASE FilePart
  BY <1>3, SameVars DEF FilePart
<1>4. CASE JobPart \/ CronPart \/ PagePart \/ BrowserPart \/ MonitorPart
           \/ UNCHANGED serviceVars
  BY <1>4, SameVars
     DEF JobPart, CronPart, PagePart, BrowserPart, MonitorPart, serviceVars
<1>5. QED
  BY <1>1, <1>2, <1>3, <1>4 DEF ServicesNext

\* No more work at a time than is meant to be, whatever the components do: connectors
\* of a refresh, fetches of punches, and scans of files.
THEOREM LimitsStand ==
  ASSUME IsFiniteSet(BatchClients)
  PROVE  ServicesSpec => []LimitsHold
<1>1. Pool!Spec => []Pool!PoolIsBounded
  BY PoolAssumes, SameSizes, Pool!PoolBounded
<1>2. ServicesInit => Pool!Init /\ FetchInv /\ LockInv
  BY SameInit, CountInitially, ScanInitially DEF ServicesInit
<1>3. FetchInv /\ [ServicesNext]_serviceVars => FetchInv'
  BY PartsStep, CountInvariance
<1>4. LockInv /\ [ServicesNext]_serviceVars => LockInv'
  BY PartsStep, ScanInvariance
<1>5. [ServicesNext]_serviceVars => [Pool!Next]_(Pool!vars)
  BY PartsStep
<1>6. Pool!PoolIsBounded /\ FetchInv /\ LockInv => LimitsHold
  BY SameBound, FetchHolds, LockExcludes DEF LimitsHold
<1>7. ServicesSpec => Pool!Spec /\ []FetchInv /\ []LockInv
  BY <1>2, <1>3, <1>4, <1>5, PTL DEF ServicesSpec, Pool!Spec
<1>8. QED
  BY <1>1, <1>6, <1>7, PTL
=============================================================================
