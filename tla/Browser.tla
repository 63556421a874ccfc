------------------------------- MODULE Browser -------------------------------
(***************************************************************************)
(* A browser with several tabs of the application and one cookie jar       *)
(* (frontend: context/AuthContext.tsx, services/api.ts, services/csrf.ts), *)
(* and what the server does with the cookie and the CSRF token of a request*)
(* (middleware/csrf.ts, utils/csrf-token.ts, authMiddleware).  How a       *)
(* session comes to be and ends on the server is Access; here it is alive  *)
(* or not.                                                                 *)
(*                                                                         *)
(* A session stands for the user it belongs to and for the CSRF token made *)
(* of its jti and version.  The notice "Session expired" is wording.       *)
(***************************************************************************)
EXTENDS Integers, FiniteSets

CONSTANTS
  Tabs,
  Sessions,    \* jti values that can be issued (bounds the run)
  InAir        \* requests under way at a time, polls aside (bounds the run)

None == "none"
ASSUME BrowserAssumption == None \notin Sessions /\ InAir \in Nat

VARIABLES
  cookie,   \* wfm_session in the jar that all tabs share
  alive,    \* sessions isSessionActive accepts
  issued,   \* sessions ever signed
  tab,      \* what a tab keeps: the user it shows and its csrfToken
  flight    \* its requests: at most one of a kind

browserVars == <<cookie, alive, issued, tab, flight>>

MaybeSession == Sessions \cup {None}
Kinds == {"entry", "logout", "poll", "write"}
TabRequests ==
  [op: {"idle", "start", "login", "me", "logout", "poll", "write"},
   jar: MaybeSession, csrf: MaybeSession, shown: MaybeSession,
   code: {0, 200, 401, 403}, session: MaybeSession]
NoRequest == [op |-> "idle", jar |-> None, csrf |-> None, shown |-> None, code |-> 0,
              session |-> None]
Blank == [shows |-> None, csrf |-> None]

Guarded == {"logout", "write"}

\* what the browser sends: the cookie of the jar and, with a method that csrfMiddleware
\* guards, the token of the tab; shown is what its user sees (auxiliary)
Request(t, op) ==
  [op |-> op, jar |-> cookie,
   csrf |-> IF op \in Guarded THEN tab[t].csrf ELSE None,
   shown |-> IF op = "write" THEN tab[t].shows ELSE None,
   code |-> 0, session |-> None]

BrowserInit ==
  /\ cookie = None /\ alive = {} /\ issued = {}
  /\ tab = [t \in Tabs |-> Blank]
  /\ flight = [t \in Tabs |-> [k \in Kinds |-> NoRequest]]

UnderWay == {f \in Tabs \X (Kinds \ {"poll"}) : flight[f[1]][f[2]] # NoRequest}

Send(t, k, op) ==
  /\ flight[t][k] = NoRequest
  /\ k # "poll" => Cardinality(UnderWay) < InAir
  /\ flight' = [flight EXCEPT ![t][k] = Request(t, op)]
  /\ UNCHANGED <<cookie, alive, issued, tab>>

----------------------------------------------------------------------------
(* What a tab does *)

\* a page is loaded: a new script, whose provider asks /me who is signed in
Load(t) ==
  /\ tab' = [tab EXCEPT ![t] = Blank]
  /\ flight' = [flight EXCEPT ![t] =
                  [[k \in Kinds |-> NoRequest] EXCEPT !["entry"] =
                     [NoRequest EXCEPT !.op = "start", !.jar = cookie]]]
  /\ UNCHANGED <<cookie, alive, issued>>

\* the login page, or the gate that tries single sign-on
Login(t) == tab[t].shows = None /\ Send(t, "entry", "login")
Logout(t) == tab[t].shows # None /\ Send(t, "logout", "logout")
\* queries that are repeated while a user is shown: the badge of the menu asks for alerts
Poll(t)   == tab[t].shows # None /\ Send(t, "poll", "poll")
Change(t) == tab[t].shows # None /\ Send(t, "write", "write")

----------------------------------------------------------------------------
(* What the server does with a request *)

\* mutant: a token signed for any session passes
SignedByUs(q) == q.jar = None \/ q.csrf # None

\* csrfMiddleware: without a cookie it is not its business; a token must be bound
\* to the session of the cookie
TokenFits(q) == q.jar = None \/ q.csrf = q.jar

Verdict(q) == IF q.op \in Guarded /\ ~ TokenFits(q) THEN 403
              ELSE IF q.jar \notin alive THEN 401 ELSE 200

\* session: the one the request was served for
Answer(t, k, code, session) ==
  LET q == flight[t][k] IN
  flight' = [flight EXCEPT ![t][k] =
               [op |-> q.op, jar |-> None, csrf |-> None, shown |-> q.shown,
                code |-> code, session |-> session]]

Waiting(t, k) == flight[t][k] # NoRequest /\ flight[t][k].code = 0

\* credentials are right: a session of its own (an older one stays alive), or not
ServeLogin(t) ==
  /\ Waiting(t, "entry") /\ flight[t]["entry"].op = "login"
  /\ \/ \E s \in Sessions \ issued :
          /\ issued' = issued \cup {s} /\ alive' = alive \cup {s}
          /\ Answer(t, "entry", 200, s)
     \/ UNCHANGED <<issued, alive>> /\ Answer(t, "entry", 403, None)
  /\ UNCHANGED <<cookie, tab>>

\* any other request; logout revokes the session of the cookie
Serve(t, k) ==
  LET q == flight[t][k]
      code == Verdict(q)
  IN /\ Waiting(t, k) /\ q.op # "login"
     /\ Answer(t, k, code, IF code = 200 THEN q.jar ELSE None)
     /\ alive' = IF q.op = "logout" /\ code = 200 THEN alive \ {q.jar} ELSE alive
     /\ UNCHANGED <<cookie, issued, tab>>

\* a session expires or an administrator revokes it
SessionEnds(s) ==
  /\ s \in alive
  /\ alive' = alive \ {s}
  /\ UNCHANGED <<cookie, issued, tab, flight>>

----------------------------------------------------------------------------
(* What a tab does with an answer: the interceptor of api.ts first *)

GotAnswer(t, k, op) == flight[t][k].op = op /\ flight[t][k].code # 0
Keep(t, shows, csrf) == tab' = [tab EXCEPT ![t] = [shows |-> shows, csrf |-> csrf]]
Drop(t, k) == flight' = [flight EXCEPT ![t][k] = NoRequest]

\* /me, when the page starts and after a login: the user and the token of the
\* cookie that was sent, or 401
Known(t) ==
  LET q == flight[t]["entry"] IN
  /\ GotAnswer(t, "entry", "start") \/ GotAnswer(t, "entry", "me")
  /\ Keep(t, q.session, q.session)
  /\ Drop(t, "entry")
  /\ UNCHANGED <<cookie, alive, issued>>

\* the login answer sets the cookie and the token; then /me
LoggedIn(t) ==
  LET q == flight[t]["entry"] IN
  /\ GotAnswer(t, "entry", "login")
  /\ IF q.code = 200
       THEN /\ cookie' = q.session
            /\ tab' = [tab EXCEPT ![t].csrf = q.session]
            /\ flight' = [flight EXCEPT ![t]["entry"] =
                            [Request(t, "me") EXCEPT !.jar = q.session]]
       ELSE Drop(t, "entry") /\ UNCHANGED <<cookie, tab>>
  /\ UNCHANGED <<alive, issued>>

\* logout clears the tab whatever the answer was, and the cookie if it was 200
LoggedOut(t) ==
  /\ GotAnswer(t, "logout", "logout")
  /\ cookie' = IF flight[t]["logout"].code = 200 THEN None ELSE cookie
  /\ Keep(t, None, None)
  /\ Drop(t, "logout")
  /\ UNCHANGED <<alive, issued>>

\* mutant: a 401 is an error of the query and nothing else
ErrorOnly(t, k) ==
  /\ k \in {"poll", "write"} /\ GotAnswer(t, k, k)
  /\ Drop(t, k)
  /\ UNCHANGED <<cookie, alive, issued, tab>>

\* any other answer: a 401 signs the tab out, also if it has signed in again since
Received(t, k) ==
  /\ k \in {"poll", "write"} /\ GotAnswer(t, k, k)
  /\ IF flight[t][k].code = 401 THEN Keep(t, None, None) ELSE UNCHANGED tab
  /\ Drop(t, k)
  /\ UNCHANGED <<cookie, alive, issued>>

\* no answer: the promise rejects; a poll that fails is one that was not sent
Lost(t, k) ==
  /\ k # "poll" /\ flight[t][k] # NoRequest
  /\ IF flight[t][k].op \in {"start", "logout"} THEN Keep(t, None, None)
                                                ELSE UNCHANGED tab
  /\ Drop(t, k)
  /\ UNCHANGED <<cookie, alive, issued>>

PollStep(t) == Poll(t) \/ Serve(t, "poll") \/ Received(t, "poll")

BrowserNext ==
  \/ \E t \in Tabs : \/ Load(t) \/ Login(t) \/ Logout(t) \/ Change(t) \/ PollStep(t)
                     \/ ServeLogin(t) \/ Known(t) \/ LoggedIn(t) \/ LoggedOut(t)
                     \/ Received(t, "write")
                     \/ \E k \in Kinds \ {"poll"} : Serve(t, k) \/ Lost(t, k)
  \/ \E s \in Sessions : SessionEnds(s)

BrowserFairness == \A t \in Tabs : WF_browserVars(PollStep(t))

BrowserSpec == BrowserInit /\ [][BrowserNext]_browserVars /\ BrowserFairness

----------------------------------------------------------------------------
(* Properties *)

BrowserTypeOK ==
  /\ cookie \in MaybeSession /\ alive \subseteq issued /\ issued \subseteq Sessions
  /\ tab \in [Tabs -> [shows: MaybeSession, csrf: MaybeSession]]
  /\ flight \in [Tabs -> [Kinds -> TabRequests]]

\* Tabs share one cookie, and a login in one of them changes the session under
\* the others.  Still, a write the server accepts ran as the user the tab showed
\* when it was sent: otherwise it is refused with 403.
WritesAsShown ==
  \A t \in Tabs : LET q == flight[t]["write"] IN q.code = 200 => q.session = q.shown

\* A session that has ended is noticed: a tab does not show its user for ever
\* (unless another tab signs in again).
EndIsNoticed ==
  \A t \in Tabs : (tab[t].shows # None /\ cookie \notin alive)
                     ~> (tab[t].shows = None \/ cookie \in alive)
=============================================================================
