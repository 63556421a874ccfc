------------------------------- MODULE Access -------------------------------
(***************************************************************************)
(* Who may call the API: accounts and their session tokens (routes/auth.ts,*)
(* services/token-revocation-service.ts, authMiddleware, the users part of *)
(* routes/admin.ts) and the queue of access requests that creates accounts *)
(* (services/access-request-service.ts).                                   *)
(*                                                                         *)
(* A call is a handler in flight: its pc is the query it waits for, and    *)
(* what it has read is in its locals.  The permissions inside a token and  *)
(* the names inside a request are data no property looks at.               *)
(***************************************************************************)
EXTENDS Integers, FiniteSets

CONSTANTS
  Accounts,      \* e-mail addresses: the key of User and of AccessRequest
  Tokens,        \* jti values that can be issued (bounds the run)
  Handlers,      \* calls that can be in flight at a time
  MaxTokenVersion     \* bound on User.tokenVersion

ASSUME AccessAssumption == MaxTokenVersion \in Nat

NoToken == "no token"
NoAccount == "no account"
ASSUME AccessNames == NoToken \notin Tokens /\ NoAccount \notin Accounts

VARIABLES
  account,     \* User row: exists, isActive, tokenVersion, has a profile
  request,     \* AccessRequest.status, "NONE" where there is no row
  token,       \* payload of the JWTs signed so far: owner and tv
  expired,     \* tokens past their exp
  denied,      \* RevokedToken rows
  handler      \* calls in flight

accessVars == <<account, request, token, expired, denied, handler>>

Ops == {"none", "login", "use", "logout", "refresh", "deactivate",
        "register", "resolve", "approve", "reject"}
Stages == {"free", "profiles", "version", "sign", "denylist", "check",
           "admitted", "write", "find", "apply"}
RequestStates == {"NONE", "PENDING", "APPROVED", "REJECTED"}

NoHandler == [op |-> "none", stage |-> "free", who |-> NoAccount, tok |-> NoToken,
              tv |-> 0, seen |-> "NONE", fresh |-> FALSE]

AccessInit ==
  /\ account = [u \in Accounts |-> [row |-> FALSE, active |-> FALSE, tv |-> 0,
                                    profile |-> FALSE]]
  /\ request = [u \in Accounts |-> "NONE"]
  /\ token = [t \in Tokens |-> [owner |-> NoAccount, tv |-> 0]]
  /\ expired = {} /\ denied = {}
  /\ handler = [h \in Handlers |-> NoHandler]

Issued(t) == token[t].owner # NoAccount

\* what authMiddleware accepts: JWT not expired, no denylist row, current version
LiveToken(t) == /\ Issued(t) /\ t \notin expired /\ t \notin denied
                /\ token[t].tv = account[token[t].owner].tv

At(h, op, stage) == handler[h].op = op /\ handler[h].stage = stage
Begin(h, new)    == handler[h] = NoHandler /\ handler' = [handler EXCEPT ![h] = new]
Await(h, stage)  == handler' = [handler EXCEPT ![h].stage = stage]
Reply(h)         == handler' = [handler EXCEPT ![h] = NoHandler]

NewAccount(has) == [row |-> TRUE, active |-> TRUE, tv |-> 0, profile |-> has]

UserCall(op, stage, u) == [NoHandler EXCEPT !.op = op, !.stage = stage, !.who = u]

----------------------------------------------------------------------------
(* Login: routes/auth.ts *)

\* LDAP by name or local: the row is read now, the profiles later
Login(h, u) ==
  /\ account[u].row /\ account[u].active
  /\ Begin(h, UserCall("login", "profiles", u))
  /\ UNCHANGED <<account, request, token, expired, denied>>

\* sso-login reads both in one query
SsoLogin(h, u) ==
  /\ account[u].row /\ account[u].active /\ account[u].profile
  /\ Begin(h, UserCall("login", "version", u))
  /\ UNCHANGED <<account, request, token, expired, denied>>

\* completeUserLogin: no profile, no session
CountProfiles(h) ==
  /\ At(h, "login", "profiles")
  /\ IF account[handler[h].who].profile THEN Await(h, "version") ELSE Reply(h)
  /\ UNCHANGED <<account, request, token, expired, denied>>

\* signToken, createSessionToken: the version is read, then the JWT is signed
ReadVersion(h) ==
  /\ handler[h].stage = "version"
  /\ handler' = [handler EXCEPT ![h] =
                   [@ EXCEPT !.stage = "sign", !.tv = account[handler[h].who].tv]]
  /\ UNCHANGED <<account, request, token, expired, denied>>

Sign(h, t) ==
  /\ handler[h].stage = "sign" /\ ~ Issued(t)
  /\ token' = [token EXCEPT ![t] = [owner |-> handler[h].who, tv |-> handler[h].tv]]
  /\ Reply(h)
  /\ UNCHANGED <<account, request, expired, denied>>

----------------------------------------------------------------------------
(* A request with a token: authMiddleware and isSessionActive *)

\* verifyJwtToken refuses an expired JWT; fresh remembers whether the token
\* was live when the request came in
Present(h, op, t) ==
  /\ Issued(t) /\ t \notin expired
  /\ Begin(h, [UserCall(op, "denylist", token[t].owner) EXCEPT
                 !.tok = t, !.tv = token[t].tv, !.fresh = LiveToken(t)])
  /\ UNCHANGED <<account, request, token, expired, denied>>

\* mutant: the denylist is not consulted
SkipDenylist(h) ==
  /\ handler[h].stage = "denylist"
  /\ Await(h, "check")
  /\ UNCHANGED <<account, request, token, expired, denied>>

CheckDenylist(h) ==
  /\ handler[h].stage = "denylist"
  /\ IF handler[h].tok \in denied THEN Reply(h) ELSE Await(h, "check")
  /\ UNCHANGED <<account, request, token, expired, denied>>

CheckVersion(h) ==
  /\ handler[h].stage = "check"
  /\ IF handler[h].tv = account[handler[h].who].tv
       THEN Await(h, "admitted") ELSE Reply(h)
  /\ UNCHANGED <<account, request, token, expired, denied>>

\* any other route behind authMiddleware
Serve(h) ==
  /\ At(h, "use", "admitted")
  /\ Reply(h)
  /\ UNCHANGED <<account, request, token, expired, denied>>

\* logout
RevokeOwn(h) ==
  /\ At(h, "logout", "admitted")
  /\ denied' = denied \cup {handler[h].tok}
  /\ Reply(h)
  /\ UNCHANGED <<account, request, token, expired>>

\* refresh-permissions revokes the prior token first, then signs a new one as a
\* login does (without asking for isActive or a profile again)
RevokePrior(h) ==
  /\ At(h, "refresh", "admitted")
  /\ denied' = denied \cup {handler[h].tok}
  /\ handler' = [handler EXCEPT ![h] = UserCall("login", "version", @.who)]
  /\ UNCHANGED <<account, request, token, expired>>

Expire(t) ==
  /\ Issued(t) /\ t \notin expired
  /\ expired' = expired \cup {t}
  /\ UNCHANGED <<account, request, token, denied, handler>>

----------------------------------------------------------------------------
(* Administration of an account: routes/admin.ts *)

\* revokeAllUserTokens, an atomic increment: revoke-sessions, a password change,
\* and the first half of a deactivation
RevokeAll(h, u, op) ==
  /\ account[u].row /\ account[u].tv < MaxTokenVersion
  /\ account' = [account EXCEPT ![u].tv = @ + 1]
  /\ IF op = "deactivate" THEN Begin(h, UserCall(op, "write", u))
                          ELSE handler[h] = NoHandler /\ UNCHANGED handler
  /\ UNCHANGED <<request, token, expired, denied>>

Deactivate(h) ==
  /\ At(h, "deactivate", "write")
  /\ account' = [account EXCEPT ![handler[h].who].active = FALSE]
  /\ Reply(h)
  /\ UNCHANGED <<request, token, expired, denied>>

Reactivate(u) ==
  /\ account[u].row /\ ~ account[u].active
  /\ account' = [account EXCEPT ![u].active = TRUE]
  /\ UNCHANGED <<request, token, expired, denied, handler>>

\* assign or remove a profile
SetProfile(u, has) ==
  /\ account[u].row /\ account[u].profile # has
  /\ account' = [account EXCEPT ![u].profile = has]
  /\ UNCHANGED <<request, token, expired, denied, handler>>

----------------------------------------------------------------------------
(* How accounts come to be: register, resolveAccessRequestStatus, approve, *)
(* reject                                                                  *)

\* findFirst finds nobody, bcrypt runs, the row is created; the unique index
\* turns a second creation into an error
Register(h, u) ==
  /\ ~ account[u].row
  /\ Begin(h, UserCall("register", "write", u))
  /\ UNCHANGED <<account, request, token, expired, denied>>

CreateRegistered(h) ==
  /\ At(h, "register", "write")
  /\ account' = IF account[handler[h].who].row THEN account
                ELSE [account EXCEPT ![handler[h].who] = NewAccount(FALSE)]
  /\ Reply(h)
  /\ UNCHANGED <<request, token, expired, denied>>

\* a directory or SSO user without an account
Resolve(h, u) ==
  /\ ~ account[u].row
  /\ Begin(h, UserCall("resolve", "find", u))
  /\ UNCHANGED <<account, request, token, expired, denied>>

FindRequest(h) ==
  /\ At(h, "resolve", "find")
  /\ handler' = [handler EXCEPT ![h] =
                   [@ EXCEPT !.stage = "apply", !.seen = request[handler[h].who]]]
  /\ UNCHANGED <<account, request, token, expired, denied>>

\* create (unique per e-mail), re-open what was rejected when it was read, or
\* update the names only
FileRequest(h) ==
  LET u == handler[h].who IN
  /\ At(h, "resolve", "apply")
  /\ request' = IF \/ handler[h].seen = "REJECTED"
                   \/ handler[h].seen = "NONE" /\ request[u] = "NONE"
                THEN [request EXCEPT ![u] = "PENDING"] ELSE request
  /\ Reply(h)
  /\ UNCHANGED <<account, token, expired, denied>>

\* approve and reject read the row and want it PENDING
Review(h, op, u) ==
  /\ request[u] = "PENDING"
  /\ Begin(h, UserCall(op, IF op = "approve" THEN "find" ELSE "write", u))
  /\ UNCHANGED <<account, request, token, expired, denied>>

\* mutant: the request is marked before the account exists
MarkFirst(h) ==
  /\ At(h, "approve", "find")
  /\ IF account[handler[h].who].row THEN Reply(h) /\ UNCHANGED request
     ELSE /\ Await(h, "write")
          /\ request' = [request EXCEPT ![handler[h].who] = "APPROVED"]
  /\ UNCHANGED <<account, token, expired, denied>>

\* approveAccessRequest looks for an account of that e-mail
CheckAccount(h) ==
  /\ At(h, "approve", "find")
  /\ IF account[handler[h].who].row THEN Reply(h) ELSE Await(h, "write")
  /\ UNCHANGED <<account, request, token, expired, denied>>

\* its transaction: account, profile and APPROVED together, or nothing
Approve(h) ==
  LET u == handler[h].who IN
  /\ At(h, "approve", "write")
  /\ IF account[u].row THEN UNCHANGED <<account, request>>
     ELSE /\ account' = [account EXCEPT ![u] = NewAccount(TRUE)]
          /\ request' = [request EXCEPT ![u] = "APPROVED"]
  /\ Reply(h)
  /\ UNCHANGED <<token, expired, denied>>

Reject(h) ==
  /\ At(h, "reject", "write")
  /\ request' = [request EXCEPT ![handler[h].who] = "REJECTED"]
  /\ Reply(h)
  /\ UNCHANGED <<account, token, expired, denied>>

----------------------------------------------------------------------------
\* a query throws (500): what was written stays
HandlerFails(h) ==
  /\ handler[h] # NoHandler
  /\ Reply(h)
  /\ UNCHANGED <<account, request, token, expired, denied>>

\* mutant: rows of tokens that have not expired are purged too
RestartEmpty ==
  /\ handler' = [h \in Handlers |-> NoHandler]
  /\ denied' = {}
  /\ UNCHANGED <<account, request, token, expired>>

\* the process dies; bootstrap calls purgeExpired before it serves requests
Restart ==
  /\ handler' = [h \in Handlers |-> NoHandler]
  /\ denied' = denied \ expired
  /\ UNCHANGED <<account, request, token, expired>>

LoginStep(h) ==
  \/ \E u \in Accounts : Login(h, u) \/ SsoLogin(h, u)
  \/ CountProfiles(h) \/ ReadVersion(h) \/ \E t \in Tokens : Sign(h, t)

SessionStep(h) ==
  \/ \E op \in {"use", "logout", "refresh"}, t \in Tokens : Present(h, op, t)
  \/ CheckDenylist(h) \/ CheckVersion(h)
  \/ Serve(h) \/ RevokeOwn(h) \/ RevokePrior(h)

AdminStep(h) ==
  \/ \E u \in Accounts, op \in {"use", "deactivate"} : RevokeAll(h, u, op)
  \/ Deactivate(h)

RequestStep(h) ==
  \/ \E u \in Accounts : Register(h, u) \/ Resolve(h, u)
  \/ \E u \in Accounts, op \in {"approve", "reject"} : Review(h, op, u)
  \/ CreateRegistered(h) \/ FindRequest(h) \/ FileRequest(h)
  \/ CheckAccount(h) \/ Approve(h) \/ Reject(h)

AccessNext ==
  \/ \E h \in Handlers : \/ LoginStep(h) \/ SessionStep(h) \/ AdminStep(h)
                         \/ RequestStep(h) \/ HandlerFails(h)
  \/ \E u \in Accounts : Reactivate(u) \/ \E has \in BOOLEAN : SetProfile(u, has)
  \/ \E t \in Tokens : Expire(t)
  \/ Restart

AccessSpec == AccessInit /\ [][AccessNext]_accessVars

----------------------------------------------------------------------------
(* Properties *)

AccessTypeOK ==
  /\ account \in [Accounts -> [row: BOOLEAN, active: BOOLEAN, tv: 0..MaxTokenVersion,
                               profile: BOOLEAN]]
  /\ request \in [Accounts -> RequestStates]
  /\ token \in [Tokens -> [owner: Accounts \cup {NoAccount}, tv: 0..MaxTokenVersion]]
  /\ expired \subseteq Tokens /\ denied \subseteq Tokens
  /\ handler \in [Handlers -> [op: Ops, stage: Stages, who: Accounts \cup {NoAccount},
                               tok: Tokens \cup {NoToken}, tv: 0..MaxTokenVersion,
                               seen: RequestStates, fresh: BOOLEAN]]

\* Revocation is for good: whatever logins, refreshes, revocations and purges
\* overlap, a token that isSessionActive would refuse is never live again.
Standing ==
  [t \in Tokens |-> IF ~ Issued(t) THEN "unissued"
                    ELSE IF LiveToken(t) THEN "live" ELSE "dead"]
Session == INSTANCE SessionLifecycle WITH standing <- Standing
RevocationIsFinal == Session!LifeSpec

\* isSessionActive reads the denylist and the version in two queries; still, a
\* token that was dead when its request came in is never let through.
AdmittedWasLive ==
  \A h \in Handlers : handler[h].stage = "admitted" => handler[h].fresh

\* An approved request always has its account, even when approvals, rejections,
\* registrations and re-opened requests of one e-mail overlap and some fail.
ApprovedHasAccount ==
  \A u \in Accounts : request[u] = "APPROVED" => account[u].row
=============================================================================
