---------------------------- MODULE Access_proofs ----------------------------
(***************************************************************************)
(* Theorems about accounts, tokens and access requests (Access), and about *)
(* the rotation of the key the stored passwords are sealed with            *)
(* (SecretKeys), for any number of accounts, tokens, calls, clients, keys. *)
(***************************************************************************)
EXTENDS Access, SecretKeys, TLAPS

AccountRows == [row : BOOLEAN, active : BOOLEAN, tv : 0..MaxTokenVersion, profile : BOOLEAN]
TokenRows == [owner : Accounts \cup {NoAccount}, tv : 0..MaxTokenVersion]
HandlerRows == [op : Ops, stage : Stages, who : Accounts \cup {NoAccount},
                tok : Tokens \cup {NoToken}, tv : 0..MaxTokenVersion,
                seen : RequestStates, fresh : BOOLEAN]

----------------------------------------------------------------------------
(* What the steps of a call write into its locals *)

LEMMA FreeHandler ==
  /\ NoHandler \in HandlerRows
  /\ NoHandler.stage = "free" /\ NoHandler.who = NoAccount /\ NoHandler.tok = NoToken
  /\ NoHandler.tv = 0 /\ NoHandler.fresh = FALSE
BY AccessAssumption DEF NoHandler, HandlerRows, Ops, Stages, RequestStates

LEMMA CallIs ==
  ASSUME NEW op \in Ops, NEW st \in Stages, NEW u \in Accounts
  PROVE  /\ UserCall(op, st, u) \in HandlerRows
         /\ UserCall(op, st, u).stage = st /\ UserCall(op, st, u).who = u
         /\ UserCall(op, st, u).tv = 0
<1> HIDE DEF NoHandler
<1>1. QED
  BY FreeHandler DEF UserCall, HandlerRows

\* An await changes the stage and nothing else.
LEMMA AwaitIs ==
  ASSUME handler \in [Handlers -> HandlerRows], NEW h \in Handlers, NEW st \in Stages,
         Await(h, st)
  PROVE  /\ handler' \in [Handlers -> HandlerRows]
         /\ handler'[h].stage = st /\ handler'[h].who = handler[h].who
         /\ handler'[h].tok = handler[h].tok /\ handler'[h].tv = handler[h].tv
         /\ handler'[h].fresh = handler[h].fresh /\ handler'[h].op = handler[h].op
         /\ \A k \in Handlers : k # h => handler'[k] = handler[k]
BY DEF Await, HandlerRows

LEMMA ReplyIs ==
  ASSUME handler \in [Handlers -> HandlerRows], NEW h \in Handlers, Reply(h)
  PROVE  /\ handler' \in [Handlers -> HandlerRows]
         /\ handler'[h] = NoHandler
         /\ \A k \in Handlers : k # h => handler'[k] = handler[k]
BY FreeHandler DEF Reply

LEMMA BeginIs ==
  ASSUME handler \in [Handlers -> HandlerRows], NEW h \in Handlers, NEW new \in HandlerRows,
         Begin(h, new)
  PROVE  /\ handler' \in [Handlers -> HandlerRows]
         /\ handler'[h] = new
         /\ \A k \in Handlers : k # h => handler'[k] = handler[k]
BY DEF Begin

----------------------------------------------------------------------------
(* Types *)

LEMMA TypesAre ==
  AccessTypeOK <=> /\ account \in [Accounts -> AccountRows]
                   /\ request \in [Accounts -> RequestStates]
                   /\ token \in [Tokens -> TokenRows]
                   /\ expired \subseteq Tokens /\ denied \subseteq Tokens
                   /\ handler \in [Handlers -> HandlerRows]
BY DEF AccessTypeOK, AccountRows, TokenRows, HandlerRows

\* A new call about an account is typed, and what it writes is what it says.
LEMMA BeginCallIs ==
  ASSUME handler \in [Handlers -> HandlerRows], NEW h \in Handlers,
         NEW op \in Ops, NEW st \in Stages, NEW u \in Accounts, Begin(h, UserCall(op, st, u))
  PROVE  /\ handler' \in [Handlers -> HandlerRows]
         /\ handler'[h].stage = st /\ handler'[h].who = u /\ handler'[h].tv = 0
         /\ \A k \in Handlers : k # h => handler'[k] = handler[k]
<1>1. /\ UserCall(op, st, u) \in HandlerRows
      /\ UserCall(op, st, u).stage = st /\ UserCall(op, st, u).who = u
      /\ UserCall(op, st, u).tv = 0
  BY CallIs
<1>2. QED
  BY <1>1, BeginIs

LEMMA PresentWrites ==
  ASSUME AccessTypeOK, NEW h \in Handlers, NEW op \in {"use", "logout", "refresh"},
         NEW t \in Tokens, Present(h, op, t)
  PROVE  /\ handler' \in [Handlers -> HandlerRows]
         /\ handler'[h].stage = "denylist" /\ handler'[h].who = token[t].owner
         /\ token[t].owner \in Accounts
         /\ handler'[h].tok = t /\ handler'[h].tv = token[t].tv
         /\ handler'[h].fresh = LiveToken(t)
         /\ \A k \in Handlers : k # h => handler'[k] = handler[k]
<1>1. token[t].owner \in Accounts /\ token[t].tv \in 0..MaxTokenVersion
  BY TypesAre DEF Present, Issued, TokenRows
<1>2. PICK c \in HandlerRows : /\ c = UserCall(op, "denylist", token[t].owner)
                               /\ c.stage = "denylist" /\ c.who = token[t].owner
  BY <1>1, CallIs DEF Ops, Stages
<1>3. PICK live \in BOOLEAN : live = LiveToken(t)
  BY DEF LiveToken
<1>4. PICK d : d = [c EXCEPT !.tok = t, !.tv = token[t].tv, !.fresh = live]
  OBVIOUS
<1>5. Begin(h, d)
  <2>1. Begin(h, [UserCall(op, "denylist", token[t].owner) EXCEPT
                    !.tok = t, !.tv = token[t].tv, !.fresh = LiveToken(t)])
    BY DEF Present
  <2>2. QED
    BY <1>2, <1>3, <1>4, <2>1, Zenon
<1>6. /\ d \in HandlerRows /\ d.stage = "denylist" /\ d.who = token[t].owner
      /\ d.tok = t /\ d.tv = token[t].tv /\ d.fresh = live
  BY <1>1, <1>2, <1>4 DEF HandlerRows
<1>7. QED
  BY <1>1, <1>3, <1>5, <1>6, BeginIs, TypesAre

----------------------------------------------------------------------------
(* What happens to the rows *)

LEMMA NewAccountIs ==
  ASSUME NEW has \in BOOLEAN
  PROVE  /\ NewAccount(has) \in AccountRows
         /\ NewAccount(has).row /\ NewAccount(has).tv = 0
BY AccessAssumption DEF NewAccount, AccountRows

\* Accounts are never removed, and their version only goes up.
Grown ==
  \A u \in Accounts : account[u].row => account'[u].row /\ account[u].tv <= account'[u].tv

\* Writing a flag of a row, or of none, is a step of that kind.
LEMMA WrittenKeeps ==
  ASSUME account \in [Accounts -> AccountRows], NEW u, NEW flag \in BOOLEAN,
         \/ account' = [account EXCEPT ![u].active = flag]
         \/ account' = [account EXCEPT ![u].profile = flag]
  PROVE  account' \in [Accounts -> AccountRows] /\ Grown
<1>0. DOMAIN account = Accounts
  OBVIOUS
<1>1. ASSUME NEW v \in Accounts, NEW r \in AccountRows,
             NEW s, s = [r EXCEPT !.active = flag] \/ s = [r EXCEPT !.profile = flag]
      PROVE  s \in AccountRows /\ s.row = r.row /\ s.tv = r.tv
  BY <1>1 DEF AccountRows
<1>2. ASSUME NEW v \in Accounts
      PROVE  \/ account'[v] = account[v]
             \/ account'[v] = [account[v] EXCEPT !.active = flag]
             \/ account'[v] = [account[v] EXCEPT !.profile = flag]
  BY <1>0
<1>3. ASSUME NEW v \in Accounts
      PROVE  /\ account'[v] \in AccountRows
             /\ account'[v].row = account[v].row /\ account'[v].tv = account[v].tv
  <2>1. account[v] \in AccountRows
    OBVIOUS
  <2>2. QED
    BY <1>1, <1>2, <2>1
<1>4. account' = [v \in Accounts |-> account'[v]]
  BY <1>0
<1>5. account' \in [Accounts -> AccountRows]
  BY <1>3, <1>4
<1>6. Grown
  BY <1>3, AccessAssumption DEF Grown, AccountRows
<1>7. QED
  BY <1>5, <1>6

LEMMA AccountStep ==
  ASSUME AccessTypeOK, [AccessNext]_accessVars
  PROVE  account' \in [Accounts -> AccountRows] /\ Grown
<1> account \in [Accounts -> AccountRows]
  BY TypesAre
<1>1. ASSUME UNCHANGED account PROVE account' \in [Accounts -> AccountRows] /\ Grown
  BY <1>1, AccessAssumption DEF Grown, AccountRows
<1>2. ASSUME NEW h \in Handlers, NEW u \in Accounts, NEW op, RevokeAll(h, u, op)
      PROVE  account' \in [Accounts -> AccountRows] /\ Grown
  BY <1>2, AccessAssumption DEF RevokeAll, Grown, AccountRows
<1>3. ASSUME NEW h \in Handlers, Deactivate(h)
      PROVE  account' \in [Accounts -> AccountRows] /\ Grown
  <2>1. account' = [account EXCEPT ![handler[h].who].active = FALSE]
    BY <1>3 DEF Deactivate
  <2>2. QED
    BY <2>1, WrittenKeeps
<1>4. ASSUME NEW u \in Accounts, Reactivate(u)
      PROVE  account' \in [Accounts -> AccountRows] /\ Grown
  <2>1. account' = [account EXCEPT ![u].active = TRUE]
    BY <1>4 DEF Reactivate
  <2>2. QED
    BY <2>1, WrittenKeeps
<1>41. ASSUME NEW u \in Accounts, NEW has \in BOOLEAN, SetProfile(u, has)
       PROVE  account' \in [Accounts -> AccountRows] /\ Grown
  <2>1. account' = [account EXCEPT ![u].profile = has]
    BY <1>41 DEF SetProfile
  <2>2. QED
    BY <2>1, WrittenKeeps
<1>5. ASSUME NEW h \in Handlers, CreateRegistered(h) \/ Approve(h)
      PROVE  account' \in [Accounts -> AccountRows] /\ Grown
  <2>1. PICK has \in BOOLEAN :
          \/ account' = account
          \/ /\ ~ account[handler[h].who].row
             /\ account' = [account EXCEPT ![handler[h].who] = NewAccount(has)]
    BY <1>5 DEF CreateRegistered, Approve
  <2>2. QED
    BY <1>1, <2>1, NewAccountIs, AccessAssumption DEF Grown, AccountRows
<1>6. CASE \E h \in Handlers : LoginStep(h) \/ SessionStep(h) \/ HandlerFails(h)
  <2>1. UNCHANGED account
    BY <1>6 DEF LoginStep, Login, SsoLogin, CountProfiles, ReadVersion, Sign, SessionStep,
                Present, CheckDenylist, CheckVersion, Serve, RevokeOwn, RevokePrior, HandlerFails
  <2>2. QED
    BY <1>1, <2>1
<1>7. ASSUME NEW h \in Handlers, RequestStep(h), ~ CreateRegistered(h), ~ Approve(h)
      PROVE  UNCHANGED account
  BY <1>7 DEF RequestStep, Register, Resolve, Review, FindRequest, FileRequest, CheckAccount, Reject
<1>8. CASE (\E t \in Tokens : Expire(t)) \/ Restart \/ UNCHANGED accessVars
  BY <1>1, <1>8 DEF Expire, Restart, accessVars
<1>9. QED
  BY <1>1, <1>2, <1>3, <1>4, <1>41, <1>5, <1>6, <1>7, <1>8 DEF AccessNext, AdminStep

\* A token is issued once, and denied as long as it has not expired.
TokensKept ==
  /\ \A t \in Tokens : Issued(t) => token'[t] = token[t]
  /\ expired \subseteq expired' /\ denied \subseteq denied' \cup expired'

LEMMA TokenStep ==
  ASSUME AccessTypeOK, [AccessNext]_accessVars
  PROVE  TokensKept
<1> USE DEF TokensKept
<1> token \in [Tokens -> TokenRows] /\ expired \subseteq Tokens /\ denied \subseteq Tokens
  BY TypesAre
<1>1. ASSUME UNCHANGED token, expired \subseteq expired', denied \subseteq denied' \cup expired'
      PROVE  TokensKept
  BY <1>1
<1>2. ASSUME NEW h \in Handlers, NEW t \in Tokens, Sign(h, t) PROVE TokensKept
  BY <1>2 DEF Sign
<1>3. ASSUME NEW h \in Handlers, LoginStep(h), \A t \in Tokens : ~ Sign(h, t) PROVE TokensKept
  BY <1>3 DEF LoginStep, Login, SsoLogin, CountProfiles, ReadVersion
<1>4. ASSUME NEW h \in Handlers, SessionStep(h) \/ HandlerFails(h) PROVE TokensKept
  BY <1>4 DEF SessionStep, Present, CheckDenylist, CheckVersion, Serve, RevokeOwn, RevokePrior,
              HandlerFails
<1>5. ASSUME NEW h \in Handlers, AdminStep(h) PROVE TokensKept
  BY <1>5 DEF AdminStep, RevokeAll, Deactivate
<1>6. ASSUME NEW h \in Handlers, RequestStep(h) PROVE TokensKept
  BY <1>6 DEF RequestStep, Register, Resolve, Review, CreateRegistered, FindRequest, FileRequest,
              CheckAccount, Approve, Reject
<1>7. CASE \E u \in Accounts : Reactivate(u) \/ \E has \in BOOLEAN : SetProfile(u, has)
  BY <1>7 DEF Reactivate, SetProfile
<1>8. CASE (\E t \in Tokens : Expire(t)) \/ Restart \/ UNCHANGED accessVars
  BY <1>8 DEF Expire, Restart, accessVars
<1>9. QED
  BY <1>2, <1>3, <1>4, <1>5, <1>6, <1>7, <1>8 DEF AccessNext

----------------------------------------------------------------------------
(* The calls in flight *)

\* Calls that log in or have come with a token, and those that hold it.
WithAccount == {"profiles", "version", "sign", "denylist", "check", "admitted"}
WithToken == {"denylist", "check", "admitted"}

\* The version a call holds is not ahead of its account's, and a call whose
\* token was refused when it came in cannot pass both queries.
CallInv(h) ==
  /\ handler[h].stage # "free" => handler[h].who \in Accounts
  /\ handler[h].stage \in WithAccount => /\ account[handler[h].who].row
                                         /\ handler[h].tv <= account[handler[h].who].tv
  /\ handler[h].stage \in WithToken => handler[h].tok \in Tokens
  /\ handler[h].stage = "denylist" => \/ handler[h].fresh \/ handler[h].tok \in denied
                                      \/ handler[h].tv < account[handler[h].who].tv
  /\ handler[h].stage = "check" => \/ handler[h].fresh
                                   \/ handler[h].tv < account[handler[h].who].tv
  /\ handler[h].stage = "admitted" => handler[h].fresh

TokenInv ==
  \A t \in Tokens : Issued(t) => /\ account[token[t].owner].row
                                 /\ token[t].tv <= account[token[t].owner].tv

AccessInv == AccessTypeOK /\ (\A h \in Handlers : CallInv(h)) /\ TokenInv /\ ApprovedHasAccount

\* A call that does not move keeps its invariant when rows only grow and no
\* denylist row goes away.
LEMMA CallKept ==
  ASSUME AccessTypeOK, account' \in [Accounts -> AccountRows], NEW h \in Handlers,
         CallInv(h), Grown, handler'[h] = handler[h], denied \subseteq denied'
  PROVE  CallInv(h)'
<1>1. account \in [Accounts -> AccountRows] /\ handler[h] \in HandlerRows
  BY TypesAre
<1>2. CASE handler[h].stage \notin WithAccount
  BY <1>2 DEF CallInv, WithAccount, WithToken
<1>3. CASE handler[h].stage \in WithAccount
  <2>1. /\ handler[h].who \in Accounts /\ account[handler[h].who].row
        /\ handler[h].tv <= account[handler[h].who].tv
    BY <1>3 DEF CallInv, WithAccount
  <2>2. /\ account'[handler[h].who].row
        /\ account[handler[h].who].tv <= account'[handler[h].who].tv
    BY <2>1 DEF Grown
  <2>3. /\ handler[h].tv \in Int /\ account[handler[h].who].tv \in Int
        /\ account'[handler[h].who].tv \in Int
    BY <1>1, <2>1, AccessAssumption DEF HandlerRows, AccountRows
  <2>4. /\ handler[h].tv <= account'[handler[h].who].tv
        /\ handler[h].tv < account[handler[h].who].tv =>
             handler[h].tv < account'[handler[h].who].tv
    BY <2>1, <2>2, <2>3
  <2>5. QED
    BY <2>1, <2>2, <2>4 DEF CallInv
<1>4. QED
  BY <1>2, <1>3

\* What a step of call h has to show: what it leaves behind is a typed call
\* that fits, and nobody else moved.
Moved(h) == /\ handler' \in [Handlers -> HandlerRows]
            /\ \A k \in Handlers : k # h => handler'[k] = handler[k]
            /\ CallInv(h)'

LEMMA ReplyMoves ==
  ASSUME AccessTypeOK, NEW h \in Handlers, Reply(h)
  PROVE  Moved(h)
<1>1. handler \in [Handlers -> HandlerRows]
  BY TypesAre
<1>2. handler'[h].stage = "free"
  BY <1>1, ReplyIs, FreeHandler
<1>3. CallInv(h)'
  BY <1>2 DEF CallInv, WithAccount, WithToken
<1>4. QED
  BY <1>1, <1>3, ReplyIs DEF Moved

LEMMA AwaitMoves ==
  ASSUME AccessTypeOK, NEW h \in Handlers, CallInv(h), handler[h].stage # "free",
         NEW st \in Stages \ WithAccount, Await(h, st)
  PROVE  Moved(h)
<1>1. handler \in [Handlers -> HandlerRows]
  BY TypesAre
<1>2. /\ handler' \in [Handlers -> HandlerRows]
      /\ handler'[h].stage = st /\ handler'[h].who = handler[h].who
      /\ \A k \in Handlers : k # h => handler'[k] = handler[k]
  BY <1>1, AwaitIs
<1>3. CallInv(h)'
  BY <1>2 DEF CallInv, WithAccount, WithToken
<1>4. QED
  BY <1>2, <1>3 DEF Moved

LEMMA BeginMoves ==
  ASSUME AccessTypeOK, NEW h \in Handlers, NEW op \in Ops, NEW u \in Accounts,
         NEW st \in Stages, Begin(h, UserCall(op, st, u)),
         \/ st \notin WithAccount
         \/ st \in {"profiles", "version"} /\ account[u].row /\ UNCHANGED account
  PROVE  Moved(h)
<1>1. handler \in [Handlers -> HandlerRows] /\ account \in [Accounts -> AccountRows]
  BY TypesAre
<1>2. /\ handler' \in [Handlers -> HandlerRows]
      /\ handler'[h].stage = st /\ handler'[h].who = u /\ handler'[h].tv = 0
      /\ \A k \in Handlers : k # h => handler'[k] = handler[k]
  BY <1>1, BeginCallIs
<1>3. 0 <= account[u].tv
  BY <1>1, AccessAssumption DEF AccountRows
<1>4. CallInv(h)'
  BY <1>2, <1>3 DEF CallInv, WithAccount, WithToken
<1>5. QED
  BY <1>2, <1>4 DEF Moved

\* Login, up to the signature.
LEMMA LoginMoves ==
  ASSUME AccessTypeOK, NEW h \in Handlers, CallInv(h), LoginStep(h)
  PROVE  Moved(h)
<1>1. handler \in [Handlers -> HandlerRows] /\ account \in [Accounts -> AccountRows]
  BY TypesAre
<1>2. ASSUME NEW u \in Accounts, Login(h, u) \/ SsoLogin(h, u) PROVE Moved(h)
  BY <1>2, BeginMoves DEF Login, SsoLogin, Ops, Stages
<1>3. CASE CountProfiles(h)
  <2>1. CASE Reply(h)
    BY <2>1, ReplyMoves
  <2>2. CASE Await(h, "version")
    <3>1. handler[h].stage = "profiles" /\ UNCHANGED account
      BY <1>3 DEF CountProfiles, At
    <3>2. /\ handler' \in [Handlers -> HandlerRows]
          /\ handler'[h].stage = "version" /\ handler'[h].who = handler[h].who
          /\ handler'[h].tv = handler[h].tv
          /\ \A k \in Handlers : k # h => handler'[k] = handler[k]
      BY <1>1, <2>2, AwaitIs DEF Stages
    <3>3. CallInv(h)'
      BY <3>1, <3>2 DEF CallInv, WithAccount, WithToken
    <3>4. QED
      BY <3>2, <3>3 DEF Moved
  <2>3. QED
    BY <1>3, <2>1, <2>2 DEF CountProfiles
<1>4. CASE ReadVersion(h)
  <2>1. handler[h].who \in Accounts /\ account[handler[h].who].row
    BY <1>4 DEF ReadVersion, CallInv, WithAccount
  <2>2. PICK v \in 0..MaxTokenVersion : v = account[handler[h].who].tv
    BY <1>1, <2>1 DEF AccountRows
  <2>0. PICK c : c = [handler[h] EXCEPT !.stage = "sign", !.tv = v]
    OBVIOUS
  <2>3. c \in HandlerRows /\ c.stage = "sign" /\ c.who = handler[h].who /\ c.tv = v
    BY <1>1, <2>0 DEF HandlerRows, Stages
  <2>4. handler' = [handler EXCEPT ![h] = c]
    <3>1. handler' = [handler EXCEPT ![h] =
                        [handler[h] EXCEPT !.stage = "sign", !.tv = account[handler[h].who].tv]]
      BY <1>4 DEF ReadVersion
    <3>2. QED
      BY <2>0, <2>2, <3>1, Zenon
  <2>5. handler' \in [Handlers -> HandlerRows] /\ handler'[h] = c
    BY <1>1, <2>3, <2>4
  <2>6. account' = account /\ v <= account[handler[h].who].tv
    BY <1>4, <2>2, AccessAssumption DEF ReadVersion
  <2>7. CallInv(h)'
    BY <2>1, <2>3, <2>5, <2>6 DEF CallInv, WithAccount, WithToken
  <2>8. QED
    BY <1>1, <2>4, <2>5, <2>7 DEF Moved
<1>5. CASE \E t \in Tokens : Sign(h, t)
  BY <1>5, ReplyMoves DEF Sign
<1>6. QED
  BY <1>2, <1>3, <1>4, <1>5 DEF LoginStep

\* A request with a token, through authMiddleware and the handlers behind it.
LEMMA PresentMoves ==
  ASSUME AccessTypeOK, TokenInv, NEW h \in Handlers,
         NEW op \in {"use", "logout", "refresh"}, NEW t \in Tokens, Present(h, op, t)
  PROVE  Moved(h)
<1>1. /\ handler' \in [Handlers -> HandlerRows]
      /\ handler'[h].stage = "denylist" /\ handler'[h].who = token[t].owner
      /\ token[t].owner \in Accounts
      /\ handler'[h].tok = t /\ handler'[h].tv = token[t].tv
      /\ handler'[h].fresh = LiveToken(t)
      /\ \A k \in Handlers : k # h => handler'[k] = handler[k]
  BY PresentWrites
<1>2. /\ UNCHANGED <<account, token, denied>>
      /\ Issued(t) /\ t \notin expired
  BY DEF Present
<1>3. account[token[t].owner].row /\ token[t].tv <= account[token[t].owner].tv
  BY <1>2 DEF TokenInv
<1>4. token[t].tv \in Int /\ account[token[t].owner].tv \in Int
  BY <1>1, TypesAre, AccessAssumption DEF TokenRows, AccountRows
<1>5. \/ LiveToken(t) \/ t \in denied \/ token[t].tv < account[token[t].owner].tv
  BY <1>2, <1>3, <1>4 DEF LiveToken
<1>6. CASE LiveToken(t)
  <2>1. handler'[h].fresh
    BY <1>1, <1>6
  <2>2. CallInv(h)'
    BY <1>1, <1>2, <1>3, <2>1 DEF CallInv, WithAccount, WithToken
  <2>3. QED
    BY <1>1, <2>2 DEF Moved
<1>7. CASE t \in denied \/ token[t].tv < account[token[t].owner].tv
  <2>1. CallInv(h)'
    BY <1>1, <1>2, <1>3, <1>7 DEF CallInv, WithAccount, WithToken
  <2>2. QED
    BY <1>1, <2>1 DEF Moved
<1>8. QED
  BY <1>5, <1>6, <1>7

LEMMA SessionMoves ==
  ASSUME AccessTypeOK, TokenInv, NEW h \in Handlers, CallInv(h), SessionStep(h)
  PROVE  Moved(h)
<1>1. handler \in [Handlers -> HandlerRows] /\ account \in [Accounts -> AccountRows]
  BY TypesAre
<1>2. CASE \E op \in {"use", "logout", "refresh"}, t \in Tokens : Present(h, op, t)
  BY <1>2, PresentMoves
<1>3. CASE CheckDenylist(h)
  <2>1. CASE Reply(h)
    BY <2>1, ReplyMoves
  <2>2. CASE Await(h, "check") /\ handler[h].tok \notin denied
    <3>1. /\ handler[h].stage = "denylist" /\ UNCHANGED <<account, denied>>
      BY <1>3 DEF CheckDenylist
    <3>2. /\ handler' \in [Handlers -> HandlerRows]
          /\ handler'[h].stage = "check" /\ handler'[h].who = handler[h].who
          /\ handler'[h].tok = handler[h].tok /\ handler'[h].tv = handler[h].tv
          /\ handler'[h].fresh = handler[h].fresh
          /\ \A k \in Handlers : k # h => handler'[k] = handler[k]
      BY <1>1, <2>2, AwaitIs DEF Stages
    <3>3. CallInv(h)'
      BY <2>2, <3>1, <3>2 DEF CallInv, WithAccount, WithToken
    <3>4. QED
      BY <3>2, <3>3 DEF Moved
  <2>3. QED
    BY <1>3, <2>1, <2>2 DEF CheckDenylist
<1>4. CASE CheckVersion(h)
  <2>1. CASE Reply(h)
    BY <2>1, ReplyMoves
  <2>2. CASE Await(h, "admitted") /\ handler[h].tv = account[handler[h].who].tv
    <3>1. /\ handler[h].stage = "check" /\ UNCHANGED <<account, denied>>
      BY <1>4 DEF CheckVersion
    <3>2. /\ handler' \in [Handlers -> HandlerRows]
          /\ handler'[h].stage = "admitted" /\ handler'[h].who = handler[h].who
          /\ handler'[h].tok = handler[h].tok /\ handler'[h].tv = handler[h].tv
          /\ handler'[h].fresh = handler[h].fresh
          /\ \A k \in Handlers : k # h => handler'[k] = handler[k]
      BY <1>1, <2>2, AwaitIs DEF Stages
    <3>3. handler[h].tv \in Int
      BY <1>1, AccessAssumption DEF HandlerRows
    <3>4. handler[h].fresh
      BY <2>2, <3>1, <3>3 DEF CallInv
    <3>5. CallInv(h)'
      BY <3>1, <3>2, <3>4 DEF CallInv, WithAccount, WithToken
    <3>6. QED
      BY <3>2, <3>5 DEF Moved
  <2>3. QED
    BY <1>4, <2>1, <2>2 DEF CheckVersion
<1>5. CASE Serve(h) \/ RevokeOwn(h)
  BY <1>5, ReplyMoves DEF Serve, RevokeOwn
<1>6. CASE RevokePrior(h)
  <2>1. handler[h].who \in Accounts /\ account[handler[h].who].row
    BY <1>6 DEF RevokePrior, At, CallInv, WithAccount
  <2>2. PICK c \in HandlerRows : /\ c = UserCall("login", "version", handler[h].who)
                                 /\ c.stage = "version" /\ c.who = handler[h].who /\ c.tv = 0
    BY <2>1, CallIs DEF Ops, Stages
  <2>3. handler' = [handler EXCEPT ![h] = c] /\ UNCHANGED account
    BY <1>6, <2>2 DEF RevokePrior
  <2>4. handler' \in [Handlers -> HandlerRows] /\ handler'[h] = c
    BY <1>1, <2>3
  <2>5. 0 <= account[handler[h].who].tv
    BY <1>1, <2>1, AccessAssumption DEF AccountRows
  <2>6. CallInv(h)'
    BY <2>1, <2>2, <2>3, <2>4, <2>5 DEF CallInv, WithAccount, WithToken
  <2>7. QED
    BY <1>1, <2>3, <2>4, <2>6 DEF Moved
<1>7. QED
  BY <1>2, <1>3, <1>4, <1>5, <1>6 DEF SessionStep

\* Administration and access requests.
LEMMA OtherMoves ==
  ASSUME AccessTypeOK, NEW h \in Handlers, CallInv(h), AdminStep(h) \/ RequestStep(h)
  PROVE  Moved(h) \/ UNCHANGED handler
<1>1. /\ handler \in [Handlers -> HandlerRows] /\ account \in [Accounts -> AccountRows]
      /\ request \in [Accounts -> RequestStates]
  BY TypesAre
<1>2. ASSUME NEW u \in Accounts, NEW op \in {"use", "deactivate"}, RevokeAll(h, u, op)
      PROVE  Moved(h) \/ UNCHANGED handler
  BY <1>2, BeginMoves DEF RevokeAll, Ops, Stages, WithAccount
<1>3. ASSUME NEW u \in Accounts, Register(h, u) \/ Resolve(h, u) PROVE Moved(h)
  BY <1>3, BeginMoves DEF Register, Resolve, Ops, Stages, WithAccount
<1>4. ASSUME NEW u \in Accounts, NEW op \in {"approve", "reject"}, Review(h, op, u)
      PROVE  Moved(h)
  <2>1. PICK st \in {"find", "write"} : Begin(h, UserCall(op, st, u))
    BY <1>4 DEF Review
  <2>2. QED
    BY <2>1, BeginMoves DEF Ops, Stages, WithAccount
<1>5. CASE \/ Deactivate(h) \/ CreateRegistered(h) \/ FileRequest(h) \/ Approve(h) \/ Reject(h)
  BY <1>5, ReplyMoves DEF Deactivate, CreateRegistered, FileRequest, Approve, Reject
<1>6. CASE CheckAccount(h)
  <2>1. CASE Reply(h)
    BY <2>1, ReplyMoves
  <2>2. CASE Await(h, "write")
    BY <1>6, <2>2, AwaitMoves DEF CheckAccount, At, Stages, WithAccount
  <2>3. QED
    BY <1>6, <2>1, <2>2 DEF CheckAccount
<1>7. CASE FindRequest(h)
  <2>1. handler[h].who \in Accounts /\ handler[h].stage = "find"
    BY <1>7 DEF FindRequest, At, CallInv
  <2>2. PICK r \in RequestStates : r = request[handler[h].who]
    BY <1>1, <2>1
  <2>0. PICK c : c = [handler[h] EXCEPT !.stage = "apply", !.seen = r]
    OBVIOUS
  <2>3. c \in HandlerRows /\ c.stage = "apply" /\ c.who = handler[h].who
    BY <1>1, <2>0 DEF HandlerRows, Stages
  <2>4. handler' = [handler EXCEPT ![h] = c]
    <3>1. handler' = [handler EXCEPT ![h] =
                        [handler[h] EXCEPT !.stage = "apply", !.seen = request[handler[h].who]]]
      BY <1>7 DEF FindRequest
    <3>2. QED
      BY <2>0, <2>2, <3>1, Zenon
  <2>5. handler' \in [Handlers -> HandlerRows] /\ handler'[h] = c
    BY <1>1, <2>3, <2>4
  <2>6. CallInv(h)'
    BY <2>1, <2>3, <2>5 DEF CallInv, WithAccount, WithToken
  <2>7. QED
    BY <1>1, <2>4, <2>5, <2>6 DEF Moved
<1>8. QED
  BY <1>2, <1>3, <1>4, <1>5, <1>6, <1>7 DEF AdminStep, RequestStep

----------------------------------------------------------------------------
(* The invariant *)

\* Only a restart forgets denylist rows, and it ends every call.
LEMMA HandlersStep ==
  ASSUME AccessInv, [AccessNext]_accessVars
  PROVE  /\ handler' \in [Handlers -> HandlerRows]
         /\ \A h \in Handlers : CallInv(h)'
<1>1. /\ handler \in [Handlers -> HandlerRows] /\ AccessTypeOK /\ TokenInv
      /\ \A h \in Handlers : CallInv(h)
  BY TypesAre DEF AccessInv
<1>2. account' \in [Accounts -> AccountRows] /\ Grown
  BY <1>1, AccountStep
<1>3. ASSUME NEW h \in Handlers, Moved(h), denied \subseteq denied'
      PROVE  /\ handler' \in [Handlers -> HandlerRows]
             /\ \A k \in Handlers : CallInv(k)'
  BY <1>1, <1>2, <1>3, CallKept DEF Moved
<1>4. ASSUME UNCHANGED handler, denied \subseteq denied'
      PROVE  /\ handler' \in [Handlers -> HandlerRows]
             /\ \A k \in Handlers : CallInv(k)'
  BY <1>1, <1>2, <1>4, CallKept
<1>5. ASSUME NEW h \in Handlers, LoginStep(h) \/ SessionStep(h) \/ HandlerFails(h)
      PROVE  Moved(h) /\ denied \subseteq denied'
  <2>1. Moved(h)
    BY <1>1, <1>5, LoginMoves, SessionMoves, ReplyMoves DEF HandlerFails
  <2>2. denied \subseteq denied'
    BY <1>5 DEF LoginStep, Login, SsoLogin, CountProfiles, ReadVersion, Sign, SessionStep,
                Present, CheckDenylist, CheckVersion, Serve, RevokeOwn, RevokePrior, HandlerFails
  <2>3. QED
    BY <2>1, <2>2
<1>6. ASSUME NEW h \in Handlers, AdminStep(h) \/ RequestStep(h)
      PROVE  (Moved(h) \/ UNCHANGED handler) /\ denied \subseteq denied'
  <2>1. Moved(h) \/ UNCHANGED handler
    BY <1>1, <1>6, OtherMoves
  <2>2. denied \subseteq denied'
    BY <1>6 DEF AdminStep, RevokeAll, Deactivate, RequestStep, Register, Resolve, Review,
                CreateRegistered, FindRequest, FileRequest, CheckAccount, Approve, Reject
  <2>3. QED
    BY <2>1, <2>2
<1>7. CASE \/ \E u \in Accounts : Reactivate(u) \/ \E has \in BOOLEAN : SetProfile(u, has)
           \/ \E t \in Tokens : Expire(t)
           \/ UNCHANGED accessVars
  BY <1>4, <1>7 DEF Reactivate, SetProfile, Expire, accessVars
<1>8. CASE Restart
  <2>1. handler' = [h \in Handlers |-> NoHandler]
    BY <1>8 DEF Restart
  <2>2. handler' \in [Handlers -> HandlerRows] /\ \A h \in Handlers : handler'[h].stage = "free"
    BY <2>1, FreeHandler
  <2>3. QED
    BY <2>2 DEF CallInv, WithAccount, WithToken
<1>9. QED
  BY <1>3, <1>4, <1>5, <1>6, <1>7, <1>8 DEF AccessNext

\* What a step does to the tokens: one is issued, for an account, with the
\* version its call has read.
LEMMA TokenIs ==
  ASSUME AccessInv, [AccessNext]_accessVars
  PROVE  \/ UNCHANGED token
         \/ \E h \in Handlers, t \in Tokens : Sign(h, t)
<1>1. CASE \E h \in Handlers : LoginStep(h) \/ SessionStep(h) \/ HandlerFails(h)
  BY <1>1 DEF LoginStep, Login, SsoLogin, CountProfiles, ReadVersion, SessionStep, Present,
              CheckDenylist, CheckVersion, Serve, RevokeOwn, RevokePrior, HandlerFails
<1>2. CASE \E h \in Handlers : AdminStep(h) \/ RequestStep(h)
  BY <1>2 DEF AdminStep, RevokeAll, Deactivate, RequestStep, Register, Resolve, Review,
              CreateRegistered, FindRequest, FileRequest, CheckAccount, Approve, Reject
<1>3. CASE \/ \E u \in Accounts : Reactivate(u) \/ \E has \in BOOLEAN : SetProfile(u, has)
           \/ (\E t \in Tokens : Expire(t)) \/ Restart \/ UNCHANGED accessVars
  BY <1>3 DEF Reactivate, SetProfile, Expire, Restart, accessVars
<1>4. QED
  BY <1>1, <1>2, <1>3 DEF AccessNext

LEMMA TokensStep ==
  ASSUME AccessInv, [AccessNext]_accessVars
  PROVE  token' \in [Tokens -> TokenRows] /\ TokenInv'
<1>1. /\ token \in [Tokens -> TokenRows] /\ account \in [Accounts -> AccountRows]
      /\ handler \in [Handlers -> HandlerRows]
      /\ account' \in [Accounts -> AccountRows] /\ Grown /\ TokenInv
  BY TypesAre, AccountStep DEF AccessInv
<1>2. ASSUME NEW t \in Tokens, token'[t] = token[t]
      PROVE  Issued(t)' => /\ account'[token'[t].owner].row
                           /\ token'[t].tv <= account'[token'[t].owner].tv
  <2>1. SUFFICES ASSUME Issued(t)
                 PROVE  /\ account'[token[t].owner].row
                        /\ token[t].tv <= account'[token[t].owner].tv
    BY <1>2 DEF Issued
  <2>2. token[t].owner \in Accounts
    BY <1>1, <2>1 DEF Issued, TokenRows
  <2>3. account[token[t].owner].row /\ token[t].tv <= account[token[t].owner].tv
    BY <1>1, <2>1 DEF TokenInv
  <2>4. account'[token[t].owner].row /\ account[token[t].owner].tv <= account'[token[t].owner].tv
    BY <1>1, <2>2, <2>3 DEF Grown
  <2>5. /\ token[t].tv \in Int /\ account[token[t].owner].tv \in Int
        /\ account'[token[t].owner].tv \in Int
    BY <1>1, <2>2, AccessAssumption DEF TokenRows, AccountRows
  <2>6. QED
    BY <2>3, <2>4, <2>5
<1>3. CASE UNCHANGED token
  BY <1>1, <1>2, <1>3 DEF TokenInv, Issued
<1>4. ASSUME NEW h \in Handlers, NEW s \in Tokens, Sign(h, s)
      PROVE  token' \in [Tokens -> TokenRows] /\ TokenInv'
  <2>1. CallInv(h) /\ handler[h].stage = "sign"
    BY <1>4 DEF AccessInv, Sign
  <2>2. /\ handler[h].who \in Accounts /\ account[handler[h].who].row
        /\ handler[h].tv <= account[handler[h].who].tv
    BY <2>1 DEF CallInv, WithAccount
  <2>0. PICK new : new = [owner |-> handler[h].who, tv |-> handler[h].tv]
    OBVIOUS
  <2>3. new \in TokenRows /\ new.owner = handler[h].who /\ new.tv = handler[h].tv
    BY <1>1, <2>0, <2>2 DEF TokenRows, HandlerRows
  <2>4. token' = [token EXCEPT ![s] = new]
    BY <1>4, <2>0 DEF Sign
  <2>5. /\ token' \in [Tokens -> TokenRows] /\ token'[s] = new
        /\ \A t \in Tokens : t # s => token'[t] = token[t]
    BY <1>1, <2>3, <2>4
  <2>6. account' = account
    BY <1>4 DEF Sign
  <2>7. account'[token'[s].owner].row /\ token'[s].tv <= account'[token'[s].owner].tv
    BY <2>2, <2>3, <2>5, <2>6
  <2>8. QED
    BY <1>2, <2>5, <2>7 DEF TokenInv, Issued
<1>5. QED
  BY <1>3, <1>4, TokenIs

\* Only an approval that finds no account marks a request APPROVED.
LEMMA RequestIs ==
  ASSUME AccessInv, [AccessNext]_accessVars
  PROVE  /\ request' \in [Accounts -> RequestStates]
         /\ \A u \in Accounts : request'[u] = "APPROVED" =>
              request[u] = "APPROVED" \/ account'[u].row
<1>1. /\ request \in [Accounts -> RequestStates] /\ account \in [Accounts -> AccountRows]
  BY TypesAre DEF AccessInv
<1>2. CASE UNCHANGED request
  BY <1>1, <1>2
<1>3. ASSUME NEW h \in Handlers, FileRequest(h) \/ Reject(h)
      PROVE  /\ request' \in [Accounts -> RequestStates]
             /\ \A u \in Accounts : request'[u] = "APPROVED" => request[u] = "APPROVED"
  <2>1. PICK st \in {"PENDING", "REJECTED"} :
          request' = request \/ request' = [request EXCEPT ![handler[h].who] = st]
    BY <1>3 DEF FileRequest, Reject
  <2>2. QED
    BY <1>1, <2>1 DEF RequestStates
<1>4. ASSUME NEW h \in Handlers, Approve(h)
      PROVE  /\ request' \in [Accounts -> RequestStates]
             /\ \A u \in Accounts : request'[u] = "APPROVED" =>
                  request[u] = "APPROVED" \/ account'[u].row
  <2>1. CASE UNCHANGED request
    BY <1>1, <2>1
  <2>2. CASE /\ account' = [account EXCEPT ![handler[h].who] = NewAccount(TRUE)]
             /\ request' = [request EXCEPT ![handler[h].who] = "APPROVED"]
    <3>1. PICK new : new = NewAccount(TRUE) /\ new.row
      BY NewAccountIs
    <3>2. account' = [account EXCEPT ![handler[h].who] = new]
      BY <2>2, <3>1
    <3>3. QED
      BY <1>1, <2>2, <3>1, <3>2 DEF RequestStates
  <2>3. QED
    BY <1>4, <2>1, <2>2 DEF Approve
<1>5. CASE \E h \in Handlers : LoginStep(h) \/ SessionStep(h) \/ AdminStep(h) \/ HandlerFails(h)
  <2>1. UNCHANGED request
    BY <1>5 DEF LoginStep, Login, SsoLogin, CountProfiles, ReadVersion, Sign, SessionStep, Present,
                CheckDenylist, CheckVersion, Serve, RevokeOwn, RevokePrior, HandlerFails,
                AdminStep, RevokeAll, Deactivate
  <2>2. QED
    BY <1>2, <2>1
<1>6. ASSUME NEW h \in Handlers, RequestStep(h),
             ~ FileRequest(h), ~ Reject(h), ~ Approve(h)
      PROVE  UNCHANGED request
  BY <1>6 DEF RequestStep, Register, Resolve, Review, CreateRegistered, FindRequest, CheckAccount
<1>7. CASE \/ \E u \in Accounts : Reactivate(u) \/ \E has \in BOOLEAN : SetProfile(u, has)
           \/ (\E t \in Tokens : Expire(t)) \/ Restart \/ UNCHANGED accessVars
  BY <1>2, <1>7 DEF Reactivate, SetProfile, Expire, Restart, accessVars
<1>8. QED
  BY <1>2, <1>3, <1>4, <1>5, <1>6, <1>7 DEF AccessNext

\* Denylist and expiry hold tokens.
LEMMA SetsStep ==
  ASSUME AccessInv, [AccessNext]_accessVars
  PROVE  expired' \subseteq Tokens /\ denied' \subseteq Tokens
<1>1. expired \subseteq Tokens /\ denied \subseteq Tokens
  BY TypesAre DEF AccessInv
<1>2. ASSUME NEW h \in Handlers, RevokeOwn(h) \/ RevokePrior(h)
      PROVE  expired' \subseteq Tokens /\ denied' \subseteq Tokens
  <2>1. handler[h].tok \in Tokens
    BY <1>2 DEF AccessInv, CallInv, RevokeOwn, RevokePrior, At, WithToken
  <2>2. QED
    BY <1>1, <1>2, <2>1 DEF RevokeOwn, RevokePrior
<1>3. ASSUME NEW h \in Handlers, SessionStep(h) \/ LoginStep(h) \/ HandlerFails(h),
             ~ RevokeOwn(h), ~ RevokePrior(h)
      PROVE  UNCHANGED <<expired, denied>>
  BY <1>3 DEF LoginStep, Login, SsoLogin, CountProfiles, ReadVersion, Sign, SessionStep, Present,
              CheckDenylist, CheckVersion, Serve, HandlerFails
<1>4. ASSUME NEW h \in Handlers, AdminStep(h) \/ RequestStep(h)
      PROVE  UNCHANGED <<expired, denied>>
  BY <1>4 DEF AdminStep, RevokeAll, Deactivate, RequestStep, Register, Resolve, Review,
              CreateRegistered, FindRequest, FileRequest, CheckAccount, Approve, Reject
<1>5. CASE \/ \E u \in Accounts : Reactivate(u) \/ \E has \in BOOLEAN : SetProfile(u, has)
           \/ (\E t \in Tokens : Expire(t)) \/ Restart \/ UNCHANGED accessVars
  BY <1>1, <1>5 DEF Reactivate, SetProfile, Expire, Restart, accessVars
<1>6. QED
  BY <1>1, <1>2, <1>3, <1>4, <1>5 DEF AccessNext

\* The invariant holds at the start.
LEMMA AccessInvInit == AccessInit => AccessInv
<1> SUFFICES ASSUME AccessInit PROVE AccessInv
  OBVIOUS
<1>1. /\ \A h \in Handlers : handler[h].stage = "free"
      /\ handler \in [Handlers -> HandlerRows]
  BY FreeHandler DEF AccessInit
<1>2. /\ account \in [Accounts -> AccountRows]
      /\ request \in [Accounts -> RequestStates]
      /\ token \in [Tokens -> TokenRows]
      /\ expired \subseteq Tokens /\ denied \subseteq Tokens
  BY AccessAssumption DEF AccessInit, AccountRows, TokenRows, RequestStates
<1>3. \A h \in Handlers : CallInv(h)
  BY <1>1 DEF CallInv, WithAccount, WithToken
<1>4. TokenInv /\ ApprovedHasAccount
  BY DEF AccessInit, TokenInv, Issued, ApprovedHasAccount
<1>5. QED
  BY <1>1, <1>2, <1>3, <1>4, TypesAre DEF AccessInv

LEMMA AccessInvStep ==
  ASSUME AccessInv, [AccessNext]_accessVars
  PROVE  AccessInv'
<1>1. account' \in [Accounts -> AccountRows] /\ Grown
  BY AccountStep DEF AccessInv
<1>2. handler' \in [Handlers -> HandlerRows] /\ \A h \in Handlers : CallInv(h)'
  BY HandlersStep
<1>3. token' \in [Tokens -> TokenRows] /\ TokenInv'
  BY TokensStep
<1>4. AccessTypeOK'
  BY <1>1, <1>2, <1>3, RequestIs, SetsStep
     DEF AccessTypeOK, AccountRows, TokenRows, HandlerRows
<1>5. ApprovedHasAccount'
  BY <1>1, RequestIs DEF AccessInv, ApprovedHasAccount, Grown
<1>6. QED
  BY <1>2, <1>3, <1>4, <1>5 DEF AccessInv

\* However calls overlap, fail or die with the process, no token and no call is
\* ahead of its account's version, and no refused token is about to be let in.
THEOREM InvariantHolds == AccessSpec => []AccessInv
<1>1. AccessInv /\ [AccessNext]_accessVars => AccessInv'
  BY AccessInvStep
<1>2. QED
  BY AccessInvInit, <1>1, PTL DEF AccessSpec

\* The rows of User, AccessRequest and RevokedToken and the locals of the calls
\* keep their types: a call that holds a token or an account holds a real one.
THEOREM TypeCorrect == AccessSpec => []AccessTypeOK
<1>1. AccessInv => AccessTypeOK
  BY DEF AccessInv
<1>2. QED
  BY InvariantHolds, <1>1, PTL

\* A token that was dead when its request came in is never let through by the
\* two queries of isSessionActive (denylist, then version).
THEOREM AdmissionHolds == AccessSpec => []AdmittedWasLive
<1>1. AccessInv => AdmittedWasLive
  BY DEF AccessInv, CallInv, AdmittedWasLive
<1>2. QED
  BY InvariantHolds, <1>1, PTL

\* An approved request has its account, whatever approvals, rejections,
\* registrations and re-opened requests overlap (access-request-service.ts).
THEOREM ApprovalHolds == AccessSpec => []ApprovedHasAccount
<1>1. AccessInv => ApprovedHasAccount
  BY DEF AccessInv
<1>2. QED
  BY InvariantHolds, <1>1, PTL

----------------------------------------------------------------------------
(* Access implements SessionLifecycle *)

LEMMA StandingIs ==
  /\ Standing = [t \in Tokens |-> Standing[t]]
  /\ \A t \in Tokens : /\ ~ Issued(t) => Standing[t] = "unissued"
                       /\ Issued(t) /\ LiveToken(t) => Standing[t] = "live"
                       /\ Issued(t) /\ ~ LiveToken(t) => Standing[t] = "dead"
BY DEF Standing

\* An issued token stays as it is or dies: its version is not ahead of its
\* account's, which only goes up.
LEMMA IssuedFades ==
  ASSUME AccessInv, [AccessNext]_accessVars, NEW t \in Tokens, Issued(t), ~ LiveToken(t)
  PROVE  ~ LiveToken(t)'
<1>1. /\ token \in [Tokens -> TokenRows] /\ account \in [Accounts -> AccountRows]
      /\ account' \in [Accounts -> AccountRows] /\ Grown /\ TokensKept /\ TokenInv
  BY TypesAre, AccountStep, TokenStep DEF AccessInv
<1>2. token'[t] = token[t] /\ expired \subseteq expired' /\ denied \subseteq denied' \cup expired'
  BY <1>1 DEF TokensKept
<1>3. CASE t \in expired \/ t \in denied
  BY <1>2, <1>3 DEF LiveToken
<1>4. CASE token[t].tv # account[token[t].owner].tv
  <2>1. token[t].owner \in Accounts
    BY <1>1 DEF Issued, TokenRows
  <2>2. account[token[t].owner].row /\ token[t].tv <= account[token[t].owner].tv
    BY <1>1 DEF TokenInv
  <2>3. account[token[t].owner].tv <= account'[token[t].owner].tv
    BY <1>1, <2>1, <2>2 DEF Grown
  <2>4. /\ token[t].tv \in Int /\ account[token[t].owner].tv \in Int
        /\ account'[token[t].owner].tv \in Int
    BY <1>1, <2>1, AccessAssumption DEF TokenRows, AccountRows
  <2>5. token[t].tv # account'[token[t].owner].tv
    BY <1>4, <2>2, <2>3, <2>4
  <2>6. QED
    BY <1>2, <2>5 DEF LiveToken
<1>5. QED
  BY <1>3, <1>4 DEF LiveToken

\* A signature issues one token, live or dead on arrival.
LEMMA SignIssues ==
  ASSUME AccessInv, NEW h \in Handlers, NEW s \in Tokens, Sign(h, s)
  PROVE  Session!IssueToken
<1>1. /\ token \in [Tokens -> TokenRows] /\ CallInv(h)
      /\ handler \in [Handlers -> HandlerRows]
  BY TypesAre DEF AccessInv
<1>2. handler[h].who \in Accounts
  BY <1>1 DEF CallInv, Sign
<1>3. ~ Issued(s) /\ UNCHANGED <<account, expired, denied>>
  BY DEF Sign
<1>4. token'[s].owner = handler[h].who /\ \A t \in Tokens : t # s => token'[t] = token[t]
  BY <1>1 DEF Sign
<1>5. Issued(s)'
  BY <1>2, <1>4, AccessNames DEF Issued
<1>6. \A t \in Tokens : t # s => Standing'[t] = Standing[t]
  BY <1>3, <1>4 DEF Standing, Issued, LiveToken
<1>7. Standing[s] = "unissued" /\ Standing'[s] \in {"live", "dead"}
  BY <1>3, <1>5 DEF Standing
<1>8. /\ Standing' = [t \in Tokens |-> Standing'[t]]
      /\ Standing = [t \in Tokens |-> Standing[t]]
  BY DEF Standing
<1>9. Standing' = [Standing EXCEPT ![s] = Standing'[s]]
  BY <1>6, <1>8
<1>10. QED
  BY <1>7, <1>9 DEF Session!IssueToken

\* Any other step ends the tokens that are live before it and not after.
LEMMA OthersEnd ==
  ASSUME AccessInv, [AccessNext]_accessVars, UNCHANGED token
  PROVE  Session!EndTokens
<1> DEFINE S == {t \in Tokens : Standing[t] = "live" /\ Standing'[t] # "live"}
<1>1. ASSUME NEW t \in Tokens
      PROVE  Standing'[t] = IF t \in S THEN "dead" ELSE Standing[t]
  <2>1. CASE ~ Issued(t)
    BY <2>1 DEF Standing, Issued
  <2>2. CASE Issued(t) /\ LiveToken(t)
    BY <2>2 DEF Standing, Issued
  <2>3. CASE Issued(t) /\ ~ LiveToken(t)
    <3>1. ~ LiveToken(t)'
      BY <2>3, IssuedFades
    <3>2. QED
      BY <2>3, <3>1 DEF Standing, Issued
  <2>4. QED
    BY <2>1, <2>2, <2>3
<1>2. Standing' = [t \in Tokens |-> Standing'[t]]
  BY DEF Standing
<1>3. Standing' = [t \in Tokens |-> IF t \in S THEN "dead" ELSE Standing[t]]
  BY <1>1, <1>2, Zenon
<1>4. S \in SUBSET {t \in Tokens : Standing[t] = "live"}
  OBVIOUS
<1>5. QED
  BY <1>3, <1>4 DEF Session!EndTokens

\* Revocation is for good: Access implements SessionLifecycle, in which a token
\* that isSessionActive would refuse is never live again.
THEOREM RevocationHolds == AccessSpec => RevocationIsFinal
<1>1. AccessInit => Session!LifeInit
  <2> SUFFICES ASSUME AccessInit PROVE Session!LifeInit
    OBVIOUS
  <2>1. \A t \in Tokens : ~ Issued(t)
    BY DEF AccessInit, Issued
  <2>2. Standing = [t \in Tokens |-> "unissued"]
    BY <2>1 DEF Standing
  <2>3. QED
    BY <2>2 DEF Session!LifeInit
<1>2. ASSUME AccessInv, [AccessNext]_accessVars PROVE [Session!LifeNext]_Standing
  BY <1>2, TokenIs, SignIssues, OthersEnd DEF Session!LifeNext
<1>3. AccessInv /\ [AccessNext]_accessVars => [Session!LifeNext]_Standing
  BY <1>2
<1>4. QED
  BY InvariantHolds, <1>1, <1>3, PTL DEF AccessSpec, RevocationIsFinal, Session!LifeSpec

----------------------------------------------------------------------------
(* Key rotation.  A rotation that follows the banner of Admin -> Config    *)
(* leaves every sealed password readable.  The claim is not inductive:     *)
(* that nothing is sealed with the previous key once a pre-flight was      *)
(* clean rests on what the pre-flight has read of the clients still being  *)
(* true when it reads the fallback.                                        *)

\* Sealed with a key that is not the current one.
Stale(v) == v.form = "sealed" /\ v.key # keys.current

KeysOK ==
  /\ keys \in [current : 1 .. MaxKey, previous : 0 .. MaxKey]
  /\ keys.previous # keys.current

\* After a clean pre-flight only the current key is in use.
CleanIsCurrent == clean => \A s \in Secrets : ~Stale(stored[s])

\* What a pre-flight read of a client that is still stale is what is there now.
ScanIsCurrent ==
  \A t \in Tasks, c \in SecretClients :
    task[t].kind = "scan" /\ Stale(stored[c]) => task[t].seen[c] = stored[c]

SecretInv ==
  /\ SecretTypeOK /\ KeysOK
  /\ SealedIsReadable
  /\ CleanIsCurrent
  /\ ScanIsCurrent

----------------------------------------------------------------------------

LEMMA SealIsCurrent ==
  ASSUME KeysOK, NEW pw \in Passwords
  PROVE  Seal(pw) \in Stored /\ ~Stale(Seal(pw))
BY DEF KeysOK, Stored, Seal, Stale

\* A value to be sealed again has a password.
LEMMA PendingHasPassword ==
  ASSUME NEW v \in Stored, NeedsReencrypt(v)
  PROVE  v.pw \in Passwords
<1>1. v.form # "empty"
  BY DEF NeedsReencrypt, Classify
<1> QED
  BY <1>1 DEF Stored

\* A stale value that can be read is pending.
LEMMA StaleIsPending ==
  ASSUME KeysOK, NEW v \in Stored, Stale(v), v.key \in {keys.current, keys.previous}
  PROVE  NeedsReencrypt(v)
<1>1. v.form = "sealed" /\ v.key # keys.current /\ v.key = keys.previous
  BY DEF Stale
<1>2. Classify(v) = "encrypted_previous"
  BY <1>1 DEF Classify
<1> QED
  BY <1>2 DEF NeedsReencrypt

LEMMA EmptyIsStored == EmptySecret \in Stored
BY DEF EmptySecret, Stored

LEMMA FirstValues ==
  /\ [form |-> "plain", key |-> 0, pw |-> "old"] \in Stored
  /\ [form |-> "long", key |-> 0, pw |-> "old"] \in Stored
  /\ [form |-> "sealed", key |-> 1, pw |-> "old"] \in Stored
<1>1. "old" \in Passwords /\ 1 \in 1 .. MaxKey
  BY SecretAssumption DEF Passwords
<1> QED
  BY <1>1 DEF Stored

LEMMA StoredPasswords ==
  ASSUME NEW v \in Stored
  PROVE  v.pw \in Passwords \cup {""}
BY DEF Stored

LEMMA NothingIsStored == Nothing \in [Secrets -> Stored]
BY EmptyIsStored DEF Nothing

LEMMA IdleIsTyped == NoTask \in TaskRows /\ NoTask.kind = "idle"
<1>1. "" \in Passwords \cup {""} /\ {} \in SUBSET SecretClients
  OBVIOUS
<1>2. Work("idle", {}, Nothing, "") \in TaskRows /\ Work("idle", {}, Nothing, "").kind = "idle"
  BY <1>1, NothingIsStored DEF Work, TaskRows
<1> QED
  BY <1>2 DEF NoTask

LEMMA SealedHasKey ==
  ASSUME NEW v \in Stored, v.form = "sealed"
  PROVE  v.key \in 1 .. MaxKey
BY DEF Stored

THEOREM SecretInitially == SecretInit => SecretInv
<1> SUFFICES ASSUME SecretInit PROVE SecretInv
  OBVIOUS
<1>1. \A s \in Secrets : stored[s] \in {EmptySecret, [form |-> "plain", key |-> 0, pw |-> "old"],
                                        [form |-> "long", key |-> 0, pw |-> "old"],
                                        [form |-> "sealed", key |-> 1, pw |-> "old"]}
  BY DEF SecretInit
<1>2. stored \in [Secrets -> Stored]
  BY EmptyIsStored, FirstValues DEF SecretInit
<1>3. \A s \in Secrets : stored[s].form = "sealed" => stored[s].key = 1
  <2> SUFFICES ASSUME NEW s \in Secrets, stored[s].form = "sealed" PROVE stored[s].key = 1
    OBVIOUS
  <2>1. CASE stored[s] = EmptySecret
    <3>1. EmptySecret.form = "empty"
      BY DEF EmptySecret
    <3> QED
      BY <2>1, <3>1
  <2>2. CASE stored[s] # EmptySecret
    BY <1>1, <2>2
  <2> QED
    BY <2>1, <2>2
<1>4. cached \in Passwords \cup {"", "cipher"}
  BY <1>2, StoredPasswords DEF SecretInit, Secrets
<1>5. SecretTypeOK
  <2>1. task \in [Tasks -> TaskRows]
    BY IdleIsTyped DEF SecretInit
  <2>2. keys \in [current : 1 .. MaxKey, previous : 0 .. MaxKey]
    BY SecretAssumption DEF SecretInit
  <2> QED
    BY <1>2, <1>4, <2>1, <2>2 DEF SecretInit, SecretTypeOK
<1>6. KeysOK
  BY SecretAssumption DEF SecretInit, KeysOK
<1>7. SealedIsReadable
  BY <1>3 DEF SecretInit, SealedIsReadable
<1>8. CleanIsCurrent /\ ScanIsCurrent
  BY IdleIsTyped DEF SecretInit, CleanIsCurrent, ScanIsCurrent
<1> QED
  BY <1>5, <1>6, <1>7, <1>8 DEF SecretInv

----------------------------------------------------------------------------
(* Steps *)

\* A step that leaves the keys alone, writes nothing stale, and starts a scan
\* only with what is stored.
LEMMA WritesAreCurrent ==
  ASSUME SecretInv, UNCHANGED <<keys, clean>>,
         stored' \in [Secrets -> Stored], cached' \in Passwords \cup {"", "cipher"},
         task' \in [Tasks -> TaskRows],
         \A s \in Secrets : stored'[s] = stored[s] \/ ~Stale(stored'[s]),
         \A t \in Tasks : task'[t].kind = "scan" =>
           task'[t].seen = stored' \/ (task[t].kind = "scan" /\ task'[t].seen = task[t].seen)
  PROVE  SecretInv'
<1>1. SecretTypeOK'
  BY DEF SecretInv, SecretTypeOK
<1>2. KeysOK'
  BY DEF SecretInv, KeysOK
<1>4. SealedIsReadable'
  BY DEF SecretInv, SealedIsReadable, Stale
<1>5. CleanIsCurrent'
  BY DEF SecretInv, CleanIsCurrent, Stale
<1>6. ScanIsCurrent'
  <2> SUFFICES ASSUME NEW t \in Tasks, NEW c \in SecretClients,
                      task'[t].kind = "scan", Stale(stored[c])'
               PROVE  task'[t].seen[c] = stored'[c]
    BY DEF ScanIsCurrent
  <2>1. c \in Secrets
    BY DEF Secrets
  <2>2. Stale(stored'[c])
    BY DEF Stale
  <2>3. stored'[c] = stored[c]
    BY <2>1, <2>2
  <2>4. CASE task'[t].seen = stored'
    BY <2>4
  <2>5. CASE task[t].kind = "scan" /\ task'[t].seen = task[t].seen
    BY <2>2, <2>3, <2>5 DEF SecretInv, ScanIsCurrent
  <2> QED
    BY <2>4, <2>5
<1> QED
  BY <1>1, <1>2, <1>4, <1>5, <1>6 DEF SecretInv
LEMMA MoveWrites ==
  ASSUME SecretInv, NEW t \in Tasks, NEW to \in TaskRows, Moves(t, to),
         to.kind = "scan" => to.seen = stored' \/ (task[t].kind = "scan" /\ to.seen = task[t].seen)
  PROVE  /\ task' \in [Tasks -> TaskRows]
         /\ \A u \in Tasks : task'[u].kind = "scan" =>
              task'[u].seen = stored' \/ (task[u].kind = "scan" /\ task'[u].seen = task[u].seen)
<1>1. task \in [Tasks -> TaskRows]
  BY DEF SecretInv, SecretTypeOK
<1>2. task'[t] = to /\ \A u \in Tasks \ {t} : task'[u] = task[u]
  BY <1>1 DEF Moves
<1> QED
  BY <1>1, <1>2 DEF Moves

LEMMA IdleWrites ==
  ASSUME SecretInv, NEW t \in Tasks, TaskEnds(t)
  PROVE  /\ task' \in [Tasks -> TaskRows]
         /\ \A u \in Tasks : task'[u].kind = "scan" =>
              task[u].kind = "scan" /\ task'[u].seen = task[u].seen
<1>1. task \in [Tasks -> TaskRows]
  BY DEF SecretInv, SecretTypeOK
<1> QED
  BY <1>1, IdleIsTyped DEF TaskEnds, Moves

\* Sealing what was pending.
LEMMA Resealed ==
  ASSUME SecretInv, NEW s \in Secrets, NEW v \in Stored,
         stored' = [stored EXCEPT ![s] = IF NeedsReencrypt(v) THEN Seal(v.pw) ELSE @]
  PROVE  /\ stored' \in [Secrets -> Stored]
         /\ \A r \in Secrets : stored'[r] = stored[r] \/ ~Stale(stored'[r])
<1>1. stored \in [Secrets -> Stored] /\ KeysOK
  BY DEF SecretInv, SecretTypeOK
<1>2. CASE NeedsReencrypt(v)
  <2>1. Seal(v.pw) \in Stored /\ ~Stale(Seal(v.pw))
    BY <1>1, <1>2, PendingHasPassword, SealIsCurrent
  <2> QED
    BY <1>1, <1>2, <2>1
<1>3. CASE ~NeedsReencrypt(v)
  BY <1>1, <1>3
<1> QED
  BY <1>2, <1>3

LEMMA NewlySealed ==
  ASSUME SecretInv, NEW s \in Secrets, NEW pw \in Passwords,
         stored' = [stored EXCEPT ![s] = Seal(pw)]
  PROVE  /\ stored' \in [Secrets -> Stored]
         /\ \A r \in Secrets : stored'[r] = stored[r] \/ ~Stale(stored'[r])
<1>1. stored \in [Secrets -> Stored] /\ KeysOK
  BY DEF SecretInv, SecretTypeOK
<1>2. Seal(pw) \in Stored /\ ~Stale(Seal(pw))
  BY <1>1, SealIsCurrent
<1> QED
  BY <1>1, <1>2

\* A start of the server, with keys that can open whatever is sealed.
LEMMA StartsReadable ==
  ASSUME SecretInv, NEW ks \in [current : 1 .. MaxKey, previous : 0 .. MaxKey],
         ks.previous # ks.current, StartWith(ks),
         \A s \in Secrets : stored[s].form = "sealed" => stored[s].key \in {ks.current, ks.previous}
  PROVE  SecretInv'
<1>1. stored[Fallback] \in Stored
  BY DEF SecretInv, SecretTypeOK, Secrets
<1>2. cached' \in Passwords \cup {"", "cipher"}
  BY <1>1, StoredPasswords DEF StartWith, Decrypt
<1>3. task' \in [Tasks -> TaskRows] /\ \A t \in Tasks : task'[t].kind = "idle"
  BY IdleIsTyped DEF StartWith
<1>4. SecretTypeOK'
  <2>1. clean' \in BOOLEAN
    BY DEF StartWith
  <2> QED
    BY <1>2, <1>3, <2>1 DEF SecretInv, SecretTypeOK, StartWith
<1>5. KeysOK'
  BY DEF StartWith, KeysOK
<1>6. SealedIsReadable'
  BY DEF StartWith, SealedIsReadable
<1>7. CleanIsCurrent'
  BY DEF StartWith, SecretInv, CleanIsCurrent, Stale
<1>8. ScanIsCurrent'
  BY <1>3 DEF ScanIsCurrent
<1> QED
  BY <1>4, <1>5, <1>6, <1>7, <1>8 DEF SecretInv
----------------------------------------------------------------------------
(* The theorems *)

LEMMA SecretSteps ==
  ASSUME SecretInv, [SecretNext]_secretVars
  PROVE  SecretInv'
<1> DEFINE Current == /\ stored' \in [Secrets -> Stored]
                      /\ \A s \in Secrets : stored'[s] = stored[s] \/ ~Stale(stored'[s])
           Scans == /\ task' \in [Tasks -> TaskRows]
                    /\ \A u \in Tasks : task'[u].kind = "scan" =>
                         task'[u].seen = stored' \/ (task[u].kind = "scan" /\ task'[u].seen = task[u].seen)
           CacheTyped == cached' \in Passwords \cup {"", "cipher"}
<1>1. /\ stored \in [Secrets -> Stored] /\ task \in [Tasks -> TaskRows]
      /\ cached \in Passwords \cup {"", "cipher"}
      /\ keys \in [current : 1 .. MaxKey, previous : 0 .. MaxKey] /\ KeysOK
      /\ SecretClients \subseteq Secrets /\ Fallback \in Secrets
  BY DEF SecretInv, SecretTypeOK, KeysOK, Secrets
<1>2. UNCHANGED stored => Current
  BY <1>1
<1>3. UNCHANGED task => Scans
  BY <1>1
<1>4. UNCHANGED cached => CacheTyped
  BY <1>1
<1>5. Current /\ Scans /\ CacheTyped /\ UNCHANGED <<keys, clean>> => SecretInv'
  BY WritesAreCurrent
<1>6. ASSUME NEW t \in Tasks, TaskEnds(t) PROVE Scans
  BY <1>6, IdleWrites
<1>7. ASSUME NEW t \in Tasks, NEW to \in TaskRows, Moves(t, to),
             to.kind = "scan" => to.seen = stored' \/ (task[t].kind = "scan" /\ to.seen = task[t].seen)
      PROVE  Scans
  BY <1>7, MoveWrites
<1>8. \A t \in Tasks : task[t].todo \in SUBSET SecretClients /\ task[t].seen \in [Secrets -> Stored]
  BY <1>1 DEF TaskRows
<1> HIDE DEF Current, Scans, CacheTyped
<1>a. CASE PlainRestart
  BY <1>a, <1>1, StartsReadable DEF PlainRestart, KeysOK, SecretInv, SealedIsReadable
<1>b. CASE RotateKey
  <2> DEFINE ks == [current |-> keys.current + 1, previous |-> keys.current]
  <2>1. ks \in [current : 1 .. MaxKey, previous : 0 .. MaxKey] /\ ks.previous # ks.current
    <3>1. keys.current \in 1 .. MaxKey
      BY <1>1
    <3>2. keys.current + 1 \in 1 .. MaxKey /\ keys.current \in 0 .. MaxKey
      BY <1>b, <3>1, SecretAssumption DEF RotateKey
    <3>3. keys.current # keys.current + 1
      BY <3>1
    <3> QED
      BY <3>2, <3>3
  <2>2. \A s \in Secrets : stored[s].form = "sealed" => stored[s].key = keys.current
    <3> SUFFICES ASSUME NEW s \in Secrets, stored[s].form = "sealed"
                 PROVE  stored[s].key = keys.current
      OBVIOUS
    <3>1. stored[s] \in Stored /\ stored[s].key \in {keys.current, keys.previous}
      BY <1>1 DEF SecretInv, SealedIsReadable
    <3>2. stored[s].key \in 1 .. MaxKey
      BY <3>1, SealedHasKey
    <3> QED
      BY <1>b, <3>1, <3>2 DEF RotateKey
  <2>3. StartWith(ks)
    BY <1>b DEF RotateKey
  <2>4. \A s \in Secrets : stored[s].form = "sealed" => stored[s].key \in {ks.current, ks.previous}
    BY <2>2
  <2> QED
    BY <2>1, <2>3, <2>4, StartsReadable
<1>c. CASE RetireKey
  <2> DEFINE ks == [keys EXCEPT !.previous = 0]
  <2>1. /\ ks \in [current : 1 .. MaxKey, previous : 0 .. MaxKey]
        /\ ks.current = keys.current /\ ks.previous = 0 /\ ks.previous # ks.current
    <3>1. keys.current \in 1 .. MaxKey
      BY <1>1
    <3>2. 0 \in 0 .. MaxKey
      BY SecretAssumption
    <3>3. keys.current # 0
      BY <3>1
    <3> QED
      BY <1>1, <3>2, <3>3
  <2>2. \A s \in Secrets : stored[s].form = "sealed" => stored[s].key = keys.current
    BY <1>c DEF RetireKey, SecretInv, CleanIsCurrent, Stale
  <2>3. StartWith(ks)
    BY <1>c DEF RetireKey
  <2>4. \A s \in Secrets : stored[s].form = "sealed" => stored[s].key \in {ks.current, ks.previous}
    BY <2>1, <2>2
  <2> QED
    BY <2>1, <2>3, <2>4, StartsReadable
<1>d. CASE \E c \in SecretClients : SetPassword(c)
  <2> PICK c \in SecretClients : SetPassword(c)
    BY <1>d
  <2>1. "new" \in Passwords
    BY DEF Passwords
  <2>2. Current
    BY <1>1, <2>1, NewlySealed DEF SetPassword, Current
  <2> QED
    BY <2>2, <1>3, <1>4, <1>5 DEF SetPassword
<1>e. ASSUME NEW t \in Tasks, Reencrypt(t) \/ Preflight(t) \/ ReadFallback(t) PROVE SecretInv'
  <2>1. UNCHANGED stored /\ CacheTyped /\ UNCHANGED <<keys, clean>>
    BY <1>e, <1>4 DEF Reencrypt, Preflight, ReadFallback
  <2>2. Scans
    <3>0. /\ "" \in Passwords \cup {""} /\ {} \in SUBSET SecretClients
          /\ SecretClients \in SUBSET SecretClients
      OBVIOUS
    <3>1. CASE Reencrypt(t)
      <4>1. /\ Work("rows", SecretClients, stored, "") \in TaskRows
            /\ Work("rows", SecretClients, stored, "").kind = "rows"
        BY <1>1, <3>0 DEF Work, TaskRows
      <4> QED
        BY <1>7, <3>1, <4>1 DEF Reencrypt
    <3>2. CASE Preflight(t)
      <4>1. /\ Work("scan", {}, stored, "") \in TaskRows
            /\ Work("scan", {}, stored, "").seen = stored
        BY <1>1, <3>0 DEF Work, TaskRows
      <4> QED
        BY <1>7, <2>1, <3>2, <4>1 DEF Preflight
    <3>3. CASE ReadFallback(t)
      <4>1. /\ Work("fallback", {}, stored, "") \in TaskRows
            /\ Work("fallback", {}, stored, "").kind = "fallback"
        BY <1>1, <3>0 DEF Work, TaskRows
      <4> QED
        BY <1>7, <3>3, <4>1 DEF ReadFallback
    <3> QED
      BY <1>e, <3>1, <3>2, <3>3
  <2> QED
    BY <1>2, <1>5, <2>1, <2>2
<1>f. ASSUME NEW t \in Tasks, ReencryptRow(t) PROVE SecretInv'
  <2> PICK c \in task[t].todo :
        LET v == task[t].seen[c] IN
        \/ /\ stored' = [stored EXCEPT ![c] = IF NeedsReencrypt(v) THEN Seal(v.pw) ELSE @]
           /\ Moves(t, Work("rows", task[t].todo \ {c}, task[t].seen, ""))
        \/ NeedsReencrypt(v) /\ TaskEnds(t) /\ UNCHANGED stored
    BY <1>f DEF ReencryptRow
  <2>1. c \in Secrets /\ task[t].seen[c] \in Stored
    BY <1>1 DEF TaskRows
  <2>2. CacheTyped /\ UNCHANGED <<keys, clean>>
    BY <1>f, <1>4 DEF ReencryptRow
  <2>3. CASE TaskEnds(t) /\ UNCHANGED stored
    BY <1>2, <1>5, <1>6, <2>2, <2>3
  <2>4. CASE /\ stored' = [stored EXCEPT ![c] = IF NeedsReencrypt(task[t].seen[c])
                                                THEN Seal(task[t].seen[c].pw) ELSE @]
             /\ Moves(t, Work("rows", task[t].todo \ {c}, task[t].seen, ""))
    <3>1. Current
      BY <2>1, <2>4, Resealed DEF Current
    <3>2. Scans
      <4>1. task[t].todo \ {c} \in SUBSET SecretClients
        BY <1>8
      <4>2. "" \in Passwords \cup {""}
        OBVIOUS
      <4>3. /\ Work("rows", task[t].todo \ {c}, task[t].seen, "") \in TaskRows
            /\ Work("rows", task[t].todo \ {c}, task[t].seen, "").kind = "rows"
        BY <1>8, <4>1, <4>2 DEF Work, TaskRows
      <4> QED
        BY <1>7, <2>4, <4>3
    <3> QED
      BY <1>5, <2>2, <3>1, <3>2
  <2> QED
    BY <2>3, <2>4
<1>g. ASSUME NEW t \in Tasks, ReencryptFallback(t) PROVE SecretInv'
  <2>1. task[t].seen[Fallback] \in Stored
    BY <1>1 DEF TaskRows
  <2>2. Current
    BY <1>1, <1>2, <1>g, <2>1, Resealed DEF ReencryptFallback, Current
  <2> QED
    BY <1>4, <1>5, <1>6, <1>g, <2>2 DEF ReencryptFallback
<1>h. ASSUME NEW t \in Tasks, BulkPasswords(t) PROVE SecretInv'
  <2>1. Scans
    <3> PICK some \in SUBSET SecretClients : Moves(t, Work("bulk", some, Nothing, ""))
      BY <1>h DEF BulkPasswords
    <3>1. "" \in Passwords \cup {""}
      OBVIOUS
    <3>2. /\ Work("bulk", some, Nothing, "") \in TaskRows
          /\ Work("bulk", some, Nothing, "").kind = "bulk"
      BY <3>1, NothingIsStored DEF Work, TaskRows
    <3> QED
      BY <1>7, <3>2
  <2> QED
    BY <1>2, <1>4, <1>5, <1>h, <2>1 DEF BulkPasswords
<1>i. ASSUME NEW t \in Tasks, BulkRow(t) PROVE SecretInv'
  <2>1. CacheTyped /\ UNCHANGED <<keys, clean>>
    BY <1>4, <1>i DEF BulkRow
  <2>2. CASE task[t].todo = {} /\ TaskEnds(t) /\ UNCHANGED stored
    BY <1>2, <1>5, <1>6, <2>1, <2>2
  <2>3. CASE \E c \in task[t].todo :
               /\ Moves(t, Work("bulk", task[t].todo \ {c}, Nothing, ""))
               /\ stored' \in {stored, [stored EXCEPT ![c] = Seal("new")]}
    <3> PICK c \in task[t].todo :
          /\ Moves(t, Work("bulk", task[t].todo \ {c}, Nothing, ""))
          /\ stored' \in {stored, [stored EXCEPT ![c] = Seal("new")]}
      BY <2>3
    <3>1. c \in Secrets
      BY <1>1 DEF TaskRows
    <3>2. "new" \in Passwords
      BY DEF Passwords
    <3>3. Current
      BY <1>1, <1>2, <3>1, <3>2, NewlySealed DEF Current
    <3>4. Scans
      <4>1. task[t].todo \ {c} \in SUBSET SecretClients
        BY <1>8
      <4>2. "" \in Passwords \cup {""}
        OBVIOUS
      <4>3. /\ Work("bulk", task[t].todo \ {c}, Nothing, "") \in TaskRows
            /\ Work("bulk", task[t].todo \ {c}, Nothing, "").kind = "bulk"
        BY <4>1, <4>2, NothingIsStored DEF Work, TaskRows
      <4> QED
        BY <1>7, <4>3
    <3> QED
      BY <1>5, <2>1, <3>3, <3>4
  <2> QED
    BY <1>i, <2>2, <2>3 DEF BulkRow
<1>j. ASSUME NEW t \in Tasks, SaveFallback(t) PROVE SecretInv'
  <2> PICK pw \in {"new", ""} :
        /\ stored' = [stored EXCEPT ![Fallback] = IF pw = "" THEN EmptySecret ELSE Seal(pw)]
        /\ Moves(t, Work("save", {}, Nothing, pw))
    BY <1>j DEF SaveFallback
  <2>1. Scans
    <3>1. pw \in Passwords \cup {""} /\ {} \in SUBSET SecretClients
      BY DEF Passwords
    <3>2. /\ Work("save", {}, Nothing, pw) \in TaskRows
          /\ Work("save", {}, Nothing, pw).kind = "save"
      BY <3>1, NothingIsStored DEF Work, TaskRows
    <3> QED
      BY <1>7, <3>2
  <2>2. Current
    <3>1. CASE pw = ""
      BY <1>1, <3>1, EmptyIsStored DEF Current, EmptySecret, Stale
    <3>2. CASE pw # ""
      <4>1. pw \in Passwords /\ stored' = [stored EXCEPT ![Fallback] = Seal(pw)]
        BY <3>2 DEF Passwords
      <4> QED
        BY <1>1, <4>1, NewlySealed DEF Current
    <3> QED
      BY <3>1, <3>2
  <2> QED
    BY <1>4, <1>5, <1>j, <2>1, <2>2 DEF SaveFallback
<1>k. ASSUME NEW t \in Tasks, FallbackSaved(t) PROVE SecretInv'
  <2>1. CacheTyped
    BY <1>1, <1>k DEF FallbackSaved, CacheTyped, TaskRows
  <2> QED
    BY <1>2, <1>5, <1>6, <1>k, <2>1 DEF FallbackSaved
<1>l. ASSUME NEW t \in Tasks, Report(t) PROVE SecretInv'
  <2>1. Scans /\ UNCHANGED <<keys, stored, cached>>
    BY <1>6, <1>l DEF Report
  <2>2. clean' => \A s \in Secrets : ~Stale(stored[s])
    <3> SUFFICES ASSUME clean', ~clean, NEW s \in Secrets, Stale(stored[s]) PROVE FALSE
      BY DEF SecretInv, CleanIsCurrent
    <3>1. stored[s] \in Stored /\ stored[s].key \in {keys.current, keys.previous}
      BY <1>1 DEF SecretInv, SealedIsReadable, Stale
    <3>2. NeedsReencrypt(stored[s])
      BY <1>1, <3>1, StaleIsPending
    <3>3. s = Fallback \/ (s \in SecretClients /\ task[t].seen[s] = stored[s])
      BY <1>l DEF Report, SecretInv, ScanIsCurrent, Secrets
    <3> QED
      BY <1>l, <3>2, <3>3 DEF Report
  <2>3. SecretTypeOK'
    BY <1>1, <1>l, <2>1 DEF Report, Scans, SecretInv, SecretTypeOK
  <2>4. KeysOK' /\ SealedIsReadable'
    BY <2>1 DEF SecretInv, KeysOK, SealedIsReadable
  <2>5. CleanIsCurrent'
    BY <2>1, <2>2 DEF CleanIsCurrent, Stale
  <2>6. ScanIsCurrent'
    <3>1. \A u \in Tasks : task'[u].kind = "scan" =>
            task[u].kind = "scan" /\ task'[u].seen = task[u].seen
      BY <1>l, IdleWrites DEF Report
    <3> QED
      BY <2>1, <3>1 DEF SecretInv, ScanIsCurrent, Stale
  <2> QED
    BY <2>3, <2>4, <2>5, <2>6 DEF SecretInv
<1>m. CASE UNCHANGED secretVars
  BY <1>2, <1>3, <1>4, <1>5, <1>m DEF secretVars
<1> QED
  BY <1>a, <1>b, <1>c, <1>d, <1>e, <1>f, <1>g, <1>h, <1>i, <1>j, <1>k, <1>l, <1>m DEF SecretNext

LEMMA SecretInvariant == SecretSpec => []SecretInv
<1>1. SecretInit => SecretInv
  BY SecretInitially
<1>2. SecretInv /\ [SecretNext]_secretVars => SecretInv'
  BY SecretSteps
<1> QED
  BY <1>1, <1>2, PTL DEF SecretSpec

\* A rotation that follows the banner never leaves a sealed password without
\* its key, however runs, saves and restarts interleave.
THEOREM RotationHolds == SecretSpec => []SealedIsReadable
<1>1. SecretInv => SealedIsReadable
  BY DEF SecretInv
<1> QED
  BY <1>1, SecretInvariant, PTL
=============================================================================
