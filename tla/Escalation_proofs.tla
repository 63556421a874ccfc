------------------------- MODULE Escalation_proofs --------------------------
(* Theorems about Escalation, for any number of clients, users, requests in  *)
(* flight, rows and minutes, and about OutageImpact, for any number of pages *)
(* and clients.                                                              *)
EXTENDS Escalation, OutageImpact, FiniteSetTheorems, TLAPS

----------------------------------------------------------------------------
(* The provers know records by all their fields: what the updates of the    *)
(* specification make of a row and of a handler's locals.                   *)

RowOf(client, status, ackBy, ackAt, supUntil, firstSeen, resolvedAt, emailAt) ==
  [client |-> client, status |-> status, ackBy |-> ackBy, ackAt |-> ackAt,
   supUntil |-> supUntil, firstSeen |-> firstSeen, resolvedAt |-> resolvedAt,
   emailAt |-> emailAt]

LEMMA RowEdits ==
  ASSUME NEW x \in Row, NEW y, NEW t, NEW u
  PROVE
  /\ ResolvedRow(x, t) = RowOf(x.client, "OPEN", x.ackBy, x.ackAt, x.supUntil,
                               x.firstSeen, t, x.emailAt)
  /\ AckedRow(x, u, t) = RowOf(x.client, "ACKNOWLEDGED", u, t, x.supUntil,
                               x.firstSeen, x.resolvedAt, x.emailAt)
  /\ SuppressedRow(x, t) =
       RowOf(x.client, "SUPPRESSED", x.ackBy, x.ackAt, t, x.firstSeen,
             x.resolvedAt, x.emailAt)
  /\ MailedRow(x, t) = RowOf(x.client, x.status, x.ackBy, x.ackAt,
                                  x.supUntil, x.firstSeen, x.resolvedAt, t)
  /\ \/ Reopened(x, y) = RowOf(x.client, "OPEN", x.ackBy, x.ackAt, Never,
                               x.firstSeen, x.resolvedAt, x.emailAt)
     \/ Reopened(x, y) = RowOf(x.client, "OPEN", Nobody, Never, x.supUntil,
                               x.firstSeen, x.resolvedAt, x.emailAt)
<1> DEFINE o == [x EXCEPT !.status = "OPEN"]
           s == [x EXCEPT !.status = "SUPPRESSED"]
           k == [x EXCEPT !.status = "ACKNOWLEDGED"]
           r == [x EXCEPT !.resolvedAt = t]
<1>1. /\ o = RowOf(x.client, "OPEN", x.ackBy, x.ackAt, x.supUntil, x.firstSeen,
                   x.resolvedAt, x.emailAt)
      /\ s = RowOf(x.client, "SUPPRESSED", x.ackBy, x.ackAt, x.supUntil,
                   x.firstSeen, x.resolvedAt, x.emailAt)
      /\ k = RowOf(x.client, "ACKNOWLEDGED", x.ackBy, x.ackAt, x.supUntil,
                   x.firstSeen, x.resolvedAt, x.emailAt)
      /\ r = RowOf(x.client, x.status, x.ackBy, x.ackAt, x.supUntil,
                   x.firstSeen, t, x.emailAt)
      /\ [x EXCEPT !.emailAt = t] = RowOf(x.client, x.status, x.ackBy, x.ackAt,
                                     x.supUntil, x.firstSeen, x.resolvedAt, t)
  BY DEF Row, RowOf
<1> HIDE DEF o, s, k, r
<1> DEFINE ob == [o EXCEPT !.ackBy = Nobody]
           kb == [k EXCEPT !.ackBy = u]
<1>2. /\ [r EXCEPT !.status = "OPEN"] =
           RowOf(x.client, "OPEN", x.ackBy, x.ackAt, x.supUntil, x.firstSeen, t,
                 x.emailAt)
      /\ [s EXCEPT !.supUntil = t] =
           RowOf(x.client, "SUPPRESSED", x.ackBy, x.ackAt, t, x.firstSeen,
                 x.resolvedAt, x.emailAt)
      /\ [o EXCEPT !.supUntil = Never] =
           RowOf(x.client, "OPEN", x.ackBy, x.ackAt, Never, x.firstSeen,
                 x.resolvedAt, x.emailAt)
      /\ ob = RowOf(x.client, "OPEN", Nobody, x.ackAt, x.supUntil, x.firstSeen,
                    x.resolvedAt, x.emailAt)
      /\ kb = RowOf(x.client, "ACKNOWLEDGED", u, x.ackAt, x.supUntil,
                    x.firstSeen, x.resolvedAt, x.emailAt)
  BY <1>1 DEF RowOf
<1> HIDE DEF ob, kb
<1>3. /\ [ob EXCEPT !.ackAt = Never] =
           RowOf(x.client, "OPEN", Nobody, Never, x.supUntil, x.firstSeen,
                 x.resolvedAt, x.emailAt)
      /\ [kb EXCEPT !.ackAt = t] =
           RowOf(x.client, "ACKNOWLEDGED", u, t, x.supUntil, x.firstSeen,
                 x.resolvedAt, x.emailAt)
  BY <1>2 DEF RowOf
<1>4. QED
  BY <1>1, <1>2, <1>3 DEF ResolvedRow, AckedRow, SuppressedRow, MailedRow, Reopened, o, s, k, r, ob, kb

LocalOf(pc, auto, now, pending, queried, todo, cur, seen, ids, batch) ==
  [pc |-> pc, auto |-> auto, now |-> now, pending |-> pending,
   queried |-> queried, todo |-> todo, cur |-> cur, seen |-> seen, ids |-> ids,
   batch |-> batch]

LEMMA LocalEdits ==
  ASSUME NEW l \in Local, NEW c, NEW t, NEW S, NEW s
  PROVE
  /\ ToFind(l, S) = LocalOf("find", l.auto, l.now, l.pending, l.queried, S, {},
                            {}, l.ids, l.batch)
  /\ ToCreate(l, c) = LocalOf("create", l.auto, l.now, l.pending, l.queried,
                              l.todo \ {c}, {c}, l.seen, l.ids, l.batch)
  /\ ToReopen(l, c, s) = LocalOf("reopen", l.auto, l.now, l.pending, l.queried,
                                 l.todo \ {c}, l.cur, {s}, l.ids, l.batch)
  /\ ToResolve(l, S) = LocalOf("resolve", l.auto, l.now, l.pending, l.queried,
                               l.todo, l.cur, l.seen, S, l.batch)
  /\ ToSend(l, S, t) = LocalOf("send", l.auto, t, l.pending, l.queried, l.todo,
                               l.cur, l.seen, S, l.batch)
  /\ ToSmtp(l, S) = LocalOf("smtp", l.auto, l.now, l.pending, l.queried, l.todo,
                            l.cur, l.seen, l.ids, S)
  /\ ToAck(l) = LocalOf("ack", l.auto, l.now, l.pending, l.queried, l.todo,
                        l.cur, l.seen, l.ids, {})
<1>1. ToFind(l, S) = LocalOf("find", l.auto, l.now, l.pending, l.queried, S,
        {}, {}, l.ids, l.batch)
  <2> DEFINE m0 == [l EXCEPT !.pc = "find"]
  <2>0. m0 = LocalOf("find", l.auto, l.now, l.pending, l.queried, l.todo,
          l.cur, l.seen, l.ids, l.batch)
    BY DEF Local, LocalOf
  <2> HIDE DEF m0
  <2> DEFINE m1 == [m0 EXCEPT !.todo = S]
  <2>1. m1 = LocalOf("find", l.auto, l.now, l.pending, l.queried, S, l.cur,
          l.seen, l.ids, l.batch)
    BY <2>0 DEF LocalOf
  <2> HIDE DEF m1
  <2> DEFINE m2 == [m1 EXCEPT !.cur = {}]
  <2>2. m2 = LocalOf("find", l.auto, l.now, l.pending, l.queried, S, {},
          l.seen, l.ids, l.batch)
    BY <2>1 DEF LocalOf
  <2> HIDE DEF m2
  <2> DEFINE m3 == [m2 EXCEPT !.seen = {}]
  <2>3. m3 = LocalOf("find", l.auto, l.now, l.pending, l.queried, S, {}, {},
          l.ids, l.batch)
    BY <2>2 DEF LocalOf
  <2> HIDE DEF m3
  <2>4. QED
    BY <2>3 DEF ToFind, m0, m1, m2, m3
<1>2. ToCreate(l, c) = LocalOf("create", l.auto, l.now, l.pending, l.queried,
        l.todo \ {c}, {c}, l.seen, l.ids, l.batch)
  <2> DEFINE m0 == [l EXCEPT !.pc = "create"]
  <2>0. m0 = LocalOf("create", l.auto, l.now, l.pending, l.queried, l.todo,
          l.cur, l.seen, l.ids, l.batch)
    BY DEF Local, LocalOf
  <2> HIDE DEF m0
  <2> DEFINE m1 == [m0 EXCEPT !.todo = l.todo \ {c}]
  <2>1. m1 = LocalOf("create", l.auto, l.now, l.pending, l.queried, l.todo \
          {c}, l.cur, l.seen, l.ids, l.batch)
    BY <2>0 DEF LocalOf
  <2> HIDE DEF m1
  <2> DEFINE m2 == [m1 EXCEPT !.cur = {c}]
  <2>2. m2 = LocalOf("create", l.auto, l.now, l.pending, l.queried, l.todo \
          {c}, {c}, l.seen, l.ids, l.batch)
    BY <2>1 DEF LocalOf
  <2> HIDE DEF m2
  <2>3. QED
    BY <2>2 DEF ToCreate, m0, m1, m2
<1>3. ToReopen(l, c, s) = LocalOf("reopen", l.auto, l.now, l.pending,
        l.queried, l.todo \ {c}, l.cur, {s}, l.ids, l.batch)
  <2> DEFINE m0 == [l EXCEPT !.pc = "reopen"]
  <2>0. m0 = LocalOf("reopen", l.auto, l.now, l.pending, l.queried, l.todo,
          l.cur, l.seen, l.ids, l.batch)
    BY DEF Local, LocalOf
  <2> HIDE DEF m0
  <2> DEFINE m1 == [m0 EXCEPT !.todo = l.todo \ {c}]
  <2>1. m1 = LocalOf("reopen", l.auto, l.now, l.pending, l.queried, l.todo \
          {c}, l.cur, l.seen, l.ids, l.batch)
    BY <2>0 DEF LocalOf
  <2> HIDE DEF m1
  <2> DEFINE m2 == [m1 EXCEPT !.seen = {s}]
  <2>2. m2 = LocalOf("reopen", l.auto, l.now, l.pending, l.queried, l.todo \
          {c}, l.cur, {s}, l.ids, l.batch)
    BY <2>1 DEF LocalOf
  <2> HIDE DEF m2
  <2>3. QED
    BY <2>2 DEF ToReopen, m0, m1, m2
<1>4. ToResolve(l, S) = LocalOf("resolve", l.auto, l.now, l.pending,
        l.queried, l.todo, l.cur, l.seen, S, l.batch)
  <2> DEFINE m0 == [l EXCEPT !.pc = "resolve"]
  <2>0. m0 = LocalOf("resolve", l.auto, l.now, l.pending, l.queried, l.todo,
          l.cur, l.seen, l.ids, l.batch)
    BY DEF Local, LocalOf
  <2> HIDE DEF m0
  <2> DEFINE m1 == [m0 EXCEPT !.ids = S]
  <2>1. m1 = LocalOf("resolve", l.auto, l.now, l.pending, l.queried, l.todo,
          l.cur, l.seen, S, l.batch)
    BY <2>0 DEF LocalOf
  <2> HIDE DEF m1
  <2>2. QED
    BY <2>1 DEF ToResolve, m0, m1
<1>5. ToSend(l, S, t) = LocalOf("send", l.auto, t, l.pending, l.queried,
        l.todo, l.cur, l.seen, S, l.batch)
  <2> DEFINE m0 == [l EXCEPT !.pc = "send"]
  <2>0. m0 = LocalOf("send", l.auto, l.now, l.pending, l.queried, l.todo,
          l.cur, l.seen, l.ids, l.batch)
    BY DEF Local, LocalOf
  <2> HIDE DEF m0
  <2> DEFINE m1 == [m0 EXCEPT !.ids = S]
  <2>1. m1 = LocalOf("send", l.auto, l.now, l.pending, l.queried, l.todo,
          l.cur, l.seen, S, l.batch)
    BY <2>0 DEF LocalOf
  <2> HIDE DEF m1
  <2> DEFINE m2 == [m1 EXCEPT !.now = t]
  <2>2. m2 = LocalOf("send", l.auto, t, l.pending, l.queried, l.todo, l.cur,
          l.seen, S, l.batch)
    BY <2>1 DEF LocalOf
  <2> HIDE DEF m2
  <2>3. QED
    BY <2>2 DEF ToSend, m0, m1, m2
<1>6. ToSmtp(l, S) = LocalOf("smtp", l.auto, l.now, l.pending, l.queried,
        l.todo, l.cur, l.seen, l.ids, S)
  <2> DEFINE m0 == [l EXCEPT !.pc = "smtp"]
  <2>0. m0 = LocalOf("smtp", l.auto, l.now, l.pending, l.queried, l.todo,
          l.cur, l.seen, l.ids, l.batch)
    BY DEF Local, LocalOf
  <2> HIDE DEF m0
  <2> DEFINE m1 == [m0 EXCEPT !.batch = S]
  <2>1. m1 = LocalOf("smtp", l.auto, l.now, l.pending, l.queried, l.todo,
          l.cur, l.seen, l.ids, S)
    BY <2>0 DEF LocalOf
  <2> HIDE DEF m1
  <2>2. QED
    BY <2>1 DEF ToSmtp, m0, m1
<1>7. ToAck(l) = LocalOf("ack", l.auto, l.now, l.pending, l.queried, l.todo,
        l.cur, l.seen, l.ids, {})
  <2> DEFINE m0 == [l EXCEPT !.pc = "ack"]
  <2>0. m0 = LocalOf("ack", l.auto, l.now, l.pending, l.queried, l.todo,
          l.cur, l.seen, l.ids, l.batch)
    BY DEF Local, LocalOf
  <2> HIDE DEF m0
  <2> DEFINE m1 == [m0 EXCEPT !.batch = {}]
  <2>1. m1 = LocalOf("ack", l.auto, l.now, l.pending, l.queried, l.todo,
          l.cur, l.seen, l.ids, {})
    BY <2>0 DEF LocalOf
  <2> HIDE DEF m1
  <2>2. QED
    BY <2>1 DEF ToAck, m0, m1
<1>8. QED
  BY <1>1, <1>2, <1>3, <1>4, <1>5, <1>6, <1>7

\* A row stays a row whatever the engine or a user does to it.
LEMMA RowTypes ==
  ASSUME NEW x \in Row
  PROVE  /\ \A t \in Time : ResolvedRow(x, t) \in Row /\ MailedRow(x, t) \in Row
         /\ \A t \in Time, u \in Users \cup {System} : AckedRow(x, u, t) \in Row
         /\ \A y : Reopened(x, y) \in Row
         /\ \A d \in Int : SuppressedRow(x, d) \in Row
<1>1. Time \subseteq Int /\ Time \subseteq Date
  BY ConstantsAssumption DEF Time, Date, ConstantsAssumption
<1>2. \A d \in Int : SuppressedRow(x, d) \in Row
  BY RowEdits DEF RowOf, Row, Status
<1>3. \A t \in Time : ResolvedRow(x, t) \in Row /\ MailedRow(x, t) \in Row
  BY <1>1, RowEdits DEF RowOf, Row, Status
<1>4. \A t \in Time, u \in Users \cup {System} : AckedRow(x, u, t) \in Row
  BY <1>1, RowEdits DEF RowOf, Row, Status
<1>5. \A y : Reopened(x, y) \in Row
  BY RowEdits DEF RowOf, Row, Status, Date, Never
<1>6. QED
  BY <1>2, <1>3, <1>4, <1>5

\* A handler's locals stay well-typed whatever it does with them.
LEMMA LocalTypes ==
  ASSUME NEW l \in Local
  PROVE  /\ \A T \in SUBSET Clients : ToFind(l, T) \in Local
         /\ \A c \in Clients : ToCreate(l, c) \in Local
         /\ \A c \in Clients, s \in rows \X Row : ToReopen(l, c, s) \in Local
         /\ \A S \in SUBSET rows : /\ ToResolve(l, S) \in Local
                                   /\ ToSmtp(l, S) \in Local
                                   /\ [l EXCEPT !.ids = S] \in Local
                                   /\ [l EXCEPT !.batch = S] \in Local
         /\ \A S \in SUBSET rows, t \in Time : ToSend(l, S, t) \in Local
         /\ ToAck(l) \in Local /\ [l EXCEPT !.pc = "mark"] \in Local
<1>1. \A T \in SUBSET Clients : ToFind(l, T) \in Local
  <2> SUFFICES ASSUME NEW T \in SUBSET Clients PROVE ToFind(l, T) \in Local
    OBVIOUS
  <2>1. LocalOf("find", l.auto, l.now, l.pending, l.queried, T, {}, {}, l.ids,
                l.batch) \in Local
    BY DEF LocalOf, Local, Points
  <2>2. QED
    BY <2>1, LocalEdits
<1>2. \A c \in Clients : ToCreate(l, c) \in Local
  <2> SUFFICES ASSUME NEW c \in Clients PROVE ToCreate(l, c) \in Local
    OBVIOUS
  <2>1. {c} \in SUBSET Clients /\ l.todo \ {c} \in SUBSET Clients
    BY DEF Local
  <2>2. LocalOf("create", l.auto, l.now, l.pending, l.queried, l.todo \ {c}, {c},
                l.seen, l.ids, l.batch) \in Local
    BY <2>1 DEF LocalOf, Local, Points
  <2>3. QED
    BY <2>2, LocalEdits
<1>3. \A c \in Clients, s \in rows \X Row : ToReopen(l, c, s) \in Local
  <2> SUFFICES ASSUME NEW c \in Clients, NEW s \in rows \X Row
               PROVE  ToReopen(l, c, s) \in Local
    OBVIOUS
  <2>1. {s} \in SUBSET (rows \X Row) /\ l.todo \ {c} \in SUBSET Clients
    BY DEF Local
  <2>2. QED
    BY <2>1, LocalEdits DEF LocalOf, Local, Points
<1>4. \A S \in SUBSET rows : ToResolve(l, S) \in Local /\ ToSmtp(l, S) \in Local
  <2> SUFFICES ASSUME NEW S \in SUBSET rows
               PROVE  ToResolve(l, S) \in Local /\ ToSmtp(l, S) \in Local
    OBVIOUS
  <2>1. /\ LocalOf("resolve", l.auto, l.now, l.pending, l.queried, l.todo, l.cur,
                   l.seen, S, l.batch) \in Local
        /\ LocalOf("smtp", l.auto, l.now, l.pending, l.queried, l.todo, l.cur,
                   l.seen, l.ids, S) \in Local
    BY DEF LocalOf, Local, Points
  <2>2. QED
    BY <2>1, LocalEdits
<1>5. \A S \in SUBSET rows, t \in Time : ToSend(l, S, t) \in Local
  BY LocalEdits DEF LocalOf, Local, Points
<1>6. ToAck(l) \in Local
  BY LocalEdits DEF LocalOf, Local, Points
<1>7. /\ \A S \in SUBSET rows : /\ [l EXCEPT !.ids = S] \in Local
                                /\ [l EXCEPT !.batch = S] \in Local
      /\ [l EXCEPT !.pc = "mark"] \in Local
  BY DEF Local, Points
<1>8. QED
  BY <1>1, <1>2, <1>3, <1>4, <1>5, <1>6, <1>7

\* Locals mention only rows that exist, and rows are never deleted.
LEMMA LocalGrows ==
  ASSUME rows \subseteq rows'
  PROVE  Local \subseteq Local'
BY DEF Local, Row

----------------------------------------------------------------------------
(* Type correctness *)

\* TypeOK is inductive.
THEOREM TypeCorrect == Spec => []TypeOK
<1> USE ConstantsAssumption
<1>1. Init => TypeOK
  <2> SUFFICES ASSUME Init PROVE TypeOK
    OBVIOUS
  <2>1. Idle \in Local
    BY DEF Idle, Local, Points, Time, ConstantsAssumption
  <2>2. QED
    BY <2>1 DEF Init, TypeOK, rows, Time, Date, Never, ConstantsAssumption
<1>2. TypeOK /\ [Next]_vars => TypeOK'
  <2> SUFFICES ASSUME TypeOK, [Next]_vars PROVE TypeOK'
    OBVIOUS
  <2>t. /\ clock \in Time /\ rows \subseteq AlertIds /\ alert \in [rows -> Row]
        /\ run \in [Runs -> Local] /\ lastMail \in [AlertIds -> Date]
        /\ early \subseteq AlertIds
    BY DEF TypeOK
  <2>a. \A r \in Runs : /\ run[r] \in Local /\ run[r].todo \in SUBSET Clients
                        /\ run[r].now \in Date /\ run[r].batch \subseteq AlertIds
    BY <2>t DEF Local, Date
  <2>i. Idle \in Local
    BY DEF Idle, Local, Points, Time, ConstantsAssumption
  \* a step that changes one row and one request's locals
  <2>w. ASSUME NEW a \in rows, NEW row \in Row, SetRow(a, row),
               UNCHANGED <<clock, lastMail, early>>,
               \/ run' = run
               \/ \E r \in Runs, l \in Local : Goto(r, l)
        PROVE  TypeOK'
    <3>1. rows' = rows /\ alert' \in [rows' -> Row]
      BY <2>t, <2>w DEF SetRow, rows
    <3>2. Local' = Local
      BY <3>1 DEF Local, Row
    <3>3. run' \in [Runs -> Local]
      BY <2>t, <2>w DEF Goto
    <3>4. QED
      BY <2>t, <2>w, <3>1, <3>2, <3>3 DEF TypeOK, Row
  \* a step that changes one request's locals only
  <2>l. ASSUME NEW r \in Runs, NEW l \in Local, Goto(r, l),
               UNCHANGED <<clock, alert, lastMail, early>>
        PROVE  TypeOK'
    BY <2>t, <2>l DEF Goto, TypeOK, rows, Local, Row
  <2>1. CASE Tick
    BY <2>1, <2>t DEF Tick, TypeOK, rows, Local, Row, Time, ConstantsAssumption
  <2>2. CASE User
    <3>1. ASSUME NEW a \in rows, NEW u \in Users \cup {System}, Acknowledge(a, u)
          PROVE  TypeOK'
      BY <3>1, <2>t, <2>w, RowTypes DEF Acknowledge
    <3>2. ASSUME NEW a \in rows, NEW m \in SuppressMins, Suppress(a, m) PROVE TypeOK'
      <4>1. clock + m \in Int
        BY <2>t DEF Time, ConstantsAssumption
      <4>2. QED
        BY <3>2, <4>1, <2>t, <2>w, RowTypes DEF Suppress
    <3>3. QED
      BY <2>2, <3>1, <3>2 DEF User
  <2>s. ASSUME NEW r \in Runs, NEW pc \in Points, NEW auto \in BOOLEAN,
               NEW P \in SUBSET Clients, NEW Q \in SUBSET Clients,
               NEW S \in SUBSET rows, Start(r, pc, auto, P, Q, S),
               UNCHANGED <<clock, alert, lastMail, early>>
        PROVE  TypeOK'
    BY <2>s, <2>t, <2>l DEF Start, Local
  <2>3. ASSUME NEW r \in Runs, RefreshAll(r) PROVE TypeOK'
    <3>1. PICK failed \in SUBSET Unreachable :
            \E P \in SUBSET (Clients \ failed) :
              Start(r, "find", TRUE, P, Clients \ failed, {})
      BY <2>3 DEF RefreshAll
    <3>2. PICK P \in SUBSET (Clients \ failed) :
            Start(r, "find", TRUE, P, Clients \ failed, {})
      BY <3>1
    <3>3. P \in SUBSET Clients /\ Clients \ failed \in SUBSET Clients
      OBVIOUS
    <3>4. "find" \in Points /\ TRUE \in BOOLEAN /\ {} \in SUBSET rows
      BY DEF Points
    <3>5. QED
      BY <2>3, <2>s, <3>2, <3>3, <3>4 DEF RefreshAll
  <2>4. ASSUME NEW r \in Runs, NEW c \in Clients,
               RefreshOneStale(r, c) \/ RefreshOneClear(r, c)
        PROVE TypeOK'
    <3>1. {c} \in SUBSET Clients /\ Active(c) \in SUBSET rows
          /\ {} \in SUBSET Clients /\ {} \in SUBSET rows
          /\ "find" \in Points /\ "clear" \in Points
          /\ TRUE \in BOOLEAN /\ FALSE \in BOOLEAN
      BY DEF Active, Points
    <3>2. CASE RefreshOneStale(r, c)
      BY <2>s, <3>1, <3>2 DEF RefreshOneStale
    <3>3. CASE RefreshOneClear(r, c)
      BY <2>s, <3>1, <3>3 DEF RefreshOneClear
    <3>4. QED
      BY <2>4, <3>2, <3>3
  <2>5. ASSUME NEW r \in Runs, NEW S \in SUBSET rows, Notify(r, S) PROVE TypeOK'
    BY <2>5, <2>s DEF Notify, Points
  <2>6. ASSUME NEW r \in Runs, NEW c \in Clients, FindNone(r, c) PROVE TypeOK'
    BY <2>6, <2>t, <2>l, LocalTypes DEF FindNone
  <2>7. ASSUME NEW r \in Runs, NEW c \in Clients, FindExisting(r, c) PROVE TypeOK'
    <3>1. PICK a \in NewestActive(c) :
            \/ Goto(r, ToReopen(run[r], c, <<a, alert[a]>>))
            \/ Goto(r, ToFind(run[r], run[r].todo \ {c}))
      BY <2>7 DEF FindExisting
    <3>2. /\ run[r] \in Local /\ run[r].todo \ {c} \in SUBSET Clients
          /\ <<a, alert[a]>> \in rows \X Row
      BY <2>t DEF Local, NewestActive, Active
    <3>3. /\ ToReopen(run[r], c, <<a, alert[a]>>) \in Local
          /\ ToFind(run[r], run[r].todo \ {c}) \in Local
      BY <3>2, LocalTypes
    <3>4. QED
      BY <2>7, <2>l, <3>1, <3>3 DEF FindExisting
  <2>8. ASSUME NEW r \in Runs, Create(r) PROVE TypeOK'
    <3>1. PICK a \in AlertIds \ rows, c \in run[r].cur :
            alert' = [b \in rows \cup {a} |->
                        IF b = a THEN NewRow(c, run[r].now) ELSE alert[b]]
      BY <2>8 DEF Create
    <3>2. NewRow(c, run[r].now) \in Row
      <4>1. c \in Clients /\ run[r].now \in Time
        BY <2>t DEF Local
      <4>2. QED
        BY <4>1 DEF NewRow, Row, Status, Date, Never
    <3>3. rows' = rows \cup {a} /\ alert' \in [rows' -> Row]
      BY <2>t, <3>1, <3>2 DEF rows
    <3>4. ToFind(run[r], run[r].todo) \in Local
      BY <2>t, <2>a, LocalTypes
    <3>5. run' \in [Runs -> Local']
      BY <2>8, <2>t, <3>3, <3>4, LocalGrows DEF Create, Goto
    <3>6. QED
      BY <2>8, <2>t, <3>3, <3>5 DEF Create, TypeOK, Row
  <2>9. ASSUME NEW r \in Runs, Reopen(r) PROVE TypeOK'
    <3>1. PICK s \in run[r].seen : SetRow(s[1], Reopened(alert[s[1]], s[2]))
      BY <2>9 DEF Reopen
    <3>2. s[1] \in rows
      BY <2>t DEF Local
    <3>3. Reopened(alert[s[1]], s[2]) \in Row
      BY <2>t, <3>2, RowTypes
    <3>4. ToFind(run[r], run[r].todo) \in Local
      BY <2>t, <2>a, LocalTypes
    <3>5. QED
      BY <2>9, <3>1, <3>2, <3>3, <3>4, <2>w DEF Reopen
  <2>10. ASSUME NEW r \in Runs, ListUnresolved(r) PROVE TypeOK'
    <3>1. {a \in Unresolved : alert[a].client \notin run[r].pending} \in SUBSET rows
      BY DEF Unresolved
    <3>2. QED
      BY <2>10, <2>t, <2>l, <3>1, LocalTypes DEF ListUnresolved
  <2>11. ASSUME NEW r \in Runs, Resolve(r) PROVE TypeOK'
    <3>1. PICK a \in run[r].ids :
            /\ SetRow(a, ResolvedRow(alert[a], run[r].now))
            /\ \/ Finish(r)
               \/ Goto(r, [run[r] EXCEPT !.ids = run[r].ids \ {a}])
      BY <2>11 DEF Resolve
    <3>2. a \in rows /\ run[r].now \in Time /\ run[r].ids \ {a} \in SUBSET rows
      BY <2>t DEF Local
    <3>3. /\ ResolvedRow(alert[a], run[r].now) \in Row
          /\ [run[r] EXCEPT !.ids = run[r].ids \ {a}] \in Local
      BY <2>t, <3>2, RowTypes, LocalTypes
    <3>4. QED
      BY <2>11, <2>w, <2>i, <3>1, <3>2, <3>3 DEF Resolve, Finish
  <2>12. ASSUME NEW r \in Runs, AutoEligible(r) PROVE TypeOK'
    <3>1. Eligible \in SUBSET rows
      BY DEF Eligible, Unresolved
    <3>2. ToSend(run[r], Eligible, clock) \in Local
      BY <2>t, <3>1, LocalTypes
    <3>3. QED
      BY <2>12, <2>l, <2>i, <3>2 DEF AutoEligible, Finish
  <2>13. ASSUME NEW r \in Runs, SendSelect(r) PROVE TypeOK'
    <3>1. ToMail(r) \in SUBSET rows
      BY DEF ToMail, Unresolved
    <3>2. ToSmtp(run[r], ToMail(r)) \in Local
      BY <2>t, <3>1, LocalTypes
    <3>3. QED
      BY <2>13, <2>l, <2>i, <3>2 DEF SendSelect, Finish
  <2>14. ASSUME NEW r \in Runs, SendFails(r) \/ Fail(r) PROVE TypeOK'
    BY <2>14, <2>l, <2>i DEF SendFails, Fail, Finish
  <2>15. ASSUME NEW r \in Runs, SendMail(r) PROVE TypeOK'
    <3>1. [run[r] EXCEPT !.pc = "mark"] \in Local /\ run[r].batch \subseteq AlertIds
          /\ run[r].now \in Date
      BY <2>t, <2>a, LocalTypes
    <3>2. /\ lastMail' \in [AlertIds -> Date] /\ early' \subseteq AlertIds
          /\ run' \in [Runs -> Local]
      BY <2>15, <2>t, <3>1 DEF SendMail, Goto
    <3>3. QED
      BY <2>15, <2>t, <3>2 DEF SendMail, TypeOK, rows, Local, Row
  <2>16. ASSUME NEW r \in Runs, Mark(r) PROVE TypeOK'
    <3>1. PICK a \in run[r].batch :
            /\ SetRow(a, MailedRow(alert[a], run[r].now))
            /\ \/ Finish(r) \/ Goto(r, ToAck(run[r]))
               \/ Goto(r, [run[r] EXCEPT !.batch = run[r].batch \ {a}])
      BY <2>16 DEF Mark
    <3>2. a \in rows /\ run[r].now \in Time /\ run[r].batch \ {a} \in SUBSET rows
      BY <2>t DEF Local
    <3>3. /\ MailedRow(alert[a], run[r].now) \in Row /\ ToAck(run[r]) \in Local
          /\ [run[r] EXCEPT !.batch = run[r].batch \ {a}] \in Local
      BY <2>t, <3>2, RowTypes, LocalTypes
    <3>4. QED
      BY <2>16, <2>w, <2>i, <3>1, <3>2, <3>3 DEF Mark, Finish
  <2>17. ASSUME NEW r \in Runs, AutoAck(r) PROVE TypeOK'
    <3>1. PICK a \in run[r].ids :
            /\ SetRow(a, AckedRow(alert[a], System, clock))
            /\ \/ Finish(r)
               \/ Goto(r, [run[r] EXCEPT !.ids = run[r].ids \ {a}])
      BY <2>17 DEF AutoAck
    <3>2. a \in rows /\ run[r].ids \ {a} \in SUBSET rows
      BY <2>t DEF Local
    <3>3. /\ AckedRow(alert[a], System, clock) \in Row
          /\ [run[r] EXCEPT !.ids = run[r].ids \ {a}] \in Local
      BY <2>t, <3>2, RowTypes, LocalTypes
    <3>4. QED
      BY <2>17, <2>w, <2>i, <3>1, <3>2, <3>3 DEF AutoAck, Finish
  <2>18. CASE UNCHANGED vars
    BY <2>18, <2>t DEF vars, TypeOK, rows, Local, Row
  <2>19. QED
    BY <2>1, <2>2, <2>3, <2>4, <2>5, <2>6, <2>7, <2>8, <2>9, <2>10, <2>11,
       <2>12, <2>13, <2>14, <2>15, <2>16, <2>17, <2>18
       DEF Next, Step, Arrive
<1>3. QED
  BY <1>1, <1>2, PTL DEF Spec

----------------------------------------------------------------------------
(* What a step does to the rows that exist *)

\* A row that is resolved stays resolved, one that was e-mailed stays so, and
\* it remains the alert of the same client.
Keeps(x, y) ==
  /\ x.resolvedAt # Never => y.resolvedAt # Never
  /\ x.emailAt # Never => y.emailAt # Never
  /\ y.client = x.client

LEMMA RowKeeps ==
  ASSUME NEW x \in Row
  PROVE  /\ Keeps(x, x)
         /\ \A t \in Time : Keeps(x, ResolvedRow(x, t)) /\ Keeps(x, MailedRow(x, t))
         /\ \A t, u : Keeps(x, AckedRow(x, u, t))
         /\ \A t : Keeps(x, SuppressedRow(x, t))
         /\ \A y : Keeps(x, Reopened(x, y))
<1>1. \A t \in Time : t # Never
  BY ConstantsAssumption DEF Time, Never, ConstantsAssumption
<1>2. \A t \in Time : Keeps(x, ResolvedRow(x, t)) /\ Keeps(x, MailedRow(x, t))
  BY <1>1, RowEdits DEF RowOf, Keeps
<1>3. \A t, u : Keeps(x, AckedRow(x, u, t)) /\ Keeps(x, SuppressedRow(x, t))
  BY RowEdits DEF RowOf, Keeps
<1>4. \A y : Keeps(x, Reopened(x, y))
  BY RowEdits DEF RowOf, Keeps
<1>5. Keeps(x, x)
  BY DEF Keeps
<1>6. QED
  BY <1>2, <1>3, <1>4, <1>5

\* What a step may do to the table.
RowsEffect ==
  /\ rows \subseteq rows'
  /\ \A a \in rows : Keeps(alert[a], alert'[a])

LEMMA StepOnRows == TypeOK /\ [Next]_vars => RowsEffect
<1> SUFFICES ASSUME TypeOK, [Next]_vars PROVE RowsEffect
  OBVIOUS
<1>t. /\ alert \in [rows -> Row] /\ clock \in Time
      /\ \A r \in Runs : /\ run[r] \in Local /\ run[r].now \in Time
                         /\ run[r].ids \subseteq rows /\ run[r].batch \subseteq rows
                         /\ \A s \in run[r].seen : s[1] \in rows
  BY DEF TypeOK, Local
<1>k. ASSUME UNCHANGED alert PROVE RowsEffect
  BY <1>k, <1>t, RowKeeps DEF RowsEffect, rows
<1>w. ASSUME NEW a \in rows, NEW row, SetRow(a, row), Keeps(alert[a], row)
      PROVE  RowsEffect
  <2>1. /\ rows' = rows /\ alert'[a] = row
        /\ \A b \in rows \ {a} : alert'[b] = alert[b]
    BY <1>t, <1>w DEF SetRow, rows
  <2>2. \A b \in rows : Keeps(alert[b], alert'[b])
    BY <1>t, <1>w, <2>1, RowKeeps
  <2>3. QED
    BY <2>1, <2>2 DEF RowsEffect
<1>1. CASE User
  <2>1. ASSUME NEW a \in rows, NEW u, Acknowledge(a, u) PROVE RowsEffect
    BY <2>1, <1>t, <1>w, RowKeeps DEF Acknowledge
  <2>2. ASSUME NEW a \in rows, NEW m \in SuppressMins, Suppress(a, m) PROVE RowsEffect
    BY <2>2, <1>t, <1>w, RowKeeps DEF Suppress
  <2>3. QED
    BY <1>1, <2>1, <2>2 DEF User
<1>2. ASSUME NEW r \in Runs, Create(r) PROVE RowsEffect
  <2>1. PICK a \in AlertIds \ rows, c \in run[r].cur :
          alert' = [b \in rows \cup {a} |->
                      IF b = a THEN NewRow(c, run[r].now) ELSE alert[b]]
    BY <1>2 DEF Create
  <2>2. rows' = rows \cup {a} /\ \A b \in rows : alert'[b] = alert[b]
    BY <2>1 DEF rows
  <2>3. QED
    BY <1>t, <2>2, RowKeeps DEF RowsEffect
<1>3. ASSUME NEW r \in Runs, Reopen(r) PROVE RowsEffect
  <2>1. PICK s \in run[r].seen : SetRow(s[1], Reopened(alert[s[1]], s[2]))
    BY <1>3 DEF Reopen
  <2>2. s[1] \in rows /\ alert[s[1]] \in Row
    BY <1>t
  <2>3. QED
    BY <2>1, <2>2, <1>w, RowKeeps
<1>4. ASSUME NEW r \in Runs, Resolve(r) PROVE RowsEffect
  BY <1>4, <1>t, <1>w, RowKeeps DEF Resolve
<1>5. ASSUME NEW r \in Runs, Mark(r) PROVE RowsEffect
  BY <1>5, <1>t, <1>w, RowKeeps DEF Mark
<1>6. ASSUME NEW r \in Runs, AutoAck(r) PROVE RowsEffect
  BY <1>6, <1>t, <1>w, RowKeeps DEF AutoAck
<1>7. QED
  BY <1>k, <1>1, <1>2, <1>3, <1>4, <1>5, <1>6
     DEF Next, Step, Arrive, Tick, Fail, FindNone, FindExisting, ListUnresolved,
         AutoEligible, SendSelect, SendFails, SendMail, RefreshAll,
         RefreshOneStale, RefreshOneClear, Notify, vars

\* A resolved alert never becomes active again.
THEOREM ResolvedForGood == Spec => ResolutionIsFinal
<1>1. TypeOK /\ [Next]_vars =>
        [\A a \in rows : /\ a \in DOMAIN alert'
                         /\ alert[a].resolvedAt # Never => alert'[a].resolvedAt # Never]_vars
  BY StepOnRows DEF RowsEffect, Keeps, rows
<1>2. QED
  BY <1>1, TypeCorrect, PTL DEF Spec, ResolutionIsFinal

----------------------------------------------------------------------------
(* The locals a handler has at its next suspension point, field by field *)

LEMMA LocalPoints ==
  ASSUME NEW l \in Local
  PROVE  /\ \A T : ToFind(l, T).pc = "find"
         /\ \A c : ToCreate(l, c).pc = "create"
         /\ \A c, s : ToReopen(l, c, s).pc = "reopen"
         /\ \A S : ToResolve(l, S).pc = "resolve"
         /\ \A S : ToSmtp(l, S).pc = "smtp"
         /\ \A S, t : ToSend(l, S, t).pc = "send"
<1>1. ASSUME NEW T PROVE ToFind(l, T).pc = "find"
  <2>1. ToFind(l, T) = LocalOf("find", l.auto, l.now, l.pending, l.queried, T,
                               {}, {}, l.ids, l.batch)
    BY LocalEdits, ZenonT(30)
  <2>2. QED
    BY <2>1 DEF LocalOf
<1>2. ASSUME NEW c PROVE ToCreate(l, c).pc = "create"
  <2>1. ToCreate(l, c) = LocalOf("create", l.auto, l.now, l.pending, l.queried,
                                 l.todo \ {c}, {c}, l.seen, l.ids, l.batch)
    BY LocalEdits, ZenonT(30)
  <2>2. QED
    BY <2>1 DEF LocalOf
<1>3. ASSUME NEW c, NEW s PROVE ToReopen(l, c, s).pc = "reopen"
  <2>1. ToReopen(l, c, s) = LocalOf("reopen", l.auto, l.now, l.pending, l.queried,
                                    l.todo \ {c}, l.cur, {s}, l.ids, l.batch)
    BY LocalEdits, ZenonT(30)
  <2>2. QED
    BY <2>1 DEF LocalOf
<1>4. ASSUME NEW S PROVE ToResolve(l, S).pc = "resolve"
  <2>1. ToResolve(l, S) = LocalOf("resolve", l.auto, l.now, l.pending, l.queried,
                                  l.todo, l.cur, l.seen, S, l.batch)
    BY LocalEdits, ZenonT(30)
  <2>2. QED
    BY <2>1 DEF LocalOf
<1>5. ASSUME NEW S PROVE ToSmtp(l, S).pc = "smtp"
  <2>1. ToSmtp(l, S) = LocalOf("smtp", l.auto, l.now, l.pending, l.queried,
                               l.todo, l.cur, l.seen, l.ids, S)
    BY LocalEdits, ZenonT(30)
  <2>2. QED
    BY <2>1 DEF LocalOf
<1>6. ASSUME NEW S, NEW t PROVE ToSend(l, S, t).pc = "send"
  <2>1. ToSend(l, S, t) = LocalOf("send", l.auto, t, l.pending, l.queried,
                                  l.todo, l.cur, l.seen, S, l.batch)
    BY LocalEdits, ZenonT(30)
  <2>2. QED
    BY <2>1 DEF LocalOf
<1>7. QED
  BY <1>1, <1>2, <1>3, <1>4, <1>5, <1>6

\* Pass(m, l): the locals m belong to the same pass over the table as l.
Pass(m, l) ==
  /\ m.auto = l.auto /\ m.now = l.now /\ m.pending = l.pending
  /\ m.queried = l.queried

LEMMA FindFields ==
  ASSUME NEW l \in Local, NEW S
  PROVE  LET m == ToFind(l, S)
         IN  /\ Pass(m, l) /\ m.pc = "find" /\ m.todo = S /\ m.cur = {}
             /\ m.seen = {} /\ m.ids = l.ids /\ m.batch = l.batch
<1>1. ToFind(l, S) =
        LocalOf("find", l.auto, l.now, l.pending, l.queried,
                S, {}, {}, l.ids, l.batch)
  BY LocalEdits, ZenonT(30)
<1>2. QED
  BY <1>1 DEF LocalOf, Pass

LEMMA CreateFields ==
  ASSUME NEW l \in Local, NEW c
  PROVE  LET m == ToCreate(l, c)
         IN  /\ Pass(m, l) /\ m.pc = "create" /\ m.todo = l.todo \ {c}
             /\ m.cur = {c} /\ m.seen = l.seen /\ m.ids = l.ids
             /\ m.batch = l.batch
<1>1. ToCreate(l, c) =
        LocalOf("create", l.auto, l.now, l.pending, l.queried,
                l.todo \ {c}, {c}, l.seen, l.ids, l.batch)
  BY LocalEdits, ZenonT(30)
<1>2. QED
  BY <1>1 DEF LocalOf, Pass

LEMMA ReopenFields ==
  ASSUME NEW l \in Local, NEW c, NEW s
  PROVE  LET m == ToReopen(l, c, s)
         IN  /\ Pass(m, l) /\ m.pc = "reopen" /\ m.todo = l.todo \ {c}
             /\ m.cur = l.cur /\ m.seen = {s} /\ m.ids = l.ids
             /\ m.batch = l.batch
<1>1. ToReopen(l, c, s) =
        LocalOf("reopen", l.auto, l.now, l.pending, l.queried,
                l.todo \ {c}, l.cur, {s}, l.ids, l.batch)
  BY LocalEdits, ZenonT(30)
<1>2. QED
  BY <1>1 DEF LocalOf, Pass

LEMMA ResolveFields ==
  ASSUME NEW l \in Local, NEW S
  PROVE  LET m == ToResolve(l, S)
         IN  /\ Pass(m, l) /\ m.pc = "resolve" /\ m.todo = l.todo
             /\ m.cur = l.cur /\ m.seen = l.seen /\ m.ids = S
             /\ m.batch = l.batch
<1>1. ToResolve(l, S) =
        LocalOf("resolve", l.auto, l.now, l.pending, l.queried,
                l.todo, l.cur, l.seen, S, l.batch)
  BY LocalEdits, ZenonT(30)
<1>2. QED
  BY <1>1 DEF LocalOf, Pass

LEMMA SendFields ==
  ASSUME NEW l \in Local, NEW S, NEW t
  PROVE  LET m == ToSend(l, S, t)
         IN  /\ m.auto = l.auto /\ m.now = t /\ m.pending = l.pending
             /\ m.queried = l.queried /\ m.pc = "send"
             /\ m.todo = l.todo /\ m.cur = l.cur /\ m.seen = l.seen
             /\ m.ids = S /\ m.batch = l.batch
<1>1. ToSend(l, S, t) =
        LocalOf("send", l.auto, t, l.pending, l.queried,
                l.todo, l.cur, l.seen, S, l.batch)
  BY LocalEdits, ZenonT(30)
<1>2. QED
  BY <1>1 DEF LocalOf, Pass

LEMMA SmtpFields ==
  ASSUME NEW l \in Local, NEW S
  PROVE  LET m == ToSmtp(l, S)
         IN  /\ Pass(m, l) /\ m.pc = "smtp" /\ m.todo = l.todo
             /\ m.cur = l.cur /\ m.seen = l.seen /\ m.ids = l.ids
             /\ m.batch = S
<1>1. ToSmtp(l, S) =
        LocalOf("smtp", l.auto, l.now, l.pending, l.queried,
                l.todo, l.cur, l.seen, l.ids, S)
  BY LocalEdits, ZenonT(30)
<1>2. QED
  BY <1>1 DEF LocalOf, Pass

LEMMA AckFields ==
  ASSUME NEW l \in Local
  PROVE  LET m == ToAck(l)
         IN  /\ Pass(m, l) /\ m.pc = "ack" /\ m.todo = l.todo
             /\ m.cur = l.cur /\ m.seen = l.seen /\ m.ids = l.ids
             /\ m.batch = {}
<1>1. ToAck(l) =
        LocalOf("ack", l.auto, l.now, l.pending, l.queried,
                l.todo, l.cur, l.seen, l.ids, {})
  BY LocalEdits, ZenonT(30)
<1>2. QED
  BY <1>1 DEF LocalOf, Pass

LEMMA EditFields ==
  ASSUME NEW l \in Local, NEW S
  PROVE  /\ LET m == [l EXCEPT !.ids = S]
            IN  /\ Pass(m, l) /\ m.pc = l.pc /\ m.todo = l.todo /\ m.cur = l.cur
                /\ m.seen = l.seen /\ m.ids = S /\ m.batch = l.batch
         /\ LET m == [l EXCEPT !.batch = S]
            IN  /\ Pass(m, l) /\ m.pc = l.pc /\ m.todo = l.todo /\ m.cur = l.cur
                /\ m.seen = l.seen /\ m.ids = l.ids /\ m.batch = S
         /\ LET m == [l EXCEPT !.pc = "mark"]
            IN  /\ Pass(m, l) /\ m.pc = "mark" /\ m.todo = l.todo /\ m.cur = l.cur
                /\ m.seen = l.seen /\ m.ids = l.ids /\ m.batch = l.batch
BY DEF Local, Pass

LEMMA StartFields ==
  ASSUME TypeOK, NEW r \in Runs, NEW pc, NEW auto, NEW P, NEW Q, NEW S,
         Start(r, pc, auto, P, Q, S)
  PROVE  LET m == run'[r]
         IN  /\ m.pc = pc /\ m.auto = auto /\ m.now = clock /\ m.pending = P
             /\ m.todo = P /\ m.cur = {} /\ m.seen = {} /\ m.ids = S
             /\ m.batch = {}
BY DEF Start, Goto, TypeOK

----------------------------------------------------------------------------
(* Episodes: when an alert of a client began and when it was resolved *)

SameEpisode(x, y) ==
  y.client = x.client /\ y.firstSeen = x.firstSeen /\ y.resolvedAt = x.resolvedAt

\* The rows are the same, and so are their episodes.
SameEpisodes(t, u) ==
  DOMAIN u = DOMAIN t /\ \A a \in DOMAIN t : SameEpisode(t[a], u[a])

\* The stamps of the e-mails are the same.
SameMails(t, u) == \A a \in DOMAIN t : u[a].emailAt = t[a].emailAt

LEMMA RowEpisode ==
  ASSUME NEW x \in Row
  PROVE  /\ \A t : /\ ResolvedRow(x, t).client = x.client
                   /\ ResolvedRow(x, t).firstSeen = x.firstSeen
                   /\ ResolvedRow(x, t).resolvedAt = t
                   /\ ResolvedRow(x, t).emailAt = x.emailAt
         /\ \A t : /\ SameEpisode(x, MailedRow(x, t))
                   /\ MailedRow(x, t).emailAt = t
         /\ \A u, t : /\ SameEpisode(x, AckedRow(x, u, t))
                      /\ AckedRow(x, u, t).emailAt = x.emailAt
         /\ \A t : /\ SameEpisode(x, SuppressedRow(x, t))
                   /\ SuppressedRow(x, t).emailAt = x.emailAt
         /\ \A y : /\ SameEpisode(x, Reopened(x, y))
                   /\ Reopened(x, y).emailAt = x.emailAt
<1>1. \A t : /\ ResolvedRow(x, t).client = x.client
             /\ ResolvedRow(x, t).firstSeen = x.firstSeen
             /\ ResolvedRow(x, t).resolvedAt = t
             /\ ResolvedRow(x, t).emailAt = x.emailAt
  BY RowEdits DEF RowOf
<1>2. \A t : SameEpisode(x, MailedRow(x, t)) /\ MailedRow(x, t).emailAt = t
  BY RowEdits DEF RowOf, SameEpisode
<1>3. \A u, t : /\ SameEpisode(x, AckedRow(x, u, t))
                /\ AckedRow(x, u, t).emailAt = x.emailAt
  BY RowEdits DEF RowOf, SameEpisode
<1>4. \A t : /\ SameEpisode(x, SuppressedRow(x, t))
             /\ SuppressedRow(x, t).emailAt = x.emailAt
  BY RowEdits DEF RowOf, SameEpisode
<1>5. \A y : /\ SameEpisode(x, Reopened(x, y))
             /\ Reopened(x, y).emailAt = x.emailAt
  BY RowEdits DEF RowOf, SameEpisode
<1>6. QED
  BY <1>1, <1>2, <1>3, <1>4, <1>5

\* One row written, the others untouched.
LEMMA OneRow ==
  ASSUME TypeOK, NEW a \in rows, NEW row, SetRow(a, row)
  PROVE  /\ rows' = rows /\ alert'[a] = row
         /\ \A b \in rows \ {a} : alert'[b] = alert[b]
BY DEF TypeOK, SetRow, rows

LEMMA CreateRow ==
  ASSUME TypeOK, NEW r \in Runs, Create(r)
  PROVE  \E a \in AlertIds \ rows, c \in run[r].cur :
           /\ rows' = rows \cup {a} /\ alert'[a] = NewRow(c, run[r].now)
           /\ \A b \in rows : alert'[b] = alert[b]
<1>1. PICK a \in AlertIds \ rows, c \in run[r].cur :
        alert' = [b \in rows \cup {a} |->
                    IF b = a THEN NewRow(c, run[r].now) ELSE alert[b]]
  BY DEF Create
<1>2. /\ rows' = rows \cup {a} /\ alert'[a] = NewRow(c, run[r].now)
      /\ \A b \in rows : alert'[b] = alert[b]
  BY <1>1 DEF rows
<1>3. QED
  BY <1>2

LEMMA ResolveRow ==
  ASSUME TypeOK, NEW r \in Runs, Resolve(r)
  PROVE  \E a \in run[r].ids :
           /\ a \in rows /\ rows' = rows
           /\ alert'[a] = ResolvedRow(alert[a], run[r].now)
           /\ \A b \in rows \ {a} : alert'[b] = alert[b]
           /\ \/ Finish(r)
              \/ Goto(r, [run[r] EXCEPT !.ids = run[r].ids \ {a}])
<1>1. PICK a \in run[r].ids :
        /\ SetRow(a, ResolvedRow(alert[a], run[r].now))
        /\ \/ Finish(r)
           \/ Goto(r, [run[r] EXCEPT !.ids = run[r].ids \ {a}])
  BY DEF Resolve
<1>2. a \in rows
  BY DEF TypeOK, Local
<1>3. QED
  BY <1>1, <1>2, OneRow

LEMMA MarkRow ==
  ASSUME TypeOK, NEW r \in Runs, Mark(r)
  PROVE  \E a \in run[r].batch :
           /\ a \in rows /\ rows' = rows
           /\ alert'[a] = MailedRow(alert[a], run[r].now)
           /\ \A b \in rows \ {a} : alert'[b] = alert[b]
           /\ \/ Goto(r, [run[r] EXCEPT !.batch = run[r].batch \ {a}])
              \/ run[r].batch = {a} /\ run[r].auto /\ Goto(r, ToAck(run[r]))
              \/ run[r].batch = {a} /\ Finish(r)
<1>1. PICK a \in run[r].batch :
        /\ SetRow(a, MailedRow(alert[a], run[r].now))
        /\ \/ Goto(r, [run[r] EXCEPT !.batch = run[r].batch \ {a}])
           \/ run[r].batch = {a} /\ run[r].auto /\ Goto(r, ToAck(run[r]))
           \/ run[r].batch = {a} /\ Finish(r)
  BY DEF Mark
<1>2. a \in rows
  BY DEF TypeOK, Local
<1>3. QED
  BY <1>1, <1>2, OneRow

LEMMA UserRows ==
  ASSUME TypeOK, User
  PROVE  SameEpisodes(alert, alert') /\ SameMails(alert, alert')
<1>1. PICK a \in rows : \/ \E u \in Users \cup {System} : Acknowledge(a, u)
                        \/ \E m \in SuppressMins : Suppress(a, m)
  BY DEF User
<1>2. alert[a] \in Row
  BY DEF TypeOK
<1>3. PICK row : /\ SetRow(a, row) /\ SameEpisode(alert[a], row)
                 /\ row.emailAt = alert[a].emailAt
  BY <1>1, <1>2, RowEpisode DEF Acknowledge, Suppress
<1>4. QED
  BY <1>3, OneRow DEF SameEpisodes, SameEpisode, SameMails, rows

LEMMA StatusRows ==
  ASSUME TypeOK, NEW r \in Runs, Reopen(r) \/ AutoAck(r)
  PROVE  SameEpisodes(alert, alert') /\ SameMails(alert, alert')
<1>t. /\ alert \in [rows -> Row] /\ run[r].ids \subseteq rows
      /\ \A s \in run[r].seen : s[1] \in rows
  BY DEF TypeOK, Local
<1>1. PICK a \in rows : \/ \E s : SetRow(a, Reopened(alert[a], s))
                        \/ SetRow(a, AckedRow(alert[a], System, clock))
  BY <1>t DEF Reopen, AutoAck
<1>2. PICK row : /\ SetRow(a, row) /\ SameEpisode(alert[a], row)
                 /\ row.emailAt = alert[a].emailAt
  BY <1>1, <1>t, RowEpisode
<1>3. QED
  BY <1>2, OneRow DEF SameEpisodes, SameEpisode, SameMails, rows

LEMMA MarkEpisodes ==
  ASSUME TypeOK, NEW r \in Runs, Mark(r)
  PROVE  SameEpisodes(alert, alert')
<1>1. PICK a \in rows : /\ rows' = rows
                        /\ alert'[a] = MailedRow(alert[a], run[r].now)
                        /\ \A b \in rows \ {a} : alert'[b] = alert[b]
  BY MarkRow
<1>2. SameEpisode(alert[a], alert'[a])
  BY <1>1, RowEpisode DEF TypeOK
<1>3. QED
  BY <1>1, <1>2 DEF SameEpisodes, SameEpisode, rows

LEMMA SameRows ==
  ASSUME UNCHANGED alert
  PROVE  SameEpisodes(alert, alert') /\ SameMails(alert, alert')
BY DEF SameEpisodes, SameEpisode, SameMails

\* Only creating and resolving change the episodes.
LEMMA TableStep ==
  ASSUME TypeOK, [Next]_vars
  PROVE  \/ SameEpisodes(alert, alert')
         \/ \E r \in Runs : Create(r) \/ Resolve(r)
BY UserRows, StatusRows, MarkEpisodes, SameRows
   DEF Next, Step, Arrive, Tick, Fail, FindNone, FindExisting, ListUnresolved,
       AutoEligible, SendSelect, SendFails, SendMail, RefreshAll,
       RefreshOneStale, RefreshOneClear, Notify, vars

----------------------------------------------------------------------------
(* An acknowledgement or a suppression is undone only after it has expired *)

Expired(row, t) == SuppressionOver(row, t) \/ AutoAckOver(row, t)

\* A request reopens what it found expired at the time it began with, and that
\* time is not in the future.
SeenInv ==
  \A r \in Runs : /\ run[r].now <= clock
                  /\ \A s \in run[r].seen : Expired(s[2], run[r].now)

\* What has expired stays expired.
LEMMA ExpiredStays ==
  ASSUME NEW x \in Row, NEW t \in Time, NEW u \in Time, t <= u, Expired(x, t)
  PROVE  Expired(x, u)
<1>1. t \in Int /\ u \in Int /\ x.supUntil \in Int
  BY ConstantsAssumption DEF Row, Time, ConstantsAssumption
<1>2. CASE SuppressionOver(x, t)
  BY <1>1, <1>2 DEF SuppressionOver, Expired
<1>3. CASE AutoAckOver(x, t)
  <2>1. x.ackAt \in Int /\ AutoAckMins \in Int
    BY ConstantsAssumption DEF Row, Time, Date, Never, ConstantsAssumption
  <2>2. QED
    BY <1>1, <1>3, <2>1 DEF AutoAckOver, Expired
<1>4. QED
  BY <1>2, <1>3 DEF Expired

LEMMA SeenStep == TypeOK /\ SeenInv /\ [Next]_vars => SeenInv'
<1> SUFFICES ASSUME TypeOK, SeenInv, [Next]_vars PROVE SeenInv'
  OBVIOUS
<1>t. /\ run \in [Runs -> Local] /\ alert \in [rows -> Row] /\ clock \in Time
      /\ Time \subseteq Int
      /\ \A r \in Runs : /\ run[r] \in Local /\ run[r].now \in Time
                         /\ run[r].seen \subseteq rows \X Row
  BY ConstantsAssumption DEF TypeOK, Local, Time, ConstantsAssumption
<1>d. clock' = clock \/ clock' = clock + 1
  BY DEF Next, Step, Arrive, User, Acknowledge, Suppress, Tick, Fail, FindNone,
     FindExisting, Create, Reopen, ListUnresolved, Resolve, AutoEligible,
     SendSelect, SendFails, SendMail, Mark, AutoAck, RefreshAll,
     RefreshOneStale, RefreshOneClear, Notify, vars
<1>c. clock \in Int /\ clock' \in Int /\ clock <= clock'
  BY <1>d, <1>t
\* the invariant of one request
<1> DEFINE SI(l) == l.now <= clock /\ \A s \in l.seen : Expired(s[2], l.now)
<1>o. \A r \in Runs : SI(run[r])
  BY DEF SeenInv
<1>l. ASSUME NEW l, l.now \in Time, SI(l)
      PROVE  l.now <= clock' /\ \A s \in l.seen : Expired(s[2], l.now)
  <2>1. l.now \in Int
    BY <1>l, <1>t
  <2>2. l.now <= clock'
    BY <1>c, <1>l, <2>1
  <2>3. QED
    BY <1>l, <2>2
<1>g. ASSUME NEW r \in Runs, NEW l, Goto(r, l), l.now \in Time, SI(l) PROVE SeenInv'
  <2>1. \A q \in Runs : run'[q].now \in Time /\ SI(run'[q])
    BY <1>g, <1>o, <1>t DEF Goto
  <2>2. QED
    BY <2>1, <1>l DEF SeenInv
<1>p. ASSUME NEW r \in Runs, NEW l, Goto(r, l), Pass(l, run[r]),
             l.seen \subseteq run[r].seen
      PROVE  SeenInv'
  BY <1>p, <1>g, <1>o, <1>t DEF Pass
<1>f. ASSUME NEW r \in Runs, Finish(r) PROVE SeenInv'
  BY <1>f, <1>g, <1>t, ConstantsAssumption DEF Finish, Idle, Time, ConstantsAssumption
<1>1. CASE UNCHANGED run
  BY <1>1, <1>o, <1>l, <1>t DEF SeenInv
<1>2. ASSUME NEW r \in Runs, Arrive(r) PROVE SeenInv'
  <2>1. ASSUME NEW pc, NEW auto, NEW P, NEW Q, NEW S, Start(r, pc, auto, P, Q, S)
        PROVE  SeenInv'
    <3> DEFINE m == [pc |-> pc, auto |-> auto, now |-> clock, pending |-> P,
                     queried |-> Q, todo |-> P, cur |-> {}, seen |-> {},
                     ids |-> S, batch |-> {}]
    <3>1. Goto(r, m)
      BY <2>1 DEF Start
    <3>2. m.now = clock /\ m.seen = {}
      OBVIOUS
    <3> HIDE DEF m
    <3>3. SI(m) /\ m.now \in Time
      BY <3>2, <1>c, <1>t
    <3>4. QED
      BY <3>1, <3>3, <1>g
  <2>2. QED
    BY <1>2, <2>1 DEF Arrive, RefreshAll, RefreshOneStale, RefreshOneClear, Notify
<1>3. ASSUME NEW r \in Runs, NEW c \in Clients, FindNone(r, c) PROVE SeenInv'
  BY <1>3, <1>p, <1>t, CreateFields DEF FindNone
<1>4. ASSUME NEW r \in Runs, NEW c \in Clients, FindExisting(r, c) PROVE SeenInv'
  <2>1. PICK a \in NewestActive(c) :
          IF Expired(alert[a], run[r].now)
            THEN Goto(r, ToReopen(run[r], c, <<a, alert[a]>>))
            ELSE Goto(r, ToFind(run[r], run[r].todo \ {c}))
    BY <1>4 DEF FindExisting, Expired
  <2>2. CASE Expired(alert[a], run[r].now)
    <3> DEFINE m == ToReopen(run[r], c, <<a, alert[a]>>)
    <3>1. Pass(m, run[r]) /\ m.seen = {<<a, alert[a]>>}
      BY <1>t, ReopenFields
    <3>2. Goto(r, m)
      BY <2>1, <2>2
    <3> HIDE DEF m
    <3>3. SI(m) /\ m.now \in Time
      BY <2>2, <3>1, <1>o, <1>t DEF Pass
    <3>4. QED
      BY <3>2, <3>3, <1>g
  <2>3. CASE ~Expired(alert[a], run[r].now)
    BY <2>1, <2>3, <1>p, <1>t, FindFields
  <2>4. QED
    BY <2>2, <2>3
<1>5. ASSUME NEW r \in Runs, Create(r) \/ Reopen(r) PROVE SeenInv'
  <2>1. Goto(r, ToFind(run[r], run[r].todo))
    BY <1>5 DEF Create, Reopen
  <2>2. QED
    BY <2>1, <1>p, <1>t, FindFields
<1>6. ASSUME NEW r \in Runs, ListUnresolved(r) PROVE SeenInv'
  BY <1>6, <1>p, <1>t, ResolveFields DEF ListUnresolved
<1>7. ASSUME NEW r \in Runs, Resolve(r) \/ AutoAck(r) PROVE SeenInv'
  <2>1. Finish(r) \/ \E S : Goto(r, [run[r] EXCEPT !.ids = S])
    BY <1>7 DEF Resolve, AutoAck
  <2>2. QED
    BY <2>1, <1>p, <1>f, <1>t, EditFields
<1>8. ASSUME NEW r \in Runs, AutoEligible(r) PROVE SeenInv'
  <2> DEFINE m == ToSend(run[r], Eligible, clock)
  <2>1. m.now = clock /\ m.seen = run[r].seen
    BY <1>t, SendFields
  <2>2. Finish(r) \/ Goto(r, m)
    BY <1>8 DEF AutoEligible
  <2> HIDE DEF m
  <2>3. \A s \in m.seen : Expired(s[2], m.now)
    <3>1. ASSUME NEW s \in run[r].seen PROVE Expired(s[2], clock)
      <4>1. s[2] \in Row /\ Expired(s[2], run[r].now) /\ run[r].now <= clock
        BY <1>o, <1>t
      <4>2. QED
        BY <4>1, <1>t, ExpiredStays
    <3>2. QED
      BY <2>1, <3>1
  <2>4. SI(m) /\ m.now \in Time
    BY <2>1, <2>3, <1>t
  <2>5. QED
    BY <2>2, <2>4, <1>g, <1>f
<1>9. ASSUME NEW r \in Runs, SendSelect(r) \/ SendFails(r) \/ Fail(r) PROVE SeenInv'
  BY <1>9, <1>p, <1>f, <1>t, SmtpFields DEF SendSelect, SendFails, Fail
<1>10. ASSUME NEW r \in Runs, SendMail(r) PROVE SeenInv'
  BY <1>10, <1>p, <1>t, EditFields DEF SendMail
<1>11. ASSUME NEW r \in Runs, Mark(r) PROVE SeenInv'
  <2>1. \/ \E S : Goto(r, [run[r] EXCEPT !.batch = S])
        \/ Goto(r, ToAck(run[r])) \/ Finish(r)
    BY <1>11, MarkRow
  <2>2. \A S : LET m == [run[r] EXCEPT !.batch = S]
               IN  Pass(m, run[r]) /\ m.seen = run[r].seen
    BY <1>t, EditFields
  <2>3. QED
    BY <2>1, <2>2, <1>p, <1>f, <1>t, AckFields
<1>12. QED
  BY <1>1, <1>2, <1>3, <1>4, <1>5, <1>6, <1>7, <1>8, <1>9, <1>10, <1>11
     DEF Next, Step, User, Acknowledge, Suppress, Tick, vars

\* An acknowledgement or a suppression that has not expired is undone only by a
\* request that read the row before it was last written, whatever the requests
\* in flight do to each other.
THEOREM ReopenedExpired == Spec => ReopensOnlyExpired
<1>1. Init => SeenInv
  BY ConstantsAssumption DEF Init, SeenInv, Idle, ConstantsAssumption
<1>2. ASSUME TypeOK, SeenInv, [Next]_vars, NEW a \in rows,
             alert[a].status # "OPEN", alert'[a].status = "OPEN",
             alert'[a].resolvedAt = Never
      PROVE  \/ SuppressionOver(alert[a], clock) \/ AutoAckOver(alert[a], clock)
             \/ \E r \in Runs : \E s \in run[r].seen : s[1] = a /\ s[2] # alert[a]
  <2>t. /\ alert \in [rows -> Row] /\ clock \in Time
        /\ \A r \in Runs : /\ run[r].now \in Time /\ run[r].ids \subseteq rows
                           /\ \A s \in run[r].seen : s[1] \in rows
                           /\ run[r].batch \subseteq rows
    BY <1>2 DEF TypeOK, Local
  <2>n. \A t \in Time : t # Never
    BY ConstantsAssumption DEF Time, Never, ConstantsAssumption
  <2>w. ASSUME NEW b \in rows, NEW row, SetRow(b, row)
        PROVE  b = a /\ row = alert'[a]
    BY <1>2, <2>w, OneRow
  <2>1. ASSUME NEW r \in Runs, Reopen(r)
        PROVE  \E s \in run[r].seen : /\ s[1] = a
                                      /\ s[2] = alert[a] => Expired(alert[a], clock)
    <3>1. PICK s \in run[r].seen : SetRow(s[1], Reopened(alert[s[1]], s[2]))
      BY <2>1 DEF Reopen
    <3>2. s[1] = a
      BY <3>1, <2>w, <2>t
    <3>3. s[2] = alert[a] => Expired(alert[a], clock)
      BY <1>2, <2>t, ExpiredStays DEF SeenInv
    <3>4. QED
      BY <3>2, <3>3
  <2>2. ASSUME NEW r \in Runs, Resolve(r) \/ Create(r) PROVE FALSE
    <3>1. CASE Resolve(r)
      <4>1. PICK b \in rows : /\ alert'[b] = ResolvedRow(alert[b], run[r].now)
                              /\ \A d \in rows \ {b} : alert'[d] = alert[d]
        BY <1>2, <3>1, ResolveRow
      <4>2. alert'[b].resolvedAt # Never
        BY <4>1, <2>t, <2>n, RowEpisode
      <4>3. QED
        BY <4>1, <4>2, <1>2
    <3>2. CASE Create(r)
      BY <1>2, <3>2, CreateRow
    <3>3. QED
      BY <2>2, <3>1, <3>2
  <2>3. ASSUME NEW b \in rows, NEW u, NEW t,
               \/ SetRow(b, AckedRow(alert[b], u, t))
               \/ SetRow(b, SuppressedRow(alert[b], t))
               \/ SetRow(b, MailedRow(alert[b], t))
        PROVE  FALSE
    <3>1. /\ AckedRow(alert[b], u, t).status = "ACKNOWLEDGED"
          /\ SuppressedRow(alert[b], t).status = "SUPPRESSED"
          /\ MailedRow(alert[b], t).status = alert[b].status
      BY <2>t, RowEdits DEF RowOf
    <3>2. QED
      BY <1>2, <2>3, <2>w, <3>1
  <2>4. ~ UNCHANGED alert
    BY <1>2
  <2>5. \E r \in Runs : Reopen(r)
    BY <1>2, <2>2, <2>3, <2>4, <2>t
       DEF Next, Step, Arrive, Tick, User, Acknowledge, Suppress, Fail, FindNone,
           FindExisting, ListUnresolved, AutoEligible, SendSelect, SendFails,
           SendMail, Mark, AutoAck, RefreshAll, RefreshOneStale, RefreshOneClear,
           Notify, vars
  <2>6. QED
    BY <2>1, <2>5 DEF Expired
<1>3. TypeOK /\ SeenInv /\ [Next]_vars =>
        [\A a \in rows :
           /\ alert[a].status # "OPEN" /\ alert'[a].status = "OPEN"
           /\ alert'[a].resolvedAt = Never
           => \/ SuppressionOver(alert[a], clock) \/ AutoAckOver(alert[a], clock)
              \/ \E r \in Runs : \E s \in run[r].seen : s[1] = a /\ s[2] # alert[a]]_vars
  BY <1>2
<1>4. QED
  BY <1>1, <1>3, SeenStep, TypeCorrect, PTL DEF Spec, ReopensOnlyExpired

\* What may cut a suppression short, in any number of requests and alerts: a user,
\* the acknowledgement that follows an automatic mail that names the alert, and the
\* reopening by a request that read the row before it was last written.  The first
\* is meant; the other two are all there is to the suppression that does not hold.
THEOREM SuppressionStands ==
  Spec => [][\A a \in Unresolved :
               /\ alert[a].status = "SUPPRESSED" /\ clock < alert[a].supUntil
               /\ alert'[a].resolvedAt = Never /\ alert'[a].status # "SUPPRESSED"
               => \/ User
                  \/ \E r \in Runs : AutoAck(r) /\ a \in run[r].ids
                  \/ \E r \in Runs : /\ Reopen(r)
                                     /\ \E s \in run[r].seen :
                                          s[1] = a /\ s[2] # alert[a]]_vars
<1>1. Init => SeenInv
  BY ConstantsAssumption DEF Init, SeenInv, Idle, ConstantsAssumption
<1>2. ASSUME TypeOK, SeenInv, [Next]_vars, NEW a \in Unresolved,
             alert[a].status = "SUPPRESSED", clock < alert[a].supUntil,
             alert'[a].resolvedAt = Never, alert'[a].status # "SUPPRESSED"
      PROVE  \/ User
             \/ \E r \in Runs : AutoAck(r) /\ a \in run[r].ids
             \/ \E r \in Runs : /\ Reopen(r)
                                /\ \E s \in run[r].seen : s[1] = a /\ s[2] # alert[a]
  <2>t. /\ a \in rows /\ alert \in [rows -> Row] /\ clock \in Time
        /\ \A r \in Runs : /\ run[r].now \in Time /\ run[r].ids \subseteq rows
                           /\ \A s \in run[r].seen : s[1] \in rows
                           /\ run[r].batch \subseteq rows
    BY <1>2 DEF TypeOK, Local, Unresolved
  <2>n. \A t \in Time : t # Never
    BY ConstantsAssumption DEF Time, Never, ConstantsAssumption
  <2>l. ~ Expired(alert[a], clock)
    <3>1. alert[a].supUntil \in Int /\ clock \in Int
      BY <2>t, ConstantsAssumption DEF Row, Time, ConstantsAssumption
    <3>2. QED
      BY <1>2, <3>1 DEF Expired, SuppressionOver, AutoAckOver
  <2>w. ASSUME NEW b \in rows, NEW row, SetRow(b, row)
        PROVE  b = a /\ row = alert'[a]
    BY <1>2, <2>t, <2>w, OneRow
  <2>1. ASSUME NEW r \in Runs, Reopen(r)
        PROVE  \E s \in run[r].seen : s[1] = a /\ s[2] # alert[a]
    <3>1. PICK s \in run[r].seen : SetRow(s[1], Reopened(alert[s[1]], s[2]))
      BY <2>1 DEF Reopen
    <3>2. s[1] = a
      BY <3>1, <2>w, <2>t
    <3>3. s[2] # alert[a]
      BY <1>2, <2>t, <2>l, ExpiredStays DEF SeenInv
    <3>4. QED
      BY <3>2, <3>3
  <2>2. ASSUME NEW r \in Runs, AutoAck(r) PROVE a \in run[r].ids
    <3>1. PICK b \in run[r].ids : SetRow(b, AckedRow(alert[b], System, clock))
      BY <2>2 DEF AutoAck
    <3>2. b = a
      BY <3>1, <2>w, <2>t
    <3>3. QED
      BY <3>2
  <2>3. ASSUME NEW r \in Runs, Resolve(r) \/ Create(r) \/ Mark(r) PROVE FALSE
    <3>1. CASE Resolve(r)
      <4>1. PICK b \in rows : /\ alert'[b] = ResolvedRow(alert[b], run[r].now)
                              /\ \A d \in rows \ {b} : alert'[d] = alert[d]
        BY <1>2, <3>1, ResolveRow
      <4>2. alert'[b].resolvedAt # Never
        BY <4>1, <2>t, <2>n, RowEpisode
      <4>3. QED
        BY <4>1, <4>2, <1>2, <2>t
    <3>2. CASE Create(r)
      BY <1>2, <2>t, <3>2, CreateRow
    <3>3. CASE Mark(r)
      <4>1. PICK b \in rows : /\ alert'[b] = MailedRow(alert[b], run[r].now)
                              /\ \A d \in rows \ {b} : alert'[d] = alert[d]
        BY <1>2, <3>3, MarkRow
      <4>2. MailedRow(alert[b], run[r].now).status = alert[b].status
        BY <2>t, RowEdits DEF RowOf
      <4>3. QED
        BY <4>1, <4>2, <1>2, <2>t
    <3>4. QED
      BY <2>3, <3>1, <3>2, <3>3
  <2>4. ~ UNCHANGED alert
    BY <1>2
  <2>5. User \/ \E r \in Runs : Reopen(r) \/ AutoAck(r)
    BY <1>2, <2>3, <2>4
       DEF Next, Step, Arrive, Tick, Fail, FindNone, FindExisting, ListUnresolved,
           AutoEligible, SendSelect, SendFails, SendMail, RefreshAll,
           RefreshOneStale, RefreshOneClear, Notify, vars
  <2>6. QED
    BY <2>1, <2>2, <2>5
<1>3. TypeOK /\ SeenInv /\ [Next]_vars =>
        [\A a \in Unresolved :
           /\ alert[a].status = "SUPPRESSED" /\ clock < alert[a].supUntil
           /\ alert'[a].resolvedAt = Never /\ alert'[a].status # "SUPPRESSED"
           => \/ User
              \/ \E r \in Runs : AutoAck(r) /\ a \in run[r].ids
              \/ \E r \in Runs : /\ Reopen(r)
                                 /\ \E s \in run[r].seen : s[1] = a /\ s[2] # alert[a]]_vars
  BY <1>2
<1>4. QED
  BY <1>1, <1>3, SeenStep, TypeCorrect, PTL DEF Spec

----------------------------------------------------------------------------
(* One request at a time *)

\* findFirst and create are not one transaction.  With a single request in
\* flight nothing comes between them: the client about to get a row has none.
SerialInv ==
  /\ OneActivePerClient
  /\ \A r \in Runs : run[r].pc = "create" => \A c \in run[r].cur : Active(c) = {}

LEMMA OnlyCreateAdds ==
  ASSUME TypeOK, [Next]_vars
  PROVE  rows' = rows \/ \E r \in Runs : Create(r)
<1> SUFFICES ASSUME ~ \E r \in Runs : Create(r) PROVE rows' = rows
  OBVIOUS
<1>1. CASE UNCHANGED alert
  BY <1>1 DEF rows
<1>2. ASSUME NEW a, NEW row, SetRow(a, row) PROVE rows' = rows
  BY <1>2 DEF SetRow, rows, TypeOK
<1>3. QED
  BY <1>1, <1>2
     DEF Next, Step, Arrive, User, Acknowledge, Suppress, Tick, Fail, FindNone,
         FindExisting, Reopen, ListUnresolved, Resolve, AutoEligible, SendSelect,
         SendFails, SendMail, Mark, AutoAck, RefreshAll, RefreshOneStale,
         RefreshOneClear, Notify, vars

LEMMA OnlyFindNoneReachesCreate ==
  ASSUME TypeOK, [Next]_vars, NEW r \in Runs, run'[r].pc = "create"
  PROVE  \/ run'[r] = run[r]
         \/ \E c \in Clients : FindNone(r, c) /\ run'[r].cur = {c}
<1>t. run \in [Runs -> Local] /\ \A q \in Runs : run[q] \in Local
  BY DEF TypeOK
<1>g. ASSUME NEW q \in Runs, NEW l, Goto(q, l), l.pc # "create"
      PROVE  run'[r] = run[r]
  BY <1>g, <1>t DEF Goto
<1>i. Idle.pc # "create"
  BY DEF Idle
<1>1. ASSUME NEW q \in Runs, Arrive(q) PROVE run'[r] = run[r]
  BY <1>1, <1>g DEF Arrive, RefreshAll, RefreshOneStale, RefreshOneClear, Notify, Start
<1>2. ASSUME NEW q \in Runs, NEW c \in Clients, FindNone(q, c)
      PROVE  run'[r] = run[r] \/ (FindNone(r, c) /\ run'[r].cur = {c})
  <2>1. ToCreate(run[q], c).cur = {c}
    <3>1. ToCreate(run[q], c) =
            LocalOf("create", run[q].auto, run[q].now, run[q].pending,
                    run[q].queried, run[q].todo \ {c}, {c}, run[q].seen,
                    run[q].ids, run[q].batch)
      BY <1>t, LocalEdits, ZenonT(30)
    <3>2. QED
      BY <3>1 DEF LocalOf
  <2>2. CASE q = r
    <3>1. run'[r] = ToCreate(run[q], c)
      BY <1>2, <2>2, <1>t DEF FindNone, Goto
    <3>2. QED
      BY <1>2, <2>1, <2>2, <3>1
  <2>3. CASE q # r
    <3>1. run' = [run EXCEPT ![q] = ToCreate(run[q], c)]
      BY <1>2 DEF FindNone, Goto
    <3>2. run'[r] = run[r]
      BY <3>1, <2>3, <1>t
    <3>3. QED
      BY <3>2
  <2>4. QED
    BY <2>2, <2>3
<1>3. ASSUME NEW q \in Runs,
             Create(q) \/ Reopen(q) \/ \E c \in Clients : FindExisting(q, c)
      PROVE  run'[r] = run[r]
  BY <1>3, <1>t, <1>g, LocalPoints DEF Create, Reopen, FindExisting
<1>4. ASSUME NEW q \in Runs,
             \/ ListUnresolved(q) \/ AutoEligible(q) \/ SendSelect(q)
      PROVE  run'[r] = run[r]
  <2>1. /\ \A S : ToResolve(run[q], S).pc = "resolve"
        /\ \A S : ToSmtp(run[q], S).pc = "smtp"
        /\ \A S, t : ToSend(run[q], S, t).pc = "send"
    BY <1>t, LocalPoints
  <2>2. QED
    BY <1>4, <2>1, <1>g, <1>i DEF ListUnresolved, AutoEligible, SendSelect, Finish
<1>5. ASSUME NEW q \in Runs, SendFails(q) \/ Fail(q) PROVE run'[r] = run[r]
  BY <1>5, <1>g, <1>i DEF SendFails, Fail, Finish
<1>6. ASSUME NEW q \in Runs, Resolve(q) \/ AutoAck(q) PROVE run'[r] = run[r]
  <2>1. \A S : [run[q] EXCEPT !.ids = S].pc = run[q].pc
    BY <1>t DEF Local
  <2>2. QED
    BY <1>6, <2>1, <1>g, <1>i DEF Resolve, AutoAck, Finish
<1>7. ASSUME NEW q \in Runs, SendMail(q) \/ Mark(q) PROVE run'[r] = run[r]
  <2>1. /\ \A S : [run[q] EXCEPT !.batch = S].pc = run[q].pc
        /\ [run[q] EXCEPT !.pc = "mark"].pc = "mark"
    BY <1>t DEF Local
  <2>2. ToAck(run[q]).pc = "ack"
    BY <1>t, LocalEdits DEF LocalOf
  <2>3. QED
    BY <1>7, <2>1, <2>2, <1>g, <1>i DEF SendMail, Mark, Finish
<1>8. QED
  BY <1>1, <1>2, <1>3, <1>4, <1>5, <1>6, <1>7
     DEF Next, Step, User, Acknowledge, Suppress, Tick, vars

\* With one request in flight at a time no client has two active alerts, even
\* if requests fail half-way.
THEOREM SerialOneActive ==
  ASSUME \A r, q \in Runs : r = q
  PROVE  Spec => []OneActivePerClient
<1>1. Init => SerialInv
  BY DEF Init, SerialInv, OneActivePerClient, Unresolved, rows, Idle
<1>2. TypeOK /\ SerialInv /\ [Next]_vars => SerialInv'
  <2> SUFFICES ASSUME TypeOK, SerialInv, [Next]_vars PROVE SerialInv'
    OBVIOUS
  <2>t. run \in [Runs -> Local] /\ alert \in [rows -> Row]
    BY DEF TypeOK
  <2>e. RowsEffect
    BY StepOnRows
  <2>u. \A a \in Unresolved' : a \in rows => a \in Unresolved
    BY <2>e DEF RowsEffect, Keeps, Unresolved
  <2>k. \A a \in rows : alert'[a].client = alert[a].client
    BY <2>e DEF RowsEffect, Keeps
  <2>1. CASE rows' = rows
    <3>1. OneActivePerClient'
      BY <2>1, <2>u, <2>k DEF SerialInv, OneActivePerClient, Unresolved
    <3>2. \A c : Active(c)' \subseteq Active(c)
      BY <2>1, <2>u, <2>k DEF Active, Unresolved
    <3>3. ASSUME NEW r \in Runs, run'[r].pc = "create", NEW c \in run'[r].cur
          PROVE  Active(c)' = {}
      <4>1. CASE run'[r] = run[r]
        BY <3>2, <3>3, <4>1 DEF SerialInv
      <4>2. CASE \E d \in Clients : FindNone(r, d) /\ run'[r].cur = {d}
        BY <3>2, <3>3, <4>2 DEF FindNone
      <4>3. QED
        BY <3>3, <4>1, <4>2, OnlyFindNoneReachesCreate
    <3>4. QED
      BY <3>1, <3>3 DEF SerialInv
  <2>2. CASE \E r \in Runs : Create(r)
    <3>1. PICK r \in Runs : Create(r)
      BY <2>2
    <3>2. PICK a \in AlertIds \ rows, c \in run[r].cur :
            alert' = [b \in rows \cup {a} |->
                        IF b = a THEN NewRow(c, run[r].now) ELSE alert[b]]
      BY <3>1 DEF Create
    <3>3. rows' = rows \cup {a} /\ alert'[a].client = c
      BY <3>2 DEF rows, NewRow
    <3>4. Active(c) = {}
      BY <3>1, <3>2 DEF Create, SerialInv
    <3>5. \A b \in rows : b \in Unresolved => alert[b].client # c
      BY <3>4 DEF Active, Unresolved
    <3>6. OneActivePerClient'
      BY <2>u, <2>k, <3>3, <3>5 DEF SerialInv, OneActivePerClient, Unresolved
    <3>7. run'[r].pc = "find"
      BY <3>1, <2>t, LocalPoints DEF Create, Goto
    <3>8. QED
      BY <3>6, <3>7 DEF SerialInv
  <2>3. QED
    BY <2>1, <2>2, OnlyCreateAdds
<1>3. SerialInv => OneActivePerClient
  BY DEF SerialInv
<1>4. QED
  BY <1>1, <1>2, <1>3, TypeCorrect, PTL DEF Spec

----------------------------------------------------------------------------
(* The report of a past period *)

\* With one request in flight at a time, a request resolves rows that nobody
\* else has resolved since it read them.
FreshInv ==
  \A r \in Runs : run[r].pc \in {"resolve", "clear"} =>
                    \A a \in run[r].ids : alert[a].resolvedAt = Never

LEMMA FreshStep ==
  ASSUME \A r, q \in Runs : r = q
  PROVE  TypeOK /\ FreshInv /\ [Next]_vars => FreshInv'
<1> SUFFICES ASSUME TypeOK, FreshInv, [Next]_vars PROVE FreshInv'
  OBVIOUS
<1>t. /\ run \in [Runs -> Local] /\ alert \in [rows -> Row]
      /\ \A r \in Runs : run[r] \in Local /\ run[r].ids \subseteq rows
  BY DEF TypeOK, Local
<1>g. ASSUME NEW r \in Runs, NEW l, Goto(r, l),
             l.pc \in {"resolve", "clear"} =>
               \A a \in l.ids : alert'[a].resolvedAt = Never
      PROVE  FreshInv'
  BY <1>g, <1>t DEF FreshInv, Goto
<1>f. ASSUME NEW r \in Runs, Finish(r) PROVE FreshInv'
  BY <1>f, <1>g DEF Finish, Idle
<1>1. CASE UNCHANGED run /\ SameEpisodes(alert, alert')
  BY <1>1, <1>t DEF FreshInv, SameEpisodes, SameEpisode, rows
<1>2. ASSUME NEW r \in Runs, RefreshAll(r) PROVE FreshInv'
  BY <1>2, <1>g DEF RefreshAll, Start
<1>3. ASSUME NEW r \in Runs, NEW c \in Clients, RefreshOneStale(r, c) PROVE FreshInv'
  BY <1>3, <1>g DEF RefreshOneStale, Start
<1>4. ASSUME NEW r \in Runs, NEW c \in Clients, RefreshOneClear(r, c) PROVE FreshInv'
  <2>1. \A a \in Active(c) : alert'[a].resolvedAt = Never
    BY <1>4 DEF RefreshOneClear, Active
  <2>2. QED
    BY <1>4, <2>1, <1>g DEF RefreshOneClear, Start
<1>5. ASSUME NEW r \in Runs, NEW S \in SUBSET rows, Notify(r, S) PROVE FreshInv'
  BY <1>5, <1>g DEF Notify, Start
<1>6. ASSUME NEW r \in Runs, NEW c \in Clients, FindNone(r, c) \/ FindExisting(r, c)
      PROVE  FreshInv'
  <2>1. /\ \A T : ToFind(run[r], T).pc = "find"
        /\ ToCreate(run[r], c).pc = "create"
        /\ \A s : ToReopen(run[r], c, s).pc = "reopen"
    BY <1>t, LocalPoints
  <2>2. QED
    BY <1>6, <2>1, <1>g DEF FindNone, FindExisting
<1>7. ASSUME NEW r \in Runs, Create(r) \/ Reopen(r) PROVE FreshInv'
  <2>1. ToFind(run[r], run[r].todo).pc = "find"
    BY <1>t, LocalPoints
  <2>2. QED
    BY <1>7, <2>1, <1>g DEF Create, Reopen
<1>8. ASSUME NEW r \in Runs, ListUnresolved(r) PROVE FreshInv'
  <2> DEFINE S == {a \in Unresolved : alert[a].client \notin run[r].pending}
             m == ToResolve(run[r], S)
  <2>1. m.ids = S
    BY <1>t, ResolveFields
  <2>2. \A a \in m.ids : alert'[a].resolvedAt = Never
    BY <1>8, <2>1 DEF ListUnresolved, Unresolved
  <2>3. Goto(r, m)
    BY <1>8 DEF ListUnresolved
  <2> HIDE DEF m
  <2>4. QED
    BY <2>2, <2>3, <1>g
<1>9. ASSUME NEW r \in Runs, Resolve(r) PROVE FreshInv'
  <2>1. PICK a \in run[r].ids :
          /\ a \in rows
          /\ \A b \in rows \ {a} : alert'[b] = alert[b]
          /\ Finish(r) \/ Goto(r, [run[r] EXCEPT !.ids = run[r].ids \ {a}])
    BY <1>9, ResolveRow
  <2> DEFINE m == [run[r] EXCEPT !.ids = run[r].ids \ {a}]
  <2>2. m.pc = run[r].pc /\ m.ids = run[r].ids \ {a}
    BY <1>t, EditFields
  <2>3. \A b \in m.ids : alert'[b].resolvedAt = Never
    BY <1>9, <2>1, <2>2, <1>t DEF Resolve, FreshInv
  <2>4. Finish(r) \/ Goto(r, m)
    BY <2>1
  <2> HIDE DEF m
  <2>5. QED
    BY <2>3, <2>4, <1>g, <1>f
<1>10. ASSUME NEW r \in Runs, AutoEligible(r) \/ SendSelect(r) PROVE FreshInv'
  <2>1. /\ \A S : ToSmtp(run[r], S).pc = "smtp"
        /\ \A S, t : ToSend(run[r], S, t).pc = "send"
    BY <1>t, LocalPoints
  <2>2. QED
    BY <1>10, <2>1, <1>g, <1>f DEF AutoEligible, SendSelect
<1>11. ASSUME NEW r \in Runs, SendFails(r) \/ Fail(r) PROVE FreshInv'
  BY <1>11, <1>f DEF SendFails, Fail
<1>12. ASSUME NEW r \in Runs, SendMail(r) PROVE FreshInv'
  <2>1. [run[r] EXCEPT !.pc = "mark"].pc = "mark"
    BY <1>t, EditFields
  <2>2. QED
    BY <1>12, <2>1, <1>g DEF SendMail
<1>13. ASSUME NEW r \in Runs, Mark(r) PROVE FreshInv'
  <2>1. \/ \E S : Goto(r, [run[r] EXCEPT !.batch = S])
        \/ Goto(r, ToAck(run[r])) \/ Finish(r)
    BY <1>13, MarkRow
  <2>2. /\ \A S : [run[r] EXCEPT !.batch = S].pc = run[r].pc
        /\ ToAck(run[r]).pc = "ack"
    BY <1>t, EditFields, AckFields
  <2>3. QED
    BY <1>13, <2>1, <2>2, <1>g, <1>f DEF Mark
<1>14. ASSUME NEW r \in Runs, AutoAck(r) PROVE FreshInv'
  <2>1. \A S : [run[r] EXCEPT !.ids = S].pc = run[r].pc
    BY <1>t, EditFields
  <2>2. QED
    BY <1>14, <2>1, <1>g, <1>f DEF AutoAck
<1>15. UNCHANGED run /\ UNCHANGED alert => FreshInv'
  BY <1>1, SameRows
<1>16. User => FreshInv'
  <2>1. User => UNCHANGED run
    BY DEF User, Acknowledge, Suppress
  <2>2. QED
    BY <2>1, <1>1, UserRows
<1>17. QED
  BY <1>2, <1>3, <1>4, <1>5, <1>6, <1>7, <1>8, <1>9, <1>10, <1>11, <1>12, <1>13,
     <1>14, <1>15, <1>16
     DEF Next, Step, Arrive, Tick, vars

\* Rows that are as they were for the period give the same report of it.
LEMMA SameReport ==
  ASSUME TypeOK, UNCHANGED clock, NEW from, NEW to \in 0..clock - 1,
         rows \subseteq rows',
         \A a \in rows' : Overlaps(alert'[a], from, to) <=>
                            a \in rows /\ Overlaps(alert[a], from, to),
         \A a \in rows : Overlaps(alert[a], from, to) =>
                           (OpenAt(alert'[a], to) <=> OpenAt(alert[a], to))
  PROVE  Report(from, to)' = Report(from, to)
<1> DEFINE S == {a \in rows : Overlaps(alert[a], from, to)}
           O == {a \in S : OpenAt(alert[a], to)}
           Sn == {a \in rows' : Overlaps(alert'[a], from, to)}
           On == {a \in Sn : OpenAt(alert'[a], to)}
<1>1. clock \notin from..to /\ clock' \notin from..to
  BY ConstantsAssumption DEF TypeOK, Time, ConstantsAssumption
<1>2. Report(from, to) = [rows |-> S, open |-> O]
  BY <1>1 DEF Report
<1>3. Report(from, to)' = [rows |-> Sn, open |-> On]
  BY <1>1 DEF Report, OpenAt, Overlaps
<1>4. Sn = S /\ On = O
  OBVIOUS
<1>5. QED
  BY <1>2, <1>3, <1>4

\* With one request in flight at a time the report of a period that is over
\* changes only by a pass that began before the period was over: a pass that
\* began later opens and resolves episodes after it.
THEOREM PastReportStands ==
  ASSUME \A r, q \in Runs : r = q
  PROVE  Spec => PastReportIsFinal
<1>1. Init => FreshInv
  BY DEF Init, FreshInv, Idle
<1>2. ASSUME TypeOK, FreshInv, [Next]_vars, dates' # dates,
             NEW to \in 0..clock - 1, NEW from \in 0..to,
             \A r \in Runs : run[r].pc # "idle" => to < run[r].now
      PROVE  Report(from, to)' = Report(from, to)
  <2>t. /\ alert \in [rows -> Row] /\ clock \in Int /\ from \in Int /\ to \in Int
        /\ from <= to /\ Time \subseteq Int
        /\ \A r \in Runs : run[r].now \in Time /\ run[r].ids \subseteq rows
        /\ \A t \in Time : t # Never
    BY <1>2, ConstantsAssumption DEF TypeOK, Local, Time, Never, ConstantsAssumption
  <2>1. ~ SameEpisodes(alert, alert')
    BY <1>2 DEF SameEpisodes, SameEpisode, dates, rows
  <2>2. PICK r \in Runs : Create(r) \/ Resolve(r)
    BY <1>2, <2>1, TableStep
  <2>3. UNCHANGED clock /\ run[r].now \in Int /\ to < run[r].now
    BY <1>2, <2>2, <2>t DEF Create, Resolve
  <2>4. CASE Create(r)
    <3>1. PICK a \in AlertIds \ rows, c \in run[r].cur :
            /\ rows' = rows \cup {a} /\ alert'[a] = NewRow(c, run[r].now)
            /\ \A b \in rows : alert'[b] = alert[b]
      BY <1>2, <2>4, CreateRow
    <3>2. ~ Overlaps(alert'[a], from, to)
      BY <2>t, <2>3, <3>1 DEF Overlaps, NewRow
    <3>3. QED
      BY <1>2, <2>3, <3>1, <3>2, SameReport
  <2>5. CASE Resolve(r)
    <3>1. PICK a \in run[r].ids :
            /\ a \in rows /\ rows' = rows
            /\ alert'[a] = ResolvedRow(alert[a], run[r].now)
            /\ \A b \in rows \ {a} : alert'[b] = alert[b]
      BY <1>2, <2>5, ResolveRow
    <3>2. alert[a] \in Row /\ alert[a].resolvedAt = Never
      BY <1>2, <2>5, <2>t, <3>1 DEF Resolve, FreshInv
    <3>3. /\ alert'[a].firstSeen = alert[a].firstSeen
          /\ alert'[a].resolvedAt = run[r].now /\ run[r].now # Never
      <4>1. /\ ResolvedRow(alert[a], run[r].now).firstSeen = alert[a].firstSeen
            /\ ResolvedRow(alert[a], run[r].now).resolvedAt = run[r].now
        BY <3>2, RowEpisode
      <4>2. QED
        BY <2>t, <3>1, <4>1
    <3>4. /\ Overlaps(alert'[a], from, to) <=> Overlaps(alert[a], from, to)
          /\ OpenAt(alert'[a], to) <=> OpenAt(alert[a], to)
      BY <2>t, <2>3, <3>2, <3>3 DEF Overlaps, OpenAt
    <3>5. QED
      BY <1>2, <2>3, <3>1, <3>4, SameReport
  <2>6. QED
    BY <2>2, <2>4, <2>5
<1>3. TypeOK /\ FreshInv /\ [Next]_vars =>
        [dates' # dates =>
           \A to \in 0..clock - 1 : \A from \in 0..to :
             (\A r \in Runs : run[r].pc # "idle" => to < run[r].now)
                => Report(from, to)' = Report(from, to)]_vars
  BY <1>2
<1>4. TypeOK /\ FreshInv /\ [Next]_vars => FreshInv'
  BY FreshStep
<1>5. QED
  BY <1>1, <1>3, <1>4, TypeCorrect, PTL DEF Spec, PastReportIsFinal

----------------------------------------------------------------------------
(* The notify cooldown *)

\* The table knows of every mail that was sent, except the one whose rows the
\* request in flight is about to mark; and what is being mailed was due.
MailInv ==
  /\ early = {}
  /\ \A a \in AlertIds :
       lastMail[a] # Never =>
         /\ a \in rows
         /\ \/ alert[a].emailAt = lastMail[a]
            \/ \E r \in Runs : run[r].pc = "mark" /\ a \in run[r].batch
  /\ \A r \in Runs : \A a \in run[r].batch :
       /\ run[r].pc = "mark" => lastMail[a] = run[r].now
       /\ run[r].pc = "smtp" => MailDue(alert[a], run[r].now)

LEMMA MailStep ==
  ASSUME \A r, q \in Runs : r = q, ~Faults
  PROVE  TypeOK /\ MailInv /\ [Next]_vars => MailInv'
<1> SUFFICES ASSUME TypeOK, MailInv, [Next]_vars PROVE MailInv'
  OBVIOUS
<1>t. /\ run \in [Runs -> Local] /\ alert \in [rows -> Row] /\ rows \subseteq AlertIds
      /\ lastMail \in [AlertIds -> Date] /\ Date \subseteq Int
      /\ \A r \in Runs : /\ run[r] \in Local /\ run[r].batch \subseteq rows
                         /\ run[r].now \in Int /\ run[r].now # Never
      /\ CooldownMins \in Int
  BY ConstantsAssumption
     DEF TypeOK, Local, Time, Date, Never, ConstantsAssumption
<1>e. rows \subseteq rows'
  BY StepOnRows DEF RowsEffect
\* a step that neither mails nor marks, and does not go on to
<1>q. ASSUME NEW r \in Runs, UNCHANGED <<lastMail, early>>,
             SameMails(alert, alert'), run[r].pc # "mark",
             run'[r].pc \notin {"mark", "smtp"}
      PROVE  MailInv'
  BY <1>q, <1>e, <1>t DEF MailInv, SameMails, rows
<1>g. ASSUME NEW r \in Runs, NEW l, Goto(r, l) PROVE run'[r] = l
  BY <1>g, <1>t DEF Goto
<1>f. ASSUME NEW r \in Runs, Finish(r) PROVE run'[r].pc = "idle"
  BY <1>f, <1>g DEF Finish, Idle
<1>1. UNCHANGED <<run, lastMail, early>> /\ SameMails(alert, alert') => MailInv'
  BY <1>e, <1>t DEF MailInv, SameMails, MailDue, rows
<1>2. ASSUME NEW r \in Runs, Arrive(r) PROVE MailInv'
  <2>1. /\ run[r].pc = "idle" /\ UNCHANGED <<alert, lastMail, early>>
        /\ \E auto, P, Q, S : \E pc \in {"find", "clear", "send"} :
             Start(r, pc, auto, P, Q, S)
    BY <1>2 DEF Arrive, RefreshAll, RefreshOneStale, RefreshOneClear, Notify
  <2>2. run'[r].pc \in {"find", "clear", "send"}
    BY <2>1, StartFields
  <2>3. QED
    BY <2>1, <2>2, <1>q, SameRows
<1>3. ASSUME NEW r \in Runs, NEW c \in Clients, FindNone(r, c) \/ FindExisting(r, c)
      PROVE  MailInv'
  <2>1. run'[r].pc \in {"find", "create", "reopen"}
    <3>1. /\ \A T : ToFind(run[r], T).pc = "find"
          /\ ToCreate(run[r], c).pc = "create"
          /\ \A s : ToReopen(run[r], c, s).pc = "reopen"
      BY <1>t, LocalPoints
    <3>2. QED
      BY <1>3, <3>1, <1>g DEF FindNone, FindExisting
  <2>2. QED
    BY <1>3, <2>1, <1>q, SameRows DEF FindNone, FindExisting
<1>4. ASSUME NEW r \in Runs, Create(r) \/ Reopen(r) PROVE MailInv'
  <2>1. run'[r].pc = "find"
    BY <1>4, <1>t, <1>g, LocalPoints DEF Create, Reopen
  <2>2. SameMails(alert, alert')
    BY <1>4, CreateRow, StatusRows DEF SameMails, rows
  <2>3. QED
    BY <1>4, <2>1, <2>2, <1>q DEF Create, Reopen
<1>5. ASSUME NEW r \in Runs, ListUnresolved(r) PROVE MailInv'
  <2>1. run'[r].pc = "resolve"
    BY <1>5, <1>t, <1>g, LocalPoints DEF ListUnresolved
  <2>2. QED
    BY <1>5, <2>1, <1>q, SameRows DEF ListUnresolved
<1>6. ASSUME NEW r \in Runs, Resolve(r) PROVE MailInv'
  <2>1. PICK a \in run[r].ids :
          /\ a \in rows /\ alert'[a] = ResolvedRow(alert[a], run[r].now)
          /\ \A b \in rows \ {a} : alert'[b] = alert[b]
          /\ Finish(r) \/ Goto(r, [run[r] EXCEPT !.ids = run[r].ids \ {a}])
    BY <1>6, ResolveRow
  <2>2. alert'[a].emailAt = alert[a].emailAt
    BY <1>t, <2>1, RowEpisode
  <2>3. SameMails(alert, alert')
    BY <2>1, <2>2 DEF SameMails, rows
  <2>4. run'[r].pc \in {"resolve", "clear", "idle"}
    <3>1. [run[r] EXCEPT !.ids = run[r].ids \ {a}].pc = run[r].pc
      BY <1>t, EditFields
    <3>2. QED
      BY <1>6, <2>1, <3>1, <1>f, <1>g DEF Resolve
  <2>5. QED
    BY <1>6, <2>3, <2>4, <1>q DEF Resolve
<1>7. ASSUME NEW r \in Runs, AutoEligible(r) PROVE MailInv'
  <2>1. run'[r].pc \in {"send", "idle"}
    BY <1>7, <1>t, <1>f, <1>g, LocalPoints DEF AutoEligible
  <2>2. QED
    BY <1>7, <2>1, <1>q, SameRows DEF AutoEligible
<1>8. ASSUME NEW r \in Runs, SendSelect(r) PROVE MailInv'
  <2>1. CASE Finish(r)
    BY <1>8, <2>1, <1>f, <1>q, SameRows DEF SendSelect
  <2>2. CASE Goto(r, ToSmtp(run[r], ToMail(r)))
    <3> DEFINE m == ToSmtp(run[r], ToMail(r))
    <3>1. m.pc = "smtp" /\ m.now = run[r].now /\ m.batch = ToMail(r)
      BY <1>t, SmtpFields DEF Pass
    <3>2. \A a \in m.batch : MailDue(alert[a], m.now)
      BY <3>1 DEF ToMail
    <3>3. run'[r] = m
      BY <2>2, <1>g
    <3> HIDE DEF m
    <3>4. \A a \in AlertIds : lastMail[a] # Never =>
            a \in rows /\ alert[a].emailAt = lastMail[a]
      BY <1>8 DEF MailInv, SendSelect
    <3>5. QED
      BY <1>8, <3>1, <3>2, <3>3, <3>4 DEF SendSelect, MailInv, MailDue, rows
  <2>3. QED
    BY <1>8, <2>1, <2>2 DEF SendSelect
<1>9. ASSUME NEW r \in Runs, SendFails(r) \/ Fail(r) PROVE MailInv'
  BY <1>9, <1>f, <1>q, SameRows DEF SendFails, Fail
<1>10. ASSUME NEW r \in Runs, SendMail(r) PROVE MailInv'
  <2> DEFINE m == [run[r] EXCEPT !.pc = "mark"]
  <2>1. m.pc = "mark" /\ m.now = run[r].now /\ m.batch = run[r].batch
    BY <1>t, EditFields DEF Pass
  <2>2. run'[r] = m
    BY <1>10, <1>g DEF SendMail
  <2> HIDE DEF m
  <2>3. \A a \in AlertIds : lastMail[a] # Never =>
          a \in rows /\ alert[a].emailAt = lastMail[a]
    BY <1>10 DEF MailInv, SendMail
  <2>4. ASSUME NEW a \in run[r].batch, lastMail[a] # Never
        PROVE  ~ (run[r].now - lastMail[a] <= CooldownMins)
    <3>1. a \in AlertIds /\ MailDue(alert[a], run[r].now)
      BY <1>10, <1>t DEF SendMail, MailInv
    <3>2. alert[a].emailAt = lastMail[a] /\ lastMail[a] \in Int
      BY <2>3, <2>4, <3>1, <1>t
    <3>3. QED
      BY <2>4, <3>1, <3>2, <1>t DEF MailDue
  <2>5. early' = {}
    BY <1>10, <2>4 DEF SendMail, MailInv
  <2>6. \A a \in AlertIds : lastMail'[a] = IF a \in run[r].batch THEN run[r].now
                                                                ELSE lastMail[a]
    <3>1. \A a \in run[r].batch : lastMail[a] < run[r].now
      BY <2>4, <1>t, ConstantsAssumption
         DEF TypeOK, Local, Time, Date, Never, ConstantsAssumption
    <3>2. QED
      BY <1>10, <3>1 DEF SendMail
  <2>7. QED
    BY <1>10, <2>1, <2>2, <2>3, <2>5, <2>6, <1>t DEF SendMail, MailInv, rows
<1>11. ASSUME NEW r \in Runs, Mark(r) PROVE MailInv'
  <2>1. PICK a \in run[r].batch :
          /\ a \in rows /\ rows' = rows
          /\ alert'[a] = MailedRow(alert[a], run[r].now)
          /\ \A b \in rows \ {a} : alert'[b] = alert[b]
          /\ \/ Goto(r, [run[r] EXCEPT !.batch = run[r].batch \ {a}])
             \/ run[r].batch = {a} /\ run[r].auto /\ Goto(r, ToAck(run[r]))
             \/ run[r].batch = {a} /\ Finish(r)
    BY <1>11, MarkRow
  <2>2. alert'[a].emailAt = run[r].now
    BY <1>t, <2>1, RowEpisode
  <2>3. run[r].pc = "mark" /\ \A b \in run[r].batch : lastMail[b] = run[r].now
    BY <1>11 DEF Mark, MailInv
  <2>4. \A b \in AlertIds : lastMail[b] # Never =>
          b \in rows /\ (alert'[b].emailAt = lastMail[b] \/ b \in run[r].batch \ {a})
    BY <2>1, <2>2, <2>3 DEF MailInv
  <2>5. \/ /\ run'[r].pc = "mark" /\ run'[r].now = run[r].now
           /\ run'[r].batch = run[r].batch \ {a}
        \/ run[r].batch = {a} /\ run'[r].pc \in {"ack", "idle"}
    <3>1. LET m == [run[r] EXCEPT !.batch = run[r].batch \ {a}]
          IN  m.pc = run[r].pc /\ m.now = run[r].now /\ m.batch = run[r].batch \ {a}
      BY <1>t, EditFields DEF Pass
    <3>2. ToAck(run[r]).pc = "ack"
      BY <1>t, AckFields
    <3>3. QED
      BY <2>1, <2>3, <3>1, <3>2, <1>g, <1>f
  <2>6. UNCHANGED <<lastMail, early>>
    BY <1>11 DEF Mark
  <2>7. QED
    BY <2>1, <2>3, <2>4, <2>5, <2>6 DEF MailInv
<1>12. ASSUME NEW r \in Runs, AutoAck(r) PROVE MailInv'
  <2>1. \A S : [run[r] EXCEPT !.ids = S].pc = run[r].pc
    BY <1>t, EditFields
  <2>2. run'[r].pc \in {"ack", "idle"}
    BY <1>12, <2>1, <1>g, <1>f DEF AutoAck
  <2>3. QED
    BY <1>12, <2>2, <1>q, StatusRows DEF AutoAck
<1>13. User => MailInv'
  <2>1. User => UNCHANGED <<run, lastMail, early>>
    BY DEF User, Acknowledge, Suppress
  <2>2. QED
    BY <2>1, <1>1, UserRows
<1>14. UNCHANGED <<alert, run, lastMail, early>> => MailInv'
  BY <1>1, SameRows
<1>15. QED
  BY <1>2, <1>3, <1>4, <1>5, <1>6, <1>7, <1>8, <1>9, <1>10, <1>11, <1>12, <1>13,
     <1>14
     DEF Next, Step, Tick, vars

\* With one request in flight at a time, and no failure between the mail and
\* the stamps it leaves, no alert is e-mailed again within the cooldown.
THEOREM CooldownHolds ==
  ASSUME \A r, q \in Runs : r = q, ~Faults
  PROVE  Spec => []NoMailWithinCooldown
<1>1. Init => MailInv
  BY DEF Init, MailInv, Idle
<1>2. TypeOK /\ MailInv /\ [Next]_vars => MailInv'
  BY MailStep
<1>3. MailInv => NoMailWithinCooldown
  BY DEF MailInv, NoMailWithinCooldown
<1>4. QED
  BY <1>1, <1>2, <1>3, TypeCorrect, PTL DEF Spec

----------------------------------------------------------------------------
(* The engine silences only what somebody was told of *)

\* By the table t and the mails m: alert a is over, or a mail about it was delivered
\* within the cooldown before now.
Told(t, m, a, now) ==
  t[a].resolvedAt # Never \/ (m[a] # Never /\ now - CooldownMins <= m[a])

\* What the locals l of a request say about the mails: those it is about to stamp
\* were delivered, and the eligible alerts that are not in its batch were told of.
Silences(t, m, l) ==
  /\ l.pc = "send" /\ l.auto => l.ids # {}
  /\ l.pc = "mark" => \A a \in l.batch : m[a] # Never /\ l.now <= m[a]
  /\ l.pc \in {"smtp", "mark"} /\ l.auto =>
       \A a \in l.ids \ l.batch : Told(t, m, a, l.now)
  /\ l.pc = "ack" => \A a \in l.ids : Told(t, m, a, l.now)

\* No stamp in the table is newer than the mail it stands for.
ToldInv ==
  /\ \A a \in rows : alert[a].emailAt # Never => alert[a].emailAt <= lastMail[a]
  /\ \A r \in Runs : Silences(alert, lastMail, run[r])

\* A mail that was delivered is never forgotten.
MailsGrow == \A a \in AlertIds : /\ lastMail'[a] \in Int /\ lastMail[a] <= lastMail'[a]
                                 /\ lastMail[a] # Never => lastMail'[a] # Never

LEMMA MailsOnlyGrow == TypeOK /\ [Next]_vars => MailsGrow
<1> SUFFICES ASSUME TypeOK, [Next]_vars PROVE MailsGrow
  OBVIOUS
<1>t. /\ \A a \in AlertIds : lastMail[a] \in Int
      /\ \A r \in Runs : run[r].now \in Int /\ -1 < run[r].now
  BY ConstantsAssumption DEF TypeOK, Local, Date, Time, Never, ConstantsAssumption
<1>1. CASE UNCHANGED lastMail
  BY <1>1, <1>t DEF MailsGrow
<1>2. ASSUME NEW r \in Runs, SendMail(r) PROVE MailsGrow
  <2>1. \A a \in AlertIds : lastMail'[a] = IF a \in run[r].batch /\ lastMail[a] < run[r].now
                                             THEN run[r].now ELSE lastMail[a]
    BY <1>2 DEF SendMail
  <2>2. QED
    BY <1>t, <2>1 DEF MailsGrow, Never
<1>3. QED
  BY <1>1, <1>2
     DEF Next, Step, Arrive, User, Acknowledge, Suppress, Tick, Fail, FindNone,
         FindExisting, Create, Reopen, ListUnresolved, Resolve, AutoEligible,
         SendSelect, SendFails, Mark, AutoAck, RefreshAll, RefreshOneStale,
         RefreshOneClear, Notify, vars

\* So what a request knows of the mails stays true whatever the others do.
LEMMA SilencesStays ==
  ASSUME TypeOK, [Next]_vars
  PROVE  /\ \A a \in rows, t \in Int :
              Told(alert, lastMail, a, t) => Told(alert', lastMail', a, t)
         /\ \A r \in Runs : Silences(alert, lastMail, run[r])
                              => Silences(alert', lastMail', run[r])
<1>1. /\ lastMail \in [AlertIds -> Date] /\ Date \subseteq Int /\ rows \subseteq AlertIds
      /\ CooldownMins \in Int
      /\ \A r \in Runs : /\ run[r].now \in Int /\ run[r].ids \subseteq rows
                         /\ run[r].batch \subseteq rows
  BY ConstantsAssumption DEF TypeOK, Local, Date, Time, Never, ConstantsAssumption
<1>2. MailsGrow /\ \A a \in rows : Keeps(alert[a], alert'[a])
  BY MailsOnlyGrow, StepOnRows DEF RowsEffect
<1>3. ASSUME NEW a \in rows, NEW t \in Int, Told(alert, lastMail, a, t)
      PROVE  Told(alert', lastMail', a, t)
  <2>1. /\ lastMail[a] \in Int /\ lastMail'[a] \in Int /\ lastMail[a] <= lastMail'[a]
        /\ lastMail[a] # Never => lastMail'[a] # Never
    BY <1>1, <1>2 DEF MailsGrow
  <2>2. alert[a].resolvedAt # Never => alert'[a].resolvedAt # Never
    BY <1>2 DEF Keeps
  <2>3. QED
    BY <1>1, <1>3, <2>1, <2>2 DEF Told
<1>4. ASSUME NEW r \in Runs, Silences(alert, lastMail, run[r])
      PROVE  Silences(alert', lastMail', run[r])
  <2>1. ASSUME run[r].pc = "mark", NEW a \in run[r].batch
        PROVE  lastMail'[a] # Never /\ run[r].now <= lastMail'[a]
    <3>1. /\ a \in AlertIds /\ lastMail[a] \in Int /\ lastMail[a] # Never
          /\ run[r].now <= lastMail[a]
      BY <1>1, <1>4, <2>1 DEF Silences
    <3>2. QED
      BY <1>1, <1>2, <3>1 DEF MailsGrow
  <2>2. QED
    BY <1>1, <1>3, <1>4, <2>1 DEF Silences
<1>5. QED
  BY <1>3, <1>4

LEMMA ToldStep == TypeOK /\ ToldInv /\ [Next]_vars => ToldInv'
<1> SUFFICES ASSUME TypeOK, ToldInv, [Next]_vars PROVE ToldInv'
  OBVIOUS
<1> DEFINE Good(l) == Silences(alert', lastMail', l)
<1>t. /\ run \in [Runs -> Local] /\ alert \in [rows -> Row] /\ rows \subseteq AlertIds
      /\ lastMail \in [AlertIds -> Date] /\ Date \subseteq Int
      /\ \A r \in Runs : /\ run[r] \in Local /\ run[r].now \in Int /\ run[r].now # Never
                         /\ run[r].ids \subseteq rows /\ run[r].batch \subseteq rows
      /\ \A a \in rows : alert[a].emailAt \in Int
      /\ CooldownMins \in Int /\ 0 <= CooldownMins
  BY ConstantsAssumption
     DEF TypeOK, Local, Row, Date, Time, Never, ConstantsAssumption
<1>m. MailsGrow
  BY MailsOnlyGrow
<1>o. \A r \in Runs : Good(run[r])
  BY SilencesStays DEF ToldInv
<1>s. ASSUME SameMails(alert, alert'), rows' = rows
      PROVE  \A a \in rows' : alert'[a].emailAt # Never => alert'[a].emailAt <= lastMail'[a]
  <2>1. ASSUME NEW a \in rows, alert'[a].emailAt # Never
        PROVE  alert'[a].emailAt <= lastMail'[a]
    <3>1. alert'[a].emailAt = alert[a].emailAt /\ a \in AlertIds
      BY <1>s, <1>t DEF SameMails, rows
    <3>2. alert[a].emailAt <= lastMail[a] /\ lastMail[a] <= lastMail'[a]
      BY <1>m, <2>1, <3>1 DEF ToldInv, MailsGrow
    <3>3. alert[a].emailAt \in Int /\ lastMail[a] \in Int /\ lastMail'[a] \in Int
      BY <1>m, <1>t, <3>1 DEF MailsGrow
    <3>4. QED
      BY <3>1, <3>2, <3>3
  <2>2. QED
    BY <1>s, <2>1
\* a step that leaves the stamps alone and takes one request to locals that are good
<1>g. ASSUME NEW r \in Runs, NEW l, Goto(r, l), Good(l),
             SameMails(alert, alert'), rows' = rows
      PROVE  ToldInv'
  <2>1. \A q \in Runs : Good(run'[q])
    BY <1>g, <1>o, <1>t DEF Goto
  <2>2. QED
    BY <1>g, <1>s, <2>1 DEF ToldInv
<1>p. ASSUME NEW l, l.pc \notin {"send", "smtp", "mark", "ack"} PROVE Good(l)
  BY <1>p DEF Silences
<1>i. Good(Idle)
  BY <1>p DEF Idle
<1>a. UNCHANGED alert => SameMails(alert, alert') /\ rows' = rows
  BY SameRows DEF rows
<1>1. UNCHANGED run /\ SameMails(alert, alert') /\ rows' = rows => ToldInv'
  BY <1>o, <1>s DEF ToldInv
<1>2. ASSUME NEW r \in Runs, Arrive(r) PROVE ToldInv'
  <2>1. UNCHANGED alert
    BY <1>2 DEF Arrive, RefreshAll, RefreshOneStale, RefreshOneClear, Notify
  <2>2. PICK auto, P, Q, S : \E pc \in {"find", "clear", "send"} :
          Start(r, pc, auto, P, Q, S) /\ (pc = "send" => ~auto)
    BY <1>2 DEF Arrive, RefreshAll, RefreshOneStale, RefreshOneClear, Notify
  <2>3. PICK pc \in {"find", "clear", "send"} :
          Start(r, pc, auto, P, Q, S) /\ (pc = "send" => ~auto)
    BY <2>2
  <2> DEFINE l == [pc |-> pc, auto |-> auto, now |-> clock, pending |-> P,
                   queried |-> Q, todo |-> P, cur |-> {}, seen |-> {},
                   ids |-> S, batch |-> {}]
  <2>4. Good(l)
    BY <2>3 DEF Silences
  <2>5. Goto(r, l)
    BY <2>3 DEF Start
  <2> HIDE DEF l
  <2>6. QED
    BY <2>1, <2>4, <2>5, <1>a, <1>g
<1>3. ASSUME NEW r \in Runs, NEW c \in Clients, FindNone(r, c) \/ FindExisting(r, c)
      PROVE  ToldInv'
  <2>1. /\ Good(ToCreate(run[r], c))
        /\ \A T : Good(ToFind(run[r], T))
        /\ \A s : Good(ToReopen(run[r], c, s))
    BY <1>t, <1>p, LocalPoints
  <2>2. QED
    BY <1>3, <2>1, <1>a, <1>g DEF FindNone, FindExisting
<1>4. ASSUME NEW r \in Runs, Create(r) PROVE ToldInv'
  <2>1. PICK a \in AlertIds \ rows, c \in run[r].cur :
          /\ rows' = rows \cup {a} /\ alert'[a] = NewRow(c, run[r].now)
          /\ \A b \in rows : alert'[b] = alert[b]
    BY <1>4, CreateRow
  <2>2. alert'[a].emailAt = Never
    BY <2>1 DEF NewRow
  <2>3. UNCHANGED lastMail /\ Goto(r, ToFind(run[r], run[r].todo))
    BY <1>4 DEF Create
  <2>4. Good(ToFind(run[r], run[r].todo))
    BY <1>t, <1>p, LocalPoints
  <2>5. \A q \in Runs : Good(run'[q])
    BY <2>3, <2>4, <1>o, <1>t DEF Goto
  <2>6. \A b \in rows' : alert'[b].emailAt # Never => alert'[b].emailAt <= lastMail'[b]
    BY <2>1, <2>2, <2>3 DEF ToldInv
  <2>7. QED
    BY <2>5, <2>6 DEF ToldInv
<1>5. ASSUME NEW r \in Runs, Reopen(r) PROVE ToldInv'
  <2>1. Good(ToFind(run[r], run[r].todo))
    BY <1>t, <1>p, LocalPoints
  <2>2. SameMails(alert, alert') /\ rows' = rows
    BY <1>5, StatusRows DEF SameEpisodes, rows
  <2>3. QED
    BY <1>5, <2>1, <2>2, <1>g DEF Reopen
<1>6. ASSUME NEW r \in Runs, ListUnresolved(r) PROVE ToldInv'
  <2>1. \A S : Good(ToResolve(run[r], S))
    BY <1>t, <1>p, LocalPoints
  <2>2. QED
    BY <1>6, <2>1, <1>a, <1>g DEF ListUnresolved
<1>7. ASSUME NEW r \in Runs, Resolve(r) PROVE ToldInv'
  <2>1. PICK a \in run[r].ids :
          /\ a \in rows /\ rows' = rows /\ alert'[a] = ResolvedRow(alert[a], run[r].now)
          /\ \A b \in rows \ {a} : alert'[b] = alert[b]
          /\ Finish(r) \/ Goto(r, [run[r] EXCEPT !.ids = run[r].ids \ {a}])
    BY <1>7, ResolveRow
  <2>2. SameMails(alert, alert')
    BY <1>t, <2>1, RowEpisode DEF SameMails, rows
  <2>3. Good([run[r] EXCEPT !.ids = run[r].ids \ {a}])
    <3>1. [run[r] EXCEPT !.ids = run[r].ids \ {a}].pc = run[r].pc
      BY <1>t, EditFields
    <3>2. QED
      BY <1>7, <3>1, <1>p DEF Resolve
  <2>4. QED
    BY <2>1, <2>2, <2>3, <1>g, <1>i DEF Finish
<1>8. ASSUME NEW r \in Runs, AutoEligible(r) PROVE ToldInv'
  <2>1. Eligible # {} => Good(ToSend(run[r], Eligible, clock))
    BY <1>t, SendFields DEF Silences
  <2>2. QED
    BY <1>8, <2>1, <1>a, <1>g, <1>i DEF AutoEligible, Finish
<1>9. ASSUME NEW r \in Runs, SendSelect(r) PROVE ToldInv'
  <2> DEFINE m == ToSmtp(run[r], ToMail(r))
  <2>1. /\ m.pc = "smtp" /\ m.auto = run[r].auto /\ m.now = run[r].now
        /\ m.ids = run[r].ids /\ m.batch = ToMail(r)
    BY <1>t, SmtpFields DEF Pass
  <2> HIDE DEF m
  \* an eligible alert that is not mailed is over, or its cooldown runs
  <2>2. ASSUME run[r].auto, NEW a \in run[r].ids \ ToMail(r)
        PROVE  Told(alert, lastMail, a, run[r].now)
    <3>1. run[r].ids # {} /\ a \in rows
      BY <1>9, <2>2, <1>t DEF SendSelect, ToldInv, Silences
    <3>2. CASE alert[a].resolvedAt # Never
      BY <3>2 DEF Told
    <3>3. CASE alert[a].resolvedAt = Never
      <4>1. ~ MailDue(alert[a], run[r].now)
        BY <2>2, <3>1, <3>3 DEF ToMail, Unresolved
      <4>2. alert[a].emailAt # Never /\ ~ (alert[a].emailAt < run[r].now - CooldownMins)
        BY <4>1 DEF MailDue
      <4>3. alert[a].emailAt <= lastMail[a]
        BY <3>1, <4>2 DEF ToldInv
      <4>4. alert[a].emailAt \in Date /\ lastMail[a] \in Int /\ alert[a].emailAt \in Int
        BY <3>1, <1>t DEF Row
      <4>5. 0 <= alert[a].emailAt
        BY <4>2, <4>4, ConstantsAssumption DEF Date, Time, Never, ConstantsAssumption
      <4>6. lastMail[a] # Never /\ run[r].now - CooldownMins <= lastMail[a]
        BY <4>2, <4>3, <4>4, <4>5, <1>t DEF Never
      <4>7. QED
        BY <4>6 DEF Told
    <3>4. QED
      BY <3>2, <3>3
  <2>3. ASSUME run[r].auto, NEW a \in run[r].ids \ ToMail(r)
        PROVE  Told(alert', lastMail', a, run[r].now)
    BY <2>2, <2>3, <1>t, SilencesStays
  <2>4. Good(m)
    BY <2>1, <2>3 DEF Silences
  <2>5. Good(ToSmtp(run[r], ToMail(r)))
    BY <2>4 DEF m
  <2>6. QED
    BY <1>9, <2>5, <1>a, <1>g, <1>i DEF SendSelect, Finish
<1>10. ASSUME NEW r \in Runs, SendFails(r) \/ Fail(r) PROVE ToldInv'
  BY <1>10, <1>a, <1>g, <1>i DEF SendFails, Fail, Finish
<1>11. ASSUME NEW r \in Runs, SendMail(r) PROVE ToldInv'
  <2> DEFINE m == [run[r] EXCEPT !.pc = "mark"]
  <2>1. /\ m.pc = "mark" /\ m.auto = run[r].auto /\ m.now = run[r].now
        /\ m.ids = run[r].ids /\ m.batch = run[r].batch
    BY <1>t, EditFields DEF Pass
  <2> HIDE DEF m
  <2>2. ASSUME NEW a \in run[r].batch
        PROVE  lastMail'[a] # Never /\ run[r].now <= lastMail'[a]
    <3>1. a \in AlertIds /\ lastMail[a] \in Int
      BY <1>t
    <3>2. lastMail'[a] = IF lastMail[a] < run[r].now THEN run[r].now ELSE lastMail[a]
      BY <1>11, <3>1 DEF SendMail
    <3>3. -1 < run[r].now
      BY <1>t, ConstantsAssumption
         DEF TypeOK, Local, Time, Date, Never, ConstantsAssumption
    <3>4. QED
      BY <3>1, <3>2, <3>3, <1>t DEF Never
  <2>3. run[r].auto => \A a \in run[r].ids \ run[r].batch :
                          Told(alert', lastMail', a, run[r].now)
    BY <1>11, <1>o DEF SendMail, Silences
  <2>4. Good(m)
    BY <2>1, <2>2, <2>3 DEF Silences
  <2>5. Good([run[r] EXCEPT !.pc = "mark"])
    BY <2>4 DEF m
  <2>6. QED
    BY <1>11, <2>5, <1>a, <1>g DEF SendMail
<1>12. ASSUME NEW r \in Runs, Mark(r) PROVE ToldInv'
  <2>1. PICK a \in run[r].batch :
          /\ a \in rows /\ rows' = rows
          /\ alert'[a] = MailedRow(alert[a], run[r].now)
          /\ \A b \in rows \ {a} : alert'[b] = alert[b]
          /\ \/ Goto(r, [run[r] EXCEPT !.batch = run[r].batch \ {a}])
             \/ run[r].batch = {a} /\ run[r].auto /\ Goto(r, ToAck(run[r]))
             \/ run[r].batch = {a} /\ Finish(r)
    BY <1>12, MarkRow
  <2>2. run[r].pc = "mark" /\ UNCHANGED lastMail
    BY <1>12 DEF Mark
  <2>3. /\ lastMail[a] # Never /\ run[r].now <= lastMail[a]
        /\ \A b \in run[r].batch : lastMail'[b] # Never /\ run[r].now <= lastMail'[b]
        /\ run[r].auto => \A b \in run[r].ids \ run[r].batch :
                            Told(alert', lastMail', b, run[r].now)
    BY <1>o, <2>1, <2>2 DEF ToldInv, Silences
  <2>4. Told(alert', lastMail', a, run[r].now)
    BY <2>1, <2>2, <2>3, <1>t DEF Told
  <2>5. \A b \in rows' : alert'[b].emailAt # Never => alert'[b].emailAt <= lastMail'[b]
    <3>1. alert'[a].emailAt = run[r].now
      BY <1>t, <2>1, RowEpisode
    <3>2. QED
      BY <2>1, <2>2, <2>3, <3>1 DEF ToldInv
  <2>6. Good([run[r] EXCEPT !.batch = run[r].batch \ {a}])
    <3> DEFINE m == [run[r] EXCEPT !.batch = run[r].batch \ {a}]
    <3>1. /\ m.pc = run[r].pc /\ m.auto = run[r].auto /\ m.now = run[r].now
          /\ m.ids = run[r].ids /\ m.batch = run[r].batch \ {a}
      BY <1>t, EditFields DEF Pass
    <3> HIDE DEF m
    <3>2. Good(m)
      BY <2>2, <2>3, <2>4, <3>1 DEF Silences
    <3>3. QED
      BY <3>2 DEF m
  <2>7. run[r].auto /\ run[r].batch = {a} => Good(ToAck(run[r]))
    <3> DEFINE m == ToAck(run[r])
    <3>1. m.pc = "ack" /\ m.now = run[r].now /\ m.ids = run[r].ids
      BY <1>t, AckFields DEF Pass
    <3> HIDE DEF m
    <3>2. run[r].auto /\ run[r].batch = {a} => Good(m)
      BY <2>3, <2>4, <3>1 DEF Silences
    <3>3. QED
      BY <3>2 DEF m
  <2>8. \A q \in Runs : Good(run'[q])
    BY <2>1, <2>6, <2>7, <1>o, <1>i, <1>t DEF Goto, Finish
  <2>9. QED
    BY <2>5, <2>8 DEF ToldInv
<1>13. ASSUME NEW r \in Runs, AutoAck(r) PROVE ToldInv'
  <2>1. \A a \in run[r].ids : Good([run[r] EXCEPT !.ids = run[r].ids \ {a}])
    <3>1. ASSUME NEW a \in run[r].ids
          PROVE  Good([run[r] EXCEPT !.ids = run[r].ids \ {a}])
      <4> DEFINE m == [run[r] EXCEPT !.ids = run[r].ids \ {a}]
      <4>1. m.pc = run[r].pc /\ m.now = run[r].now /\ m.ids = run[r].ids \ {a}
        BY <1>t, EditFields DEF Pass
      <4> HIDE DEF m
      <4>2. Good(m)
        BY <1>13, <1>o, <4>1 DEF AutoAck, Silences
      <4>3. QED
        BY <4>2 DEF m
    <3>2. QED
      BY <3>1
  <2>2. SameMails(alert, alert') /\ rows' = rows
    BY <1>13, StatusRows DEF SameEpisodes, rows
  <2>3. QED
    BY <1>13, <2>1, <2>2, <1>g, <1>i DEF AutoAck, Finish
<1>14. User => ToldInv'
  <2>1. User => UNCHANGED run
    BY DEF User, Acknowledge, Suppress
  <2>2. User => SameMails(alert, alert') /\ rows' = rows
    BY UserRows DEF SameEpisodes, rows
  <2>3. QED
    BY <2>1, <2>2, <1>1
<1>15. QED
  BY <1>1, <1>2, <1>3, <1>4, <1>5, <1>6, <1>7, <1>8, <1>9, <1>10, <1>11, <1>12,
     <1>13, <1>14, <1>a
     DEF Next, Step, Tick, vars

\* The automatic acknowledgement writes only rows of alerts that are over or that a
\* delivered mail named within the cooldown, whatever the requests in flight do to
\* each other, whatever names people acknowledge under, and wherever a call fails.
THEOREM AutoAckNotified == Spec => AutoAckMeansNotified
<1>1. Init => ToldInv
  BY DEF Init, ToldInv, Silences, Idle, rows
<1>2. ASSUME TypeOK, ToldInv, [Next]_vars, NEW r \in Runs, NEW a \in rows,
             run[r].pc = "ack", run'[r] # run[r], alert'[a] # alert[a]
      PROVE  Told(alert, lastMail, a, run[r].now)
  <2>t. run \in [Runs -> Local] /\ run[r].ids \subseteq rows
    BY <1>2 DEF TypeOK, Local
  <2>g. ASSUME NEW q \in Runs, NEW l, Goto(q, l) PROVE q = r
    BY <1>2, <2>t, <2>g DEF Goto
  <2>1. CASE AutoAck(r)
    <3>1. PICK b \in run[r].ids : SetRow(b, AckedRow(alert[b], System, clock))
      BY <2>1 DEF AutoAck
    <3>2. a = b
      BY <1>2, <2>t, <3>1, OneRow
    <3>3. QED
      BY <1>2, <3>1, <3>2 DEF ToldInv, Silences
  <2>2. \A q \in Runs : ~ Arrive(q)
    BY <1>2, <2>g DEF Arrive, Start, RefreshAll, RefreshOneStale, RefreshOneClear, Notify
  <2>3. \A q \in Runs, c \in Clients : ~ FindNone(q, c) /\ ~ FindExisting(q, c)
    BY <1>2, <2>g DEF FindNone, FindExisting
  <2>4. \A q \in Runs : ~ Create(q) /\ ~ Reopen(q) /\ ~ ListUnresolved(q) /\ ~ Resolve(q)
    BY <1>2, <2>g DEF Create, Reopen, ListUnresolved, Resolve, Finish
  <2>5. \A q \in Runs : /\ ~ AutoEligible(q) /\ ~ SendSelect(q) /\ ~ SendFails(q)
                        /\ ~ SendMail(q) /\ ~ Mark(q) /\ ~ Fail(q)
    BY <1>2, <2>g DEF AutoEligible, SendSelect, SendFails, SendMail, Mark, Fail, Finish
  <2>6. ~ User /\ ~ Tick
    BY <1>2 DEF User, Acknowledge, Suppress, Tick
  <2>7. \E q \in Runs : AutoAck(q)
    BY <1>2, <2>2, <2>3, <2>4, <2>5, <2>6 DEF Next, Step, vars
  <2>8. AutoAck(r)
    BY <2>7, <2>g DEF AutoAck, Finish
  <2>9. QED
    BY <2>1, <2>8
<1>3. TypeOK /\ ToldInv /\ [Next]_vars =>
        [\A r \in Runs, a \in rows :
           run[r].pc = "ack" /\ run'[r] # run[r] /\ alert'[a] # alert[a] =>
             \/ alert[a].resolvedAt # Never
             \/ lastMail[a] # Never /\ run[r].now - CooldownMins <= lastMail[a]]_vars
  BY <1>2 DEF Told
<1>4. QED
  BY <1>1, <1>3, ToldStep, TypeCorrect, PTL DEF Spec, AutoAckMeansNotified

----------------------------------------------------------------------------
(* A pass over the table leaves it in step with the queues it found *)

Open(t) == {a \in DOMAIN t : t[a].resolvedAt = Never}
Has(t, c) == \E a \in Open(t) : t[a].client = c

\* What the locals l of a pass say about the table t: a pending client without
\* an active alert is still to come, or the one about to get its alert; once
\* all have theirs, only the rows listed for it are those of other clients.
Tracks(l, t) ==
  /\ l.pc # "create" => l.cur = {}
  /\ l.pc = "create" => \A c, d \in l.cur : c = d
  /\ l.pc \in {"find", "create", "reopen"} =>
       \A c \in l.pending : c \in l.todo \cup l.cur \/ Has(t, c)
  /\ l.pc = "resolve" =>
       /\ \A c \in l.pending : Has(t, c)
       /\ \A a \in Open(t) : t[a].client \in l.pending \/ a \in l.ids
       /\ \A a \in l.ids : t[a].client \notin l.pending
  /\ l.pc \in {"send", "smtp", "mark", "ack"} /\ l.auto =>
       /\ \A c \in l.pending : Has(t, c)
       /\ \A a \in Open(t) : t[a].client \in l.pending

TracksInv == \A r \in Runs : Tracks(run[r], alert)

\* The episodes are all that matters of the table.
LEMMA SameTracks ==
  ASSUME NEW t, NEW u, SameEpisodes(t, u)
  PROVE  /\ Open(u) = Open(t) /\ \A c : Has(u, c) <=> Has(t, c)
         /\ \A l : l.ids \subseteq DOMAIN t /\ Tracks(l, t) => Tracks(l, u)
<1>1. Open(u) = Open(t) /\ \A a \in DOMAIN t : u[a].client = t[a].client
  BY DEF SameEpisodes, SameEpisode, Open
<1>2. \A c : Has(u, c) <=> Has(t, c)
  BY <1>1 DEF Has, Open
<1>3. ASSUME NEW l, l.ids \subseteq DOMAIN t, Tracks(l, t) PROVE Tracks(l, u)
  <2>1. \A a \in Open(t) : u[a].client = t[a].client
    BY <1>1 DEF Open
  <2> HIDE DEF Open, Has
  <2>2. QED
    BY <1>1, <1>2, <1>3, <2>1 DEF Tracks
<1>4. QED
  BY <1>1, <1>2, <1>3

LEMMA TracksStep ==
  ASSUME \A r, q \in Runs : r = q
  PROVE  TypeOK /\ TracksInv /\ [Next]_vars => TracksInv'
<1> SUFFICES ASSUME TypeOK, TracksInv, [Next]_vars PROVE TracksInv'
  OBVIOUS
<1>t. /\ run \in [Runs -> Local] /\ alert \in [rows -> Row] /\ rows = DOMAIN alert
      /\ \A r \in Runs : /\ run[r] \in Local /\ run[r].ids \subseteq rows
                         /\ run[r].now # Never
  BY ConstantsAssumption
     DEF TypeOK, rows, Local, Time, Never, ConstantsAssumption
<1>o. \A r \in Runs : Tracks(run[r], alert)
  BY DEF TracksInv
<1>g. ASSUME NEW r \in Runs, NEW l, Goto(r, l), Tracks(l, alert') PROVE TracksInv'
  BY <1>g, <1>t DEF TracksInv, Goto
<1>f. ASSUME NEW r \in Runs, Finish(r) PROVE TracksInv'
  BY <1>f, <1>g DEF Finish, Idle, Tracks
<1>1. UNCHANGED run /\ SameEpisodes(alert, alert') => TracksInv'
  BY <1>t, <1>o, SameTracks DEF TracksInv
<1>2. ASSUME NEW r \in Runs, Arrive(r) PROVE TracksInv'
  <2>1. \/ \E P, Q : Start(r, "find", TRUE, P, Q, {})
        \/ \E P, Q, S : \E pc \in {"clear", "send"} : Start(r, pc, FALSE, P, Q, S)
    BY <1>2 DEF Arrive, RefreshAll, RefreshOneStale, RefreshOneClear, Notify
  <2>2. ASSUME NEW P, NEW Q, Start(r, "find", TRUE, P, Q, {}) PROVE TracksInv'
    BY <2>2, <1>g DEF Start, Tracks
  <2>3. ASSUME NEW pc \in {"clear", "send"}, NEW P, NEW Q, NEW S,
               Start(r, pc, FALSE, P, Q, S)
        PROVE  TracksInv'
    BY <2>3, <1>g DEF Start, Tracks
  <2>4. QED
    BY <2>1, <2>2, <2>3
<1>3. ASSUME NEW r \in Runs, NEW c \in Clients, FindNone(r, c) PROVE TracksInv'
  <2> DEFINE m == ToCreate(run[r], c)
  <2>1. /\ m.pc = "create" /\ m.todo = run[r].todo \ {c} /\ m.cur = {c}
        /\ m.pending = run[r].pending
    BY <1>t, CreateFields DEF Pass
  <2>2. Goto(r, m) /\ alert' = alert /\ run[r].pc = "find"
    BY <1>3 DEF FindNone
  <2> HIDE DEF m
  <2>3. Tracks(m, alert)
    BY <1>o, <2>1, <2>2 DEF Tracks
  <2>4. QED
    BY <2>2, <2>3, <1>g
<1>4. ASSUME NEW r \in Runs, NEW c \in Clients, FindExisting(r, c) PROVE TracksInv'
  <2>1. Has(alert, c)
    BY <1>4 DEF FindExisting, NewestActive, Active, Has, Open, rows
  <2>2. PICK m : /\ Goto(r, m) /\ m.pending = run[r].pending
                 /\ m.todo = run[r].todo \ {c} /\ m.cur = {}
                 /\ m.pc \in {"find", "reopen"}
    <3>1. \/ Goto(r, ToFind(run[r], run[r].todo \ {c}))
          \/ \E s : Goto(r, ToReopen(run[r], c, s))
      BY <1>4 DEF FindExisting
    <3>2. run[r].cur = {}
      BY <1>4, <1>o DEF FindExisting, Tracks
    <3>3. LET m == ToFind(run[r], run[r].todo \ {c})
          IN  /\ m.pending = run[r].pending /\ m.todo = run[r].todo \ {c}
              /\ m.cur = {} /\ m.pc = "find"
      BY <1>t, FindFields DEF Pass
    <3>4. \A s : LET m == ToReopen(run[r], c, s)
                 IN  /\ m.pending = run[r].pending /\ m.todo = run[r].todo \ {c}
                     /\ m.cur = {} /\ m.pc = "reopen"
      BY <1>t, <3>2, ReopenFields DEF Pass
    <3>5. QED
      BY <3>1, <3>3, <3>4
  <2>3. Tracks(m, alert)
    BY <1>4, <1>o, <2>1, <2>2 DEF Tracks, FindExisting
  <2>4. QED
    BY <1>4, <2>2, <2>3, <1>g DEF FindExisting
<1>5. ASSUME NEW r \in Runs, Create(r) PROVE TracksInv'
  <2> DEFINE m == ToFind(run[r], run[r].todo)
  <2>1. /\ m.pc = "find" /\ m.todo = run[r].todo /\ m.cur = {}
        /\ m.pending = run[r].pending
    BY <1>t, FindFields DEF Pass
  <2>2. Goto(r, m) /\ run[r].pc = "create"
    BY <1>5 DEF Create
  <2> HIDE DEF m
  <2>3. PICK a \in AlertIds \ rows, c \in run[r].cur :
          /\ rows' = rows \cup {a} /\ alert'[a] = NewRow(c, run[r].now)
          /\ \A b \in rows : alert'[b] = alert[b]
    BY <1>5, CreateRow
  <2>4. Has(alert', c) /\ \A d : Has(alert, d) => Has(alert', d)
    BY <2>3 DEF Has, Open, NewRow, rows
  <2>5. run[r].cur = {c}
    BY <1>o, <2>2, <2>3 DEF Tracks
  <2>6. Tracks(m, alert')
    BY <1>o, <2>1, <2>2, <2>4, <2>5 DEF Tracks
  <2>7. QED
    BY <2>2, <2>6, <1>g
<1>6. ASSUME NEW r \in Runs, Reopen(r) PROVE TracksInv'
  <2> DEFINE m == ToFind(run[r], run[r].todo)
  <2>1. /\ m.pc = "find" /\ m.todo = run[r].todo /\ m.cur = {} /\ m.ids = run[r].ids
        /\ m.pending = run[r].pending
    BY <1>t, FindFields DEF Pass
  <2>2. Goto(r, m) /\ run[r].pc = "reopen"
    BY <1>6 DEF Reopen
  <2> HIDE DEF m
  <2>3. Tracks(m, alert)
    BY <1>o, <2>1, <2>2 DEF Tracks
  <2>4. Tracks(m, alert')
    BY <1>6, <1>t, <2>1, <2>3, StatusRows, SameTracks
  <2>5. QED
    BY <2>2, <2>4, <1>g
<1>7. ASSUME NEW r \in Runs, ListUnresolved(r) PROVE TracksInv'
  <2> DEFINE S == {a \in Unresolved : alert[a].client \notin run[r].pending}
             m == ToResolve(run[r], S)
  <2>1. /\ m.pc = "resolve" /\ m.cur = run[r].cur /\ m.ids = S
        /\ m.pending = run[r].pending
    BY <1>t, ResolveFields DEF Pass
  <2>2. Goto(r, m) /\ alert' = alert /\ run[r].pc = "find" /\ run[r].todo = {}
    BY <1>7 DEF ListUnresolved
  <2>3. S = {a \in Open(alert) : alert[a].client \notin run[r].pending}
    BY DEF Open, Unresolved, rows
  <2> HIDE DEF m, S
  <2>4. Tracks(m, alert)
    BY <1>o, <2>1, <2>2, <2>3 DEF Tracks
  <2>5. QED
    BY <2>2, <2>4, <1>g
<1>8. ASSUME NEW r \in Runs, Resolve(r) PROVE TracksInv'
  <2>1. PICK a \in run[r].ids :
          /\ a \in rows /\ rows' = rows
          /\ alert'[a] = ResolvedRow(alert[a], run[r].now)
          /\ \A b \in rows \ {a} : alert'[b] = alert[b]
          /\ Finish(r) \/ Goto(r, [run[r] EXCEPT !.ids = run[r].ids \ {a}])
    BY <1>8, ResolveRow
  <2> DEFINE m == [run[r] EXCEPT !.ids = run[r].ids \ {a}]
  <2>2. /\ m.pc = run[r].pc /\ m.cur = run[r].cur /\ m.ids = run[r].ids \ {a}
        /\ m.pending = run[r].pending
    BY <1>t, EditFields DEF Pass
  <2>3. Finish(r) \/ Goto(r, m)
    BY <2>1
  <2> HIDE DEF m
  <2>4. alert'[a].resolvedAt # Never /\ alert'[a].client = alert[a].client
    <3>1. /\ ResolvedRow(alert[a], run[r].now).resolvedAt = run[r].now
          /\ ResolvedRow(alert[a], run[r].now).client = alert[a].client
      BY <1>t, <2>1, RowEpisode
    <3>2. QED
      BY <1>t, <2>1, <3>1
  <2>5. /\ Open(alert') = Open(alert) \ {a}
        /\ \A b \in rows : alert'[b].client = alert[b].client
    BY <2>1, <2>4 DEF Open, rows
  <2>6. \A c : Has(alert, c) /\ c # alert[a].client => Has(alert', c)
    BY <2>5 DEF Has, Open, rows
  <2>7. Tracks(m, alert')
    <3>1. CASE run[r].pc = "resolve"
      <4>1. alert[a].client \notin run[r].pending
        BY <1>o, <2>1, <3>1 DEF Tracks
      <4>2. \A c \in run[r].pending : Has(alert', c)
        BY <1>o, <2>6, <3>1, <4>1 DEF Tracks
      <4>3. \A b \in Open(alert') : /\ b # a /\ b \in Open(alert)
                                    /\ alert'[b].client = alert[b].client
        BY <2>5 DEF Open, rows
      <4>4. \A b \in Open(alert') : alert'[b].client \in run[r].pending \/ b \in m.ids
        BY <1>o, <2>2, <3>1, <4>3 DEF Tracks
      <4>5. \A b \in m.ids : alert'[b].client \notin run[r].pending
        BY <1>o, <1>t, <2>2, <2>5, <3>1 DEF Tracks
      <4>6. QED
        BY <1>o, <2>2, <3>1, <4>2, <4>4, <4>5 DEF Tracks
    <3>2. CASE run[r].pc = "clear"
      BY <1>o, <2>2, <3>2 DEF Tracks
    <3>3. QED
      BY <1>8, <3>1, <3>2 DEF Resolve
  <2>8. QED
    BY <2>3, <2>7, <1>f, <1>g
\* the steps of the notification leave the pass and its episodes alone
<1>n. ASSUME NEW r \in Runs, NEW m, Goto(r, m), SameEpisodes(alert, alert'),
             run[r].pc \in {"send", "smtp", "mark", "ack"},
             m.pc \in {"send", "smtp", "mark", "ack"},
             Pass(m, run[r]), m.cur = run[r].cur
      PROVE  TracksInv'
  <2>1. Tracks(m, alert')
    <3>1. m.cur = {}
      BY <1>n, <1>o DEF Tracks
    <3>2. m.auto => /\ \A c \in m.pending : Has(alert, c)
                    /\ \A a \in Open(alert) : alert[a].client \in m.pending
      BY <1>n, <1>o DEF Tracks, Pass
    <3>3. \A a \in Open(alert) : alert'[a].client = alert[a].client
      BY <1>n DEF SameEpisodes, SameEpisode, Open
    <3>4. QED
      BY <1>n, <3>1, <3>2, <3>3, SameTracks DEF Tracks
  <2>2. QED
    BY <1>n, <2>1, <1>g
<1>9. ASSUME NEW r \in Runs, AutoEligible(r) PROVE TracksInv'
  <2> DEFINE m == ToSend(run[r], Eligible, clock)
  <2>1. /\ m.pc = "send" /\ m.cur = run[r].cur /\ m.pending = run[r].pending
    BY <1>t, SendFields
  <2>2. /\ Finish(r) \/ Goto(r, m)
        /\ alert' = alert /\ run[r].pc = "resolve" /\ run[r].ids = {}
    BY <1>9 DEF AutoEligible
  <2> HIDE DEF m
  <2>3. Tracks(m, alert)
    BY <1>o, <2>1, <2>2 DEF Tracks
  <2>4. QED
    BY <2>2, <2>3, <1>f, <1>g
<1>10. ASSUME NEW r \in Runs, SendSelect(r) PROVE TracksInv'
  BY <1>10, <1>t, <1>n, <1>f, SmtpFields, SameRows DEF SendSelect
<1>11. ASSUME NEW r \in Runs, SendFails(r) \/ Fail(r) PROVE TracksInv'
  BY <1>11, <1>f DEF SendFails, Fail
<1>12. ASSUME NEW r \in Runs, SendMail(r) PROVE TracksInv'
  BY <1>12, <1>t, <1>n, EditFields, SameRows DEF SendMail
<1>13. ASSUME NEW r \in Runs, Mark(r) PROVE TracksInv'
  <2>1. \/ \E S : Goto(r, [run[r] EXCEPT !.batch = S])
        \/ Goto(r, ToAck(run[r])) \/ Finish(r)
    BY <1>13, MarkRow
  <2>2. \A S : LET m == [run[r] EXCEPT !.batch = S]
               IN  Pass(m, run[r]) /\ m.pc = run[r].pc /\ m.cur = run[r].cur
    <3>1. run[r] \in Local
      BY <1>t
    <3>2. QED
      BY <3>1, EditFields
  <2>3. LET m == ToAck(run[r])
        IN  Pass(m, run[r]) /\ m.pc = "ack" /\ m.cur = run[r].cur
    BY <1>t, AckFields
  <2>4. SameEpisodes(alert, alert') /\ run[r].pc = "mark"
    BY <1>13, MarkEpisodes DEF Mark
  <2>5. QED
    BY <2>1, <2>2, <2>3, <2>4, <1>n, <1>f
<1>14. ASSUME NEW r \in Runs, AutoAck(r) PROVE TracksInv'
  <2>1. \A S : LET m == [run[r] EXCEPT !.ids = S]
               IN  Pass(m, run[r]) /\ m.pc = run[r].pc /\ m.cur = run[r].cur
    <3>1. run[r] \in Local
      BY <1>t
    <3>2. QED
      BY <3>1, EditFields
  <2>2. /\ SameEpisodes(alert, alert') /\ run[r].pc = "ack"
        /\ Finish(r) \/ \E S : Goto(r, [run[r] EXCEPT !.ids = S])
    BY <1>14, StatusRows DEF AutoAck
  <2>3. QED
    BY <2>1, <2>2, <1>n, <1>f
<1>15. User => TracksInv'
  <2>1. User => UNCHANGED run
    BY DEF User, Acknowledge, Suppress
  <2>2. QED
    BY <2>1, <1>1, UserRows
<1>16. UNCHANGED <<alert, run>> => TracksInv'
  BY <1>1, SameRows
<1>17. QED
  BY <1>2, <1>3, <1>4, <1>5, <1>6, <1>7, <1>8, <1>9, <1>10, <1>11, <1>12, <1>13,
     <1>14, <1>15, <1>16
     DEF Next, Step, Tick, vars

\* With one request in flight at a time, when a pass over the table is over the
\* clients with an active alert are exactly those it found pending, wherever
\* other passes have failed before it.
THEOREM RefreshTracks ==
  ASSUME \A r, q \in Runs : r = q
  PROVE  Spec => []RefreshTracksPending
<1>1. Init => TracksInv
  BY DEF Init, TracksInv, Tracks, Idle
<1>2. TypeOK /\ TracksInv /\ [Next]_vars => TracksInv'
  BY TracksStep
<1>3. TracksInv => RefreshTracksPending
  <2> SUFFICES ASSUME TracksInv, NEW r \in Runs,
                      \/ run[r].pc = "resolve" /\ run[r].ids = {}
                      \/ run[r].pc \in {"send", "smtp", "mark", "ack"} /\ run[r].auto
               PROVE  {alert[a].client : a \in Unresolved} = run[r].pending
    BY DEF RefreshTracksPending
  <2>1. /\ \A c \in run[r].pending : Has(alert, c)
        /\ \A a \in Open(alert) : alert[a].client \in run[r].pending
    BY DEF TracksInv, Tracks
  <2>2. Open(alert) = Unresolved
    BY DEF Open, Unresolved, rows
  <2>3. QED
    BY <2>1, <2>2 DEF Has
<1>4. QED
  BY <1>1, <1>2, <1>3, TypeCorrect, PTL DEF Spec

----------------------------------------------------------------------------
(* Who resolves what it has not seen *)

\* A pass of the dashboard in whose rounds every client answered has seen them all.
QueriedInv ==
  \A r \in Runs : /\ run[r].pc # "clear"
                  /\ run[r].pc \in {"find", "create", "reopen", "resolve"} =>
                       run[r].queried = Clients

LEMMA QueriedStep ==
  ASSUME "one" \notin Requests, Unreachable = {}
  PROVE  TypeOK /\ QueriedInv /\ [Next]_vars => QueriedInv'
<1> SUFFICES ASSUME TypeOK, QueriedInv, [Next]_vars PROVE QueriedInv'
  OBVIOUS
<1>t. run \in [Runs -> Local] /\ \A r \in Runs : run[r] \in Local
  BY DEF TypeOK
<1> DEFINE QI(l) == /\ l.pc # "clear"
                    /\ l.pc \in {"find", "create", "reopen", "resolve"} =>
                         l.queried = Clients
<1>o. \A r \in Runs : QI(run[r])
  BY DEF QueriedInv
<1>g. ASSUME NEW r \in Runs, NEW l, Goto(r, l), QI(l) PROVE QueriedInv'
  BY <1>g, <1>o, <1>t DEF QueriedInv, Goto
<1>f. ASSUME NEW r \in Runs, Finish(r) PROVE QueriedInv'
  BY <1>f, <1>g DEF Finish, Idle
\* the pass goes on, or is past the rows it resolves
<1>p. ASSUME NEW r \in Runs, NEW l, Goto(r, l), Pass(l, run[r]),
             \/ run[r].pc \in {"find", "create", "reopen", "resolve"} /\ l.pc # "clear"
             \/ l.pc \in {"send", "smtp", "mark", "ack"}
      PROVE  QueriedInv'
  BY <1>p, <1>o, <1>g DEF Pass
<1>1. UNCHANGED run => QueriedInv'
  BY DEF QueriedInv
<1>2. ASSUME NEW r \in Runs, Arrive(r) PROVE QueriedInv'
  <2>1. CASE RefreshAll(r)
    <3>1. PICK failed \in SUBSET Unreachable :
            \E P : Start(r, "find", TRUE, P, Clients \ failed, {})
      BY <2>1 DEF RefreshAll
    <3>2. Clients \ failed = Clients
      BY <3>1
    <3>3. PICK P : Start(r, "find", TRUE, P, Clients, {})
      BY <3>1, <3>2
    <3>4. QED
      BY <3>3, <1>g DEF Start
  <2>2. CASE \E S \in SUBSET rows : Notify(r, S)
    BY <2>2, <1>g DEF Notify, Start
  <2>3. QED
    BY <1>2, <2>1, <2>2 DEF Arrive, RefreshOneStale, RefreshOneClear
<1>3. ASSUME NEW r \in Runs, NEW c \in Clients, FindNone(r, c) \/ FindExisting(r, c)
      PROVE  QueriedInv'
  <2>1. LET m == ToCreate(run[r], c) IN Pass(m, run[r]) /\ m.pc = "create"
    BY <1>t, CreateFields
  <2>2. \A T : LET m == ToFind(run[r], T) IN Pass(m, run[r]) /\ m.pc = "find"
    BY <1>t, FindFields
  <2>3. \A s : LET m == ToReopen(run[r], c, s) IN Pass(m, run[r]) /\ m.pc = "reopen"
    BY <1>t, ReopenFields
  <2>4. QED
    BY <1>3, <2>1, <2>2, <2>3, <1>p DEF FindNone, FindExisting
<1>4. ASSUME NEW r \in Runs, Create(r) \/ Reopen(r) PROVE QueriedInv'
  BY <1>4, <1>t, <1>p, FindFields DEF Create, Reopen
<1>5. ASSUME NEW r \in Runs, ListUnresolved(r) PROVE QueriedInv'
  BY <1>5, <1>t, <1>p, ResolveFields DEF ListUnresolved
<1>6. ASSUME NEW r \in Runs, Resolve(r) PROVE QueriedInv'
  <2>1. \A S : LET m == [run[r] EXCEPT !.ids = S] IN Pass(m, run[r]) /\ m.pc = run[r].pc
    <3>1. run[r] \in Local
      BY <1>t
    <3>2. QED
      BY <3>1, EditFields
  <2>2. run[r].pc = "resolve" /\ (Finish(r) \/ \E S : Goto(r, [run[r] EXCEPT !.ids = S]))
    BY <1>6, <1>o DEF Resolve
  <2>3. QED
    BY <2>1, <2>2, <1>p, <1>f
<1>7. ASSUME NEW r \in Runs, AutoEligible(r) PROVE QueriedInv'
  <2>1. ToSend(run[r], Eligible, clock).pc = "send"
    BY <1>t, SendFields
  <2>2. QED
    BY <1>7, <2>1, <1>g, <1>f DEF AutoEligible
<1>8. ASSUME NEW r \in Runs, SendSelect(r) PROVE QueriedInv'
  BY <1>8, <1>t, <1>p, <1>f, SmtpFields DEF SendSelect
<1>9. ASSUME NEW r \in Runs, SendFails(r) \/ Fail(r) PROVE QueriedInv'
  BY <1>9, <1>f DEF SendFails, Fail
<1>10. ASSUME NEW r \in Runs, SendMail(r) PROVE QueriedInv'
  BY <1>10, <1>t, <1>p, EditFields DEF SendMail
<1>11. ASSUME NEW r \in Runs, Mark(r) PROVE QueriedInv'
  <2>1. \/ \E S : Goto(r, [run[r] EXCEPT !.batch = S])
        \/ Goto(r, ToAck(run[r])) \/ Finish(r)
    BY <1>11, MarkRow
  <2>2. \A S : LET m == [run[r] EXCEPT !.batch = S] IN Pass(m, run[r]) /\ m.pc = run[r].pc
    <3>1. run[r] \in Local
      BY <1>t
    <3>2. QED
      BY <3>1, EditFields
  <2>3. Pass(ToAck(run[r]), run[r]) /\ ToAck(run[r]).pc = "ack"
    BY <1>t, AckFields
  <2>4. QED
    BY <1>11, <2>1, <2>2, <2>3, <1>p, <1>f DEF Mark
<1>12. ASSUME NEW r \in Runs, AutoAck(r) PROVE QueriedInv'
  <2>1. \A S : LET m == [run[r] EXCEPT !.ids = S] IN Pass(m, run[r]) /\ m.pc = run[r].pc
    <3>1. run[r] \in Local
      BY <1>t
    <3>2. QED
      BY <3>1, EditFields
  <2>2. QED
    BY <1>12, <2>1, <1>p, <1>f DEF AutoAck
<1>13. QED
  BY <1>1, <1>2, <1>3, <1>4, <1>5, <1>6, <1>7, <1>8, <1>9, <1>10, <1>11, <1>12
     DEF Next, Step, User, Acknowledge, Suppress, Tick, vars

\* The two ways in which a request resolves an alert of a client it has not seen,
\* a refresh of one client and a client that did not answer, are the only ones.
THEOREM ResolvesWhatItSaw ==
  ASSUME "one" \notin Requests, Unreachable = {}
  PROVE  Spec => ResolvesOnlyQueried
<1>1. Init => QueriedInv
  BY DEF Init, QueriedInv, Idle
<1>2. TypeOK /\ QueriedInv /\ [Next]_vars => QueriedInv'
  BY QueriedStep
<1>3. TypeOK /\ QueriedInv /\ [Next]_vars =>
        [\A r \in Runs : \A a \in rows :
           /\ run[r].pc \in {"resolve", "clear"} /\ run'[r] # run[r]
           /\ alert[a].resolvedAt = Never /\ alert'[a].resolvedAt # Never
           => alert[a].client \in run[r].queried]_vars
  <2> SUFFICES ASSUME TypeOK, QueriedInv, NEW r \in Runs, NEW a \in rows,
                      run[r].pc \in {"resolve", "clear"}
               PROVE  alert[a].client \in run[r].queried
    OBVIOUS
  <2>1. alert[a].client \in Clients
    BY DEF TypeOK, Row
  <2>2. QED
    BY <2>1 DEF QueriedInv
<1>4. QED
  BY <1>1, <1>2, <1>3, TypeCorrect, PTL DEF Spec, ResolvesOnlyQueried

----------------------------------------------------------------------------
(* The outage-impact calculator *)

Calcs == [on : BOOLEAN, cancelled : BOOLEAN, old : BOOLEAN]

\* Until a calculation was given up for stale the lock is held exactly by the
\* one that is under way.
LockInv ==
  /\ activeCalc \in Calcs
  /\ ~ cleared => \/ querying = {} /\ ~ activeCalc.on
                  \/ activeCalc.on /\ \E w \in querying : querying = {w}

LEMMA CalcEdits ==
  ASSUME NEW x \in Calcs
  PROVE  /\ LET y == [x EXCEPT !.old = TRUE] IN y \in Calcs /\ y.on = x.on
         /\ \A d \in BOOLEAN : LET y == [x EXCEPT !.cancelled = d]
                               IN  y \in Calcs /\ y.on = x.on
         /\ LET y == [x EXCEPT !.on = TRUE] IN y \in Calcs /\ y.on = TRUE
         /\ NoCalc \in Calcs /\ NoCalc.on = FALSE
<1>1. LET y == [x EXCEPT !.old = TRUE] IN y \in Calcs /\ y.on = x.on
  BY DEF Calcs
<1>2. \A d \in BOOLEAN : LET y == [x EXCEPT !.cancelled = d]
                         IN  y \in Calcs /\ y.on = x.on
  BY DEF Calcs
<1>3. LET y == [x EXCEPT !.on = TRUE] IN y \in Calcs /\ y.on = TRUE
  BY DEF Calcs
<1>4. NoCalc \in Calcs /\ NoCalc.on = FALSE
  BY DEF Calcs, NoCalc
<1>5. QED
  BY <1>1, <1>2, <1>3, <1>4

LEMMA LockStep == LockInv /\ [ImpactNext]_impactVars => LockInv'
<1> SUFFICES ASSUME LockInv, [ImpactNext]_impactVars PROVE LockInv'
  OBVIOUS
<1>t. activeCalc \in Calcs
  BY DEF LockInv
\* the lock is held as before, by as many
<1>s. ASSUME activeCalc' \in Calcs, activeCalc'.on = activeCalc.on,
             UNCHANGED <<querying, cleared>>
      PROVE  LockInv'
  BY <1>s DEF LockInv
<1>1. CASE Ages
  <2>1. activeCalc' = [activeCalc EXCEPT !.old = TRUE] /\ UNCHANGED <<querying, cleared>>
    BY <1>1 DEF Ages
  <2>2. QED
    BY <2>1, <1>t, <1>s, CalcEdits
<1>2. CASE CancelCalc
  <2>1. /\ activeCalc' = [activeCalc EXCEPT !.cancelled = TRUE]
        /\ UNCHANGED <<querying, cleared>>
    BY <1>2 DEF CancelCalc
  <2>2. QED
    BY <2>1, <1>t, <1>s, CalcEdits
<1>3. ASSUME NEW v \in Viewers, PostImpact(v) PROVE LockInv'
  <2>1. CASE activeCalc.on /\ ~ activeCalc.old
    <3>1. /\ UNCHANGED <<activeCalc, querying>>
          /\ cleared' = (cleared \/ (activeCalc.on /\ activeCalc.old))
      BY <1>3, <2>1 DEF PostImpact
    <3>2. QED
      BY <3>1, <2>1 DEF LockInv
  <2>2. CASE ~ (activeCalc.on /\ ~ activeCalc.old)
    <3>1. /\ \/ activeCalc' = [NoCalc EXCEPT !.on = TRUE] /\ querying' = querying \cup {<<v, TRUE>>}
             \/ activeCalc' = NoCalc /\ querying' = querying
          /\ cleared' = (cleared \/ (activeCalc.on /\ activeCalc.old))
      BY <1>3, <2>2 DEF PostImpact
    <3>2. ~ cleared' => ~ cleared /\ querying = {}
      BY <3>1, <2>2 DEF LockInv
    <3>3. /\ NoCalc \in Calcs /\ NoCalc.on = FALSE
          /\ [NoCalc EXCEPT !.on = TRUE] \in Calcs
          /\ [NoCalc EXCEPT !.on = TRUE].on = TRUE
      BY <1>t, CalcEdits
    <3>4. CASE activeCalc' = NoCalc /\ querying' = querying
      BY <3>2, <3>3, <3>4 DEF LockInv
    <3>5. CASE activeCalc' = [NoCalc EXCEPT !.on = TRUE]
               /\ querying' = querying \cup {<<v, TRUE>>}
      <4>1. activeCalc' \in Calcs /\ activeCalc'.on
        BY <3>3, <3>5
      <4>2. ~ cleared' => <<v, TRUE>> \in querying' /\ querying' = {<<v, TRUE>>}
        BY <3>2, <3>5
      <4>3. QED
        BY <4>1, <4>2 DEF LockInv
    <3>6. QED
      BY <3>1, <3>4, <3>5
  <2>3. QED
    BY <2>1, <2>2
<1>4. ASSUME NEW v \in Viewers, ComputeImpact(v) PROVE LockInv'
  <2>1. PICK live \in BOOLEAN : /\ <<v, live>> \in querying
                                /\ querying' = querying \ {<<v, live>>}
    BY <1>4 DEF ComputeImpact
  <2>2. activeCalc' = NoCalc /\ cleared' = cleared
    BY <1>4 DEF ComputeImpact
  <2>3. NoCalc \in Calcs /\ NoCalc.on = FALSE
    BY <1>t, CalcEdits
  <2>4. ~ cleared => querying' = {}
    BY <2>1 DEF LockInv
  <2>5. QED
    BY <2>2, <2>3, <2>4 DEF LockInv
<1>5. ASSUME NEW v \in Viewers, BreakStream(v) PROVE LockInv'
  <2>1. CASE <<v, TRUE>> \in querying
    <3>1. /\ querying' = (querying \ {<<v, TRUE>>}) \cup {<<v, FALSE>>}
          /\ activeCalc' = [activeCalc EXCEPT !.cancelled = activeCalc.on]
          /\ cleared' = cleared
      BY <1>5, <2>1 DEF BreakStream
    <3>2. activeCalc.on \in BOOLEAN
      BY <1>t DEF Calcs
    <3>3. activeCalc' \in Calcs /\ activeCalc'.on = activeCalc.on
      BY <1>t, <3>1, <3>2, CalcEdits
    <3>4. ~ cleared => activeCalc.on /\ querying' = {<<v, FALSE>>}
      BY <2>1, <3>1 DEF LockInv
    <3>5. QED
      BY <3>1, <3>3, <3>4 DEF LockInv
  <2>2. CASE <<v, TRUE>> \notin querying
    BY <1>5, <2>2, <1>t, <1>s DEF BreakStream
  <2>3. QED
    BY <2>1, <2>2
<1>6. QED
  BY <1>1, <1>2, <1>3, <1>4, <1>5, <1>t, <1>s
     DEF ImpactNext, SubmitImpact, Prefill, ReadEvent, ReadEnd, impactVars

\* A result with no rows left over from a stream that broke off.
Whole(res) == res.whole /\ res.rows = IF res.cancelled THEN {} ELSE res.hits

\* An event is the last one of a calculation only with a whole result, and rows
\* on their own come in events that say they are not.
SoundEvents ==
  {e \in [kind : {"start", "progress", "complete", "end", "error"}, data : Results] :
     e.kind = "complete" => Whole(e.data)}

Pages == [at : {"idle", "sent", "pending"}, error : BOOLEAN, result : Results,
          final : Results]

\* A page that shows a result shows one it has received whole, unless it shows an
\* error or is at work.
SoundPage(p) ==
  /\ p.final.whole => Whole(p.final)
  /\ p.at = "idle" /\ ~ p.error /\ p.result.shown => Whole(p.result)

PageInv ==
  /\ wire \in [Viewers -> Seq(SoundEvents)]
  /\ view \in [Viewers -> Pages]
  /\ \A v \in Viewers : SoundPage(view[v])

LEMMA NoResultTyped == NoResult \in Results /\ ~ NoResult.shown /\ ~ NoResult.whole
<1>1. NoResult \in Results
  BY DEF NoResult, Results
<1>2. QED
  BY <1>1 DEF NoResult

LEMMA ResultEdits ==
  ASSUME NEW x \in Results, NEW R \in SUBSET ImpactClients
  PROVE  /\ LET y == [x EXCEPT !.rows = R]
            IN  /\ y \in Results /\ y.rows = R /\ y.hits = x.hits
                /\ y.whole = x.whole /\ y.cancelled = x.cancelled
         /\ LET y == [x EXCEPT !.cancelled = TRUE]
            IN  /\ y \in Results /\ y.rows = x.rows /\ y.hits = x.hits
                /\ y.whole = x.whole /\ y.cancelled = TRUE
         /\ [x EXCEPT !.shown = TRUE] \in Results
<1>1. LET y == [x EXCEPT !.rows = R]
      IN  /\ y \in Results /\ y.rows = R /\ y.hits = x.hits
          /\ y.whole = x.whole /\ y.cancelled = x.cancelled
  BY DEF Results
<1>2. LET y == [x EXCEPT !.cancelled = TRUE]
      IN  /\ y \in Results /\ y.rows = x.rows /\ y.hits = x.hits
          /\ y.whole = x.whole /\ y.cancelled = TRUE
  BY DEF Results
<1>3. [x EXCEPT !.shown = TRUE] \in Results
  BY DEF Results
<1>4. QED
  BY <1>1, <1>2, <1>3

LEMMA PlainEvents ==
  ASSUME NEW k \in {"start", "progress", "end", "error"}, NEW d \in Results
  PROVE  StreamEvent(k, d) \in SoundEvents
BY DEF StreamEvent, SoundEvents

LEMMA ComputedSound ==
  ASSUME NEW plan \in SUBSET ImpactClients, NEW hits \in SUBSET plan
  PROVE  Computed(plan, hits) \in Seq(SoundEvents)
<1> DEFINE first == StreamEvent("start", [NoResult EXCEPT !.shown = TRUE])
           whole == [rows |-> hits, hits |-> hits, cancelled |-> FALSE,
                     whole |-> TRUE, shown |-> TRUE]
           bare == [whole EXCEPT !.rows = {}]
           none == [bare EXCEPT !.cancelled = TRUE]
<1>1. first \in SoundEvents
  <2>1. [NoResult EXCEPT !.shown = TRUE] \in Results
    BY NoResultTyped, ResultEdits
  <2>2. QED
    BY <2>1, PlainEvents
<1>2. whole \in Results /\ Whole(whole)
  BY DEF Results, Whole
<1> HIDE DEF whole
<1>3. none \in Results /\ Whole(none)
  <2>1. bare \in Results /\ bare.rows = {} /\ bare.whole
    BY <1>2, ResultEdits DEF Whole
  <2> HIDE DEF bare
  <2>2. none \in Results /\ none.rows = {} /\ none.whole /\ none.cancelled
    BY <2>1, ResultEdits
  <2>3. QED
    BY <2>2 DEF Whole
<1> HIDE DEF bare, none, first
<1>4. /\ StreamEvent("complete", whole) \in SoundEvents
      /\ StreamEvent("complete", none) \in SoundEvents
  BY <1>2, <1>3 DEF StreamEvent, SoundEvents
<1>5. ProgressEvents(plan, hits) \in Seq(SoundEvents)
  <2>1. Cardinality(plan) \in Nat
    BY ImpactAssumption, FS_Subset, FS_CardinalityType DEF ImpactAssumption
  <2>2. ASSUME NEW i \in 1 .. Cardinality(plan)
        PROVE  StreamEvent("progress", [NoResult EXCEPT !.rows = {SetToSeq(plan)[i]} \cap hits])
                 \in SoundEvents
    <3> DEFINE d == [NoResult EXCEPT !.rows = {SetToSeq(plan)[i]} \cap hits]
    <3>1. {SetToSeq(plan)[i]} \cap hits \in SUBSET ImpactClients
      OBVIOUS
    <3>2. d \in Results
      BY <3>1, NoResultTyped, ResultEdits
    <3> HIDE DEF d
    <3>3. StreamEvent("progress", d) \in SoundEvents
      BY <3>2, PlainEvents
    <3>4. QED
      BY <3>3 DEF d
  <2>3. QED
    <3>1. ProgressEvents(plan, hits) \in [1 .. Cardinality(plan) -> SoundEvents]
      BY <2>2 DEF ProgressEvents
    <3>2. \A S : \A n \in Nat : \A f \in [1 .. n -> S] : f \in Seq(S)
      OBVIOUS
    <3>3. QED
      BY <2>1, <3>1, <3>2
<1>6. \/ Computed(plan, hits) = <<first>>
      \/ Computed(plan, hits) = <<first, StreamEvent("complete", none)>>
      \/ Computed(plan, hits) =
           <<first>> \o ProgressEvents(plan, hits) \o <<StreamEvent("complete", whole)>>
  <2>1. CASE plan # {} /\ ~ activeCalc.on
    BY <2>1, Zenon DEF Computed, first, bare, none, whole
  <2>2. CASE plan # {} /\ activeCalc.on /\ activeCalc.cancelled
    BY <2>2, Zenon DEF Computed, first, bare, none, whole
  <2>3. CASE plan = {} \/ (activeCalc.on /\ ~ activeCalc.cancelled)
    BY <2>3, Zenon DEF Computed, first, bare, none, whole
  <2>4. QED
    BY <2>1, <2>2, <2>3
<1>7. CASE Computed(plan, hits) =
             <<first>> \o ProgressEvents(plan, hits) \o <<StreamEvent("complete", whole)>>
  <2>1. <<first>> \in Seq(SoundEvents) /\ <<StreamEvent("complete", whole)>> \in Seq(SoundEvents)
    BY <1>1, <1>4
  <2>2. <<first>> \o ProgressEvents(plan, hits) \in Seq(SoundEvents)
    BY <2>1, <1>5
  <2>3. QED
    BY <1>7, <2>1, <2>2
<1>8. /\ <<first>> \in Seq(SoundEvents)
      /\ <<first, StreamEvent("complete", none)>> \in Seq(SoundEvents)
  BY <1>1, <1>4
<1>9. QED
  BY <1>6, <1>7, <1>8

LEMMA PageEdits ==
  ASSUME NEW p \in Pages
  PROVE  /\ LET q == [p EXCEPT !.at = "sent"] IN q \in Pages /\ q.at = "sent"
         /\ LET q == [p EXCEPT !.at = "idle"] IN q \in Pages /\ q.final = p.final
         /\ LET q == [p EXCEPT !.at = "pending"]
            IN  q \in Pages /\ q.at = "pending" /\ q.final = p.final
         /\ \A b \in BOOLEAN : LET q == [p EXCEPT !.error = b]
                               IN  /\ q \in Pages /\ q.error = b
                                   /\ q.at = p.at /\ q.final = p.final
         /\ \A R \in Results : LET q == [p EXCEPT !.result = R]
                               IN  /\ q \in Pages /\ q.result = R
                                   /\ q.at = p.at /\ q.final = p.final
         /\ \A F \in Results : LET q == [p EXCEPT !.final = F]
                               IN  q \in Pages /\ q.at = p.at /\ q.final = F
<1>1. LET q == [p EXCEPT !.at = "sent"] IN q \in Pages /\ q.at = "sent"
  BY DEF Pages
<1>2. LET q == [p EXCEPT !.at = "idle"] IN q \in Pages /\ q.final = p.final
  BY DEF Pages
<1>3. LET q == [p EXCEPT !.at = "pending"]
      IN  q \in Pages /\ q.at = "pending" /\ q.final = p.final
  BY DEF Pages
<1>4. ASSUME NEW b \in BOOLEAN
      PROVE  LET q == [p EXCEPT !.error = b]
             IN  q \in Pages /\ q.error = b /\ q.at = p.at /\ q.final = p.final
  BY DEF Pages
<1>5. ASSUME NEW R \in Results
      PROVE  LET q == [p EXCEPT !.result = R]
             IN  q \in Pages /\ q.result = R /\ q.at = p.at /\ q.final = p.final
  BY DEF Pages
<1>6. ASSUME NEW F \in Results
      PROVE  LET q == [p EXCEPT !.final = F]
             IN  q \in Pages /\ q.at = p.at /\ q.final = F
  BY DEF Pages
<1>7. QED
  BY <1>1, <1>2, <1>3, <1>4, <1>5, <1>6

\* What the page of v becomes: it asks, fails, ends, is prefilled, or reads on.
LEMMA AskingPage ==
  ASSUME NEW p \in Pages, NEW F \in Results
  PROVE  LET q == [p EXCEPT !.at = "sent", !.error = FALSE, !.final = F]
         IN  q \in Pages /\ q.at = "sent" /\ q.final = F
<1> DEFINE x == [p EXCEPT !.at = "sent"]
           y == [x EXCEPT !.error = FALSE]
<1>1. x \in Pages /\ x.at = "sent"
  BY PageEdits
<1> HIDE DEF x
<1>2. y \in Pages /\ y.at = "sent"
  BY <1>1, PageEdits
<1> HIDE DEF y
<1>3. LET q == [y EXCEPT !.final = F] IN q \in Pages /\ q.at = "sent" /\ q.final = F
  BY <1>2, PageEdits
<1>4. QED
  BY <1>3 DEF x, y

LEMMA FailedPage ==
  ASSUME NEW p \in Pages
  PROVE  LET q == [p EXCEPT !.at = "idle", !.error = TRUE]
         IN  q \in Pages /\ q.error /\ q.final = p.final
<1> DEFINE x == [p EXCEPT !.at = "idle"]
<1>1. x \in Pages /\ x.final = p.final
  BY PageEdits
<1> HIDE DEF x
<1>2. LET q == [x EXCEPT !.error = TRUE] IN q \in Pages /\ q.error = TRUE /\ q.final = p.final
  BY <1>1, PageEdits
<1>3. QED
  BY <1>2 DEF x

LEMMA EndedPage ==
  ASSUME NEW p \in Pages, NEW R \in Results
  PROVE  LET q == [p EXCEPT !.at = "idle", !.result = R]
         IN  q \in Pages /\ q.result = R /\ q.final = p.final
<1> DEFINE x == [p EXCEPT !.at = "idle"]
<1>1. x \in Pages /\ x.final = p.final
  BY PageEdits
<1> HIDE DEF x
<1>2. LET q == [x EXCEPT !.result = R] IN q \in Pages /\ q.result = R /\ q.final = p.final
  BY <1>1 DEF Pages
<1>3. QED
  BY <1>2 DEF x

LEMMA PrefilledPage ==
  ASSUME NEW p \in Pages, NEW R \in Results
  PROVE  LET q == [p EXCEPT !.error = FALSE, !.result = R]
         IN  q \in Pages /\ q.result = R /\ q.final = p.final
<1> DEFINE x == [p EXCEPT !.error = FALSE]
<1>1. x \in Pages /\ x.final = p.final
  BY PageEdits
<1> HIDE DEF x
<1>2. LET q == [x EXCEPT !.result = R] IN q \in Pages /\ q.result = R /\ q.final = p.final
  BY <1>1 DEF Pages
<1>3. QED
  BY <1>2 DEF x

\* The page that has read an event.
PageThatRead(p, R, F) == [p EXCEPT !.result = R, !.final = F]

LEMMA ReadingPage ==
  ASSUME NEW p \in Pages, NEW R \in Results, NEW F \in Results
  PROVE  /\ PageThatRead(p, R, F) \in Pages
         /\ PageThatRead(p, R, F).at = p.at
         /\ PageThatRead(p, R, F).final = F
<1> DEFINE x == [p EXCEPT !.result = R]
<1>1. x \in Pages /\ x.at = p.at
  BY PageEdits
<1> HIDE DEF x
<1>2. LET q == [x EXCEPT !.final = F] IN q \in Pages /\ q.at = p.at /\ q.final = F
  BY <1>1, PageEdits
<1>3. QED
  BY <1>2 DEF x, PageThatRead

LEMMA PageStep == PageInv /\ [ImpactNext]_impactVars => PageInv'
<1> SUFFICES ASSUME PageInv, [ImpactNext]_impactVars PROVE PageInv'
  OBVIOUS
<1>t. /\ wire \in [Viewers -> Seq(SoundEvents)] /\ view \in [Viewers -> Pages]
      /\ \A v \in Viewers : SoundPage(view[v])
      /\ \A v \in Viewers : /\ view[v] \in Pages /\ view[v].result \in Results
                            /\ view[v].final \in Results
      /\ NoResult \in Results
  BY NoResultTyped DEF PageInv, Pages
<1>w. UNCHANGED wire => wire' \in [Viewers -> Seq(SoundEvents)]
  BY <1>t
<1>r. ASSUME NEW v \in Viewers, NEW s \in Seq(SoundEvents), Respond(v, s)
      PROVE  wire' \in [Viewers -> Seq(SoundEvents)]
  <2>1. wire[v] \o s \in Seq(SoundEvents)
    BY <1>t, <1>r
  <2>2. QED
    BY <1>t, <1>r, <2>1 DEF Respond
<1>f. ASSUME NEW v \in Viewers, RefuseImpact(v)
      PROVE  wire' \in [Viewers -> Seq(SoundEvents)]
  <2>1. StreamEvent("error", NoResult) \in SoundEvents
    BY <1>t, PlainEvents
  <2>2. <<StreamEvent("error", NoResult)>> \in Seq(SoundEvents)
    BY <2>1
  <2>3. QED
    BY <1>f, <2>2, <1>r DEF RefuseImpact
<1>g. ASSUME NEW v \in Viewers, NEW p \in Pages, ShowsPage(v, p), SoundPage(p),
             wire' \in [Viewers -> Seq(SoundEvents)]
      PROVE  PageInv'
  <2>1. view' \in [Viewers -> Pages] /\ \A q \in Viewers : SoundPage(view'[q])
    BY <1>g, <1>t DEF ShowsPage
  <2>2. QED
    BY <1>g, <2>1 DEF PageInv
<1>k. ASSUME UNCHANGED view, wire' \in [Viewers -> Seq(SoundEvents)] PROVE PageInv'
  BY <1>k, <1>t DEF PageInv
<1>h. ASSUME NEW v \in Viewers, wire[v] # << >>
      PROVE  /\ Head(wire[v]) \in SoundEvents
             /\ wire' = [wire EXCEPT ![v] = Tail(wire[v])] =>
                  wire' \in [Viewers -> Seq(SoundEvents)]
  <2>1. wire[v] \in Seq(SoundEvents)
    BY <1>t
  <2>2. Head(wire[v]) \in SoundEvents /\ Tail(wire[v]) \in Seq(SoundEvents)
    BY <1>h, <2>1
  <2>3. QED
    BY <2>2, <1>t
\* a page that fails shows the error
<1>e. ASSUME NEW v \in Viewers, PageFails(v), wire' \in [Viewers -> Seq(SoundEvents)]
      PROVE  PageInv'
  <2> DEFINE q == [view[v] EXCEPT !.at = "idle", !.error = TRUE]
  <2>1. q \in Pages /\ q.error /\ q.final = view[v].final
    BY <1>t, FailedPage
  <2>2. ShowsPage(v, q)
    BY <1>e DEF PageFails
  <2> HIDE DEF q
  <2>3. SoundPage(q)
    BY <1>t, <2>1 DEF SoundPage
  <2>4. QED
    BY <1>e, <2>1, <2>2, <2>3, <1>g
<1>1. ASSUME NEW v \in Viewers, PostImpact(v) PROVE PageInv'
  <2> DEFINE q == [view[v] EXCEPT !.at = "pending"]
  <2>1. q \in Pages /\ q.at = "pending" /\ q.final = view[v].final
    BY <1>t, PageEdits
  <2>2. ShowsPage(v, q) /\ (RefuseImpact(v) \/ UNCHANGED wire)
    BY <1>1 DEF PostImpact
  <2> HIDE DEF q
  <2>3. SoundPage(q)
    BY <1>t, <2>1 DEF SoundPage
  <2>4. QED
    BY <2>1, <2>2, <2>3, <1>g, <1>f, <1>w
<1>2. ASSUME NEW v \in Viewers, ComputeImpact(v) PROVE PageInv'
  <2>1. wire' \in [Viewers -> Seq(SoundEvents)]
    <3>1. ASSUME NEW p \in Plans,
                 Respond(v, Computed(p[1], p[2]) \o <<StreamEvent("end", NoResult)>>)
          PROVE  wire' \in [Viewers -> Seq(SoundEvents)]
      <4>1. p[1] \in SUBSET ImpactClients /\ p[2] \in SUBSET p[1]
        BY <3>1 DEF Plans
      <4>2. Computed(p[1], p[2]) \in Seq(SoundEvents)
        BY <4>1, ComputedSound
      <4>3. StreamEvent("end", NoResult) \in SoundEvents
        BY <1>t, PlainEvents
      <4>4. <<StreamEvent("end", NoResult)>> \in Seq(SoundEvents)
        BY <4>3
      <4>5. Computed(p[1], p[2]) \o <<StreamEvent("end", NoResult)>> \in Seq(SoundEvents)
        BY <4>2, <4>4
      <4>6. QED
        BY <3>1, <4>5, <1>r
    <3>2. QED
      BY <1>2, <3>1, <1>f, <1>w DEF ComputeImpact
  <2>2. QED
    BY <1>2, <2>1, <1>k DEF ComputeImpact
<1>3. ASSUME NEW v \in Viewers, SubmitImpact(v) PROVE PageInv'
  <2> DEFINE q == [view[v] EXCEPT !.at = "sent", !.error = FALSE, !.final = NoResult]
  <2>1. q \in Pages /\ q.at = "sent" /\ q.final = NoResult
    BY <1>t, AskingPage
  <2>2. ShowsPage(v, q)
    BY <1>3 DEF SubmitImpact, PageAsks
  <2> HIDE DEF q
  <2>3. SoundPage(q)
    BY <2>1, NoResultTyped DEF SoundPage
  <2>4. QED
    BY <1>3, <2>1, <2>2, <2>3, <1>g, <1>w DEF SubmitImpact
<1>4. ASSUME NEW v \in Viewers, Prefill(v) PROVE PageInv'
  <2> DEFINE q == [view[v] EXCEPT !.error = FALSE, !.result = NoResult]
  <2>1. q \in Pages /\ q.result = NoResult /\ q.final = view[v].final
    BY <1>t, PrefilledPage
  <2>2. ShowsPage(v, q)
    BY <1>4 DEF Prefill
  <2> HIDE DEF q
  <2>3. SoundPage(q)
    BY <1>t, <2>1, NoResultTyped DEF SoundPage
  <2>4. QED
    BY <1>4, <2>1, <2>2, <2>3, <1>g, <1>w DEF Prefill
<1>5. ASSUME NEW v \in Viewers, ReadEvent(v) PROVE PageInv'
  <2> DEFINE e == Head(wire[v])
             R == Applied(v, e)
             F == IF e.kind = "complete" THEN e.data ELSE view[v].final
  <2>1. e \in SoundEvents /\ wire' \in [Viewers -> Seq(SoundEvents)]
    BY <1>5, <1>h DEF ReadEvent
  <2>2. /\ ShowsPage(v, [view[v] EXCEPT !.result = R, !.final = F])
        /\ view[v].at = "pending" /\ e.kind \in {"start", "progress", "complete"}
    BY <1>5 DEF ReadEvent
  <2> HIDE DEF e
  <2>3. e.data \in Results /\ (e.kind = "complete" => Whole(e.data))
    BY <2>1 DEF SoundEvents
  <2>4. R \in Results
    <3>1. [view[v].result EXCEPT !.rows = view[v].result.rows \cup e.data.rows] \in Results
      <4>1. view[v].result.rows \cup e.data.rows \in SUBSET ImpactClients
        BY <1>t, <2>3 DEF Results
      <4>2. QED
        BY <4>1, <1>t, ResultEdits
    <3>2. QED
      BY <1>t, <2>3, <3>1 DEF Applied
  <2>5. F \in Results /\ (F.whole => Whole(F))
    BY <1>t, <2>3 DEF SoundPage
  <2>6. PICK S \in Results, G \in Results :
          /\ ShowsPage(v, [view[v] EXCEPT !.result = S, !.final = G])
          /\ G.whole => Whole(G)
    <3> HIDE DEF R, F
    <3>1. QED
      BY <2>2, <2>4, <2>5
  <2> DEFINE q == PageThatRead(view[v], S, G)
  <2> HIDE DEF R, F
  <2>7. q \in Pages /\ q.at = view[v].at /\ q.final = G
    <3>1. view[v] \in Pages
      BY <1>t
    <3>2. QED
      BY <3>1, ReadingPage
  <2>8. ShowsPage(v, q)
    BY <2>6 DEF PageThatRead
  <2> HIDE DEF q
  <2>9. SoundPage(q)
    BY <2>2, <2>6, <2>7 DEF SoundPage
  <2>10. QED
    BY <2>1, <2>7, <2>8, <2>9, <1>g
<1>6. ASSUME NEW v \in Viewers, ReadEnd(v) PROVE PageInv'
  <2>1. wire' \in [Viewers -> Seq(SoundEvents)]
    BY <1>6, <1>h DEF ReadEnd
  <2>2. CASE PageFails(v)
    BY <2>1, <2>2, <1>e
  <2>3. CASE ~ PageFails(v)
    <3> DEFINE q == [view[v] EXCEPT !.at = "idle", !.result = view[v].final]
    <3>1. q \in Pages /\ q.result = view[v].final /\ q.final = view[v].final
      BY <1>t, EndedPage
    <3>2. ShowsPage(v, q) /\ view[v].final.whole
      BY <1>6, <2>3 DEF ReadEnd
    <3> HIDE DEF q
    <3>3. SoundPage(q)
      BY <1>t, <3>1, <3>2 DEF SoundPage
    <3>4. QED
      BY <2>1, <3>1, <3>2, <3>3, <1>g
  <2>4. QED
    BY <2>2, <2>3
<1>7. ASSUME NEW v \in Viewers, BreakStream(v) PROVE PageInv'
  <2>1. PageFails(v) /\ wire' = [wire EXCEPT ![v] = << >>]
    BY <1>7 DEF BreakStream
  <2>2. wire' \in [Viewers -> Seq(SoundEvents)]
    BY <1>t, <2>1
  <2>3. QED
    BY <2>1, <2>2, <1>e
<1>8. CASE Ages \/ CancelCalc \/ UNCHANGED impactVars
  BY <1>8, <1>k, <1>w DEF Ages, CancelCalc, impactVars
<1>9. QED
  BY <1>1, <1>2, <1>3, <1>4, <1>5, <1>6, <1>7, <1>8 DEF ImpactNext

\* One calculation at a time until one is given up for stale, the lock free again
\* however it ends; and a page at rest without an error shows a whole result.
THEOREM ImpactHolds == ImpactSpec => []ImpactIsSound
<1>1. ImpactInit => LockInv /\ PageInv
  <2> SUFFICES ASSUME ImpactInit PROVE LockInv /\ PageInv
    OBVIOUS
  <2>1. NoCalc \in Calcs /\ ~ NoCalc.on
    BY DEF NoCalc, Calcs
  <2>2. NewPage \in Pages /\ SoundPage(NewPage)
    BY NoResultTyped DEF NewPage, Pages, SoundPage
  <2>3. LockInv
    BY <2>1 DEF ImpactInit, LockInv
  <2>4. << >> \in Seq(SoundEvents)
    OBVIOUS
  <2>5. PageInv
    BY <2>2, <2>4 DEF ImpactInit, PageInv
  <2>6. QED
    BY <2>3, <2>5
<1>2. LockInv => CalculationIsExclusive
  <2> SUFFICES ASSUME LockInv, ~ cleared
               PROVE  Cardinality(querying) <= 1 /\ (activeCalc.on <=> querying # {})
    BY DEF CalculationIsExclusive
  <2>1. Cardinality({}) = 0 /\ \A w : Cardinality({w}) = 1
    BY FS_EmptySet, FS_Singleton
  <2>2. Cardinality(querying) <= 1
    <3>1. querying = {} \/ \E w \in querying : querying = {w}
      BY DEF LockInv
    <3>2. QED
      BY <2>1, <3>1
  <2>3. activeCalc.on <=> querying # {}
    BY Zenon DEF LockInv
  <2>4. QED
    BY <2>2, <2>3
<1>3. PageInv => QuietPageIsWhole
  BY DEF PageInv, SoundPage, QuietPageIsWhole, Whole
<1>4. QED
  BY <1>1, <1>2, <1>3, LockStep, PageStep, PTL DEF ImpactSpec, ImpactIsSound
=============================================================================
