----------------------------- MODULE AlertRules -----------------------------
(***************************************************************************)
(* The alert rules of alert-service.ts and routes/alerts.ts: a failed      *)
(* execution is matched with the rules, each rule outside its cooldown     *)
(* leaves an event and is sent over its channels, while rules are edited   *)
(* and deleted and events acknowledged.  An alert in flight is a process;  *)
(* its steps are its awaited calls.                                        *)
(***************************************************************************)
EXTENDS Naturals, FiniteSets

CONSTANTS Rules, Alerts, Channels,
          Cooldown,        \* cooldownMinutes, in ticks
          AlertHorizon     \* bound on the clock

ASSUME AlertAssumption == AlertHorizon \in Nat \ {0}

VARIABLES rule,       \* rule[r]: the row, NoRule before it is created, Gone once deleted
          event,      \* the AlertEvent rows
          alert,      \* alert[a]: the processAlert call in flight
          now

alertVars == <<rule, event, alert, now>>

NoRule == [active |-> FALSE, channels |-> {}, last |-> 0]
Gone == [NoRule EXCEPT !.last = 1]
RuleRows == [active : BOOLEAN, channels : (SUBSET Channels) \ {{}}, last : 0 .. AlertHorizon]

\* of: the rows Match read; quiet: those passed over; left, tried: channels to come and attempted
NoAlert == [stage |-> "idle", of |-> [r \in {} |-> NoRule], todo |-> {}, quiet |-> {},
            left |-> {}, tried |-> {}]

Exists(r) == rule[r] \notin {NoRule, Gone}

AlertTypeOK ==
  /\ rule \in [Rules -> RuleRows \cup {NoRule, Gone}]
  /\ event \subseteq [rule : Rules, alert : Alerts, acknowledged : BOOLEAN]
  /\ \A a \in Alerts : /\ alert[a].stage \in {"idle", "match", "next", "create", "stamp",
                                              "send", "done", "failed"}
                       /\ alert[a].todo \cup alert[a].quiet \subseteq DOMAIN alert[a].of
  /\ now \in 1 .. AlertHorizon

AlertInit ==
  /\ rule = [r \in Rules |-> NoRule]
  /\ event = {}
  /\ alert = [a \in Alerts |-> NoAlert]
  /\ now = 1

AlertTick == now < AlertHorizon /\ now' = now + 1 /\ UNCHANGED <<rule, event, alert>>

CreateRule(r) ==
  /\ rule[r] = NoRule
  /\ \E cs \in (SUBSET Channels) \ {{}} :
       rule' = [rule EXCEPT ![r] = [active |-> TRUE, channels |-> cs, last |-> 0]]
  /\ UNCHANGED <<event, alert, now>>

UpdateRule(r) ==
  /\ Exists(r)
  /\ \E on \in BOOLEAN, cs \in (SUBSET Channels) \ {{}} :
       rule' = [rule EXCEPT ![r] = [active |-> on, channels |-> cs, last |-> @.last]]
  /\ UNCHANGED <<event, alert, now>>

\* The events of a rule go with it (onDelete: Cascade).
DeleteRule(r) ==
  /\ Exists(r)
  /\ rule' = [rule EXCEPT ![r] = Gone]
  /\ event' = {e \in event : e.rule # r}
  /\ UNCHANGED <<alert, now>>

Acknowledge(some) ==
  /\ some # {}
  /\ event' = (event \ some) \cup {[e EXCEPT !.acknowledged = TRUE] : e \in some}
  /\ UNCHANGED <<rule, alert, now>>

AcknowledgeOne == \E e \in event : Acknowledge({e})
AcknowledgeAll == Acknowledge({e \in event : ~e.acknowledged})

\* execution:failed
Raise(a) ==
  /\ alert[a].stage = "idle"
  /\ alert' = [alert EXCEPT ![a].stage = "match"]
  /\ UNCHANGED <<rule, event, now>>

Match(a) ==
  LET found == {r \in Rules : Exists(r) /\ rule[r].active} IN
  /\ alert[a].stage = "match"
  /\ alert' = [alert EXCEPT ![a] = [@ EXCEPT !.stage = "next", !.todo = found,
                                              !.of = [r \in found |-> rule[r]]]]
  /\ UNCHANGED <<rule, event, now>>

InCooldown(row) == row.last # 0 /\ now < row.last + Cooldown

\* The rules come in the order the database gave; the cooldown is tested on the row Match read.
Current(a) == CHOOSE q \in alert[a].todo : TRUE

\* mutant: a rule in cooldown ends the call instead of being passed over
NextRuleOrReturn(a) ==
  LET q == alert[a]  r == Current(a) IN
  /\ q.stage = "next"
  /\ alert' = [alert EXCEPT ![a] =
       IF q.todo = {} THEN [q EXCEPT !.stage = "done"]
       ELSE IF InCooldown(q.of[r]) THEN [q EXCEPT !.stage = "done", !.quiet = q.quiet \cup {r}]
       ELSE [q EXCEPT !.stage = "create"]]
  /\ UNCHANGED <<rule, event, now>>

NextRule(a) ==
  LET q == alert[a]  r == Current(a) IN
  /\ q.stage = "next"
  /\ alert' = [alert EXCEPT ![a] =
       IF q.todo = {} THEN [q EXCEPT !.stage = "done"]
       ELSE IF InCooldown(q.of[r])
       THEN [q EXCEPT !.todo = q.todo \ {r}, !.quiet = q.quiet \cup {r}]
       ELSE [q EXCEPT !.stage = "create"]]
  /\ UNCHANGED <<rule, event, now>>

\* A rule deleted since Match fails the insert, and with it the rest of the call.
CreateEvent(a) ==
  LET r == Current(a) IN
  /\ alert[a].stage = "create"
  /\ IF Exists(r)
     THEN /\ event' = event \cup {[rule |-> r, alert |-> a, acknowledged |-> FALSE]}
          /\ alert' = [alert EXCEPT ![a].stage = "stamp"]
     ELSE alert' = [alert EXCEPT ![a].stage = "failed"] /\ UNCHANGED event
  /\ UNCHANGED <<rule, now>>

Stamp(a) ==
  LET r == Current(a) IN
  /\ alert[a].stage = "stamp"
  /\ IF Exists(r)
     THEN /\ rule' = [rule EXCEPT ![r].last = now]
          /\ alert' = [alert EXCEPT ![a] = [@ EXCEPT !.stage = "send",
                                                     !.left = alert[a].of[r].channels]]
     ELSE alert' = [alert EXCEPT ![a].stage = "failed"] /\ UNCHANGED rule
  /\ UNCHANGED <<event, now>>

\* One channel answers or fails; either way the loop goes on.
Send(a) ==
  LET q == alert[a]
      r == Current(a)
      c == CHOOSE d \in q.left : TRUE IN
  /\ q.stage = "send"
  /\ alert' = [alert EXCEPT ![a] =
       IF q.left = {} THEN [q EXCEPT !.stage = "next", !.todo = q.todo \ {r}]
       ELSE [q EXCEPT !.left = q.left \ {c}, !.tried = q.tried \cup {<<r, c>>}]]
  /\ UNCHANGED <<rule, event, now>>

AlertStep(a) ==
  \/ Raise(a)
  \/ Match(a)
  \/ NextRule(a)
  \/ CreateEvent(a)
  \/ Stamp(a)
  \/ Send(a)

AlertNext ==
  \/ AlertTick
  \/ \E r \in Rules : CreateRule(r) \/ UpdateRule(r) \/ DeleteRule(r)
  \/ AcknowledgeOne
  \/ AcknowledgeAll
  \/ \E a \in Alerts : AlertStep(a)

AlertSpec == AlertInit /\ [][AlertNext]_alertVars

(***************************************************************************)
(* When processAlert has returned, every rule it matched was in cooldown,  *)
(* has been deleted, or holds the event of this alert, tried on each of    *)
(* the channels it had: neither a channel that fails nor another alert     *)
(* nor an acknowledgement costs a rule its event.                          *)
(***************************************************************************)
ReturnedAlertReached ==
  \A a \in Alerts : alert[a].stage = "done" =>
    \A r \in DOMAIN alert[a].of \ alert[a].quiet :
      \/ rule[r] = Gone
      \/ /\ \E e \in event : e.rule = r /\ e.alert = a
         /\ {r} \X alert[a].of[r].channels \subseteq alert[a].tried
=============================================================================
