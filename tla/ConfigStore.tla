----------------------------- MODULE ConfigStore -----------------------------
(***************************************************************************)
(* The configuration of config-service.ts and routes/config.ts, held three *)
(* times: the AppConfig rows, the cache every getter reads, and the copy   *)
(* applyDbConfig gives the mail transporter.  At start the rows are read,  *)
(* completed and cleaned one awaited write at a time; afterwards           *)
(* administrators patch several keys in one request.                       *)
(* smtp is a key of the SECRETS category, limit one with a range, added    *)
(* one that older databases lack, legacy one to be removed, and user and   *)
(* hash the two halves of the master account.                              *)
(***************************************************************************)
EXTENDS Naturals, Sequences

CONSTANTS Patches,        \* the PATCH requests
          Overlap,        \* TRUE: requests may be in flight together
          ConfigFaults,   \* TRUE: a write may fail
          Restarts        \* TRUE: the server may be restarted at any step

VARIABLES row, cache, transport,
          boot,           \* the keys load() has still to see to
          patch           \* patch[p]: the request in flight

configVars == <<row, cache, transport, boot, patch>>

Keys == {"smtp", "limit", "added", "legacy", "user", "hash"}
Absent == "absent"
Mask == "mask"
Values == {"a", "b", Mask, "bad"}
BootSteps == <<"read", "added", "user", "hash", "legacy", "apply">>
Up == boot = << >>

\* PATCH bodies: a key the table lacks is one of them.
Updates == {<<"smtp", "b">>, <<"smtp", Mask>>, <<"limit", "b">>, <<"limit", Mask>>,
            <<"limit", "bad">>, <<"ghost", "b">>}
Bodies == {<<u, v>> : u, v \in Updates} \cup {<<u>> : u \in Updates}
NoPatch == [stage |-> "idle", todo |-> << >>, secrets |-> FALSE]
InFlight(p) == patch[p].stage \in {"next", "write", "written"}

ConfigTypeOK ==
  /\ row \in [Keys -> Values \cup {Absent}]
  /\ cache \in [Keys -> Values \cup {Absent}]
  /\ transport \in Values \cup {Absent}
  /\ patch \in [Patches -> [stage : {"idle", "next", "write", "written", "done", "failed"},
                            todo : UNION {[1 .. n -> Updates] : n \in 0 .. 2}, secrets : BOOLEAN]]

ConfigInit ==
  /\ row \in [Keys -> {"a", Absent}]
  /\ row["smtp"] = "a" /\ row["limit"] = "a" /\ row["user"] = row["hash"]
  /\ cache = [k \in Keys |-> Absent]
  /\ transport = Absent
  /\ boot = BootSteps
  /\ patch = [p \in Patches |-> NoPatch]

Store(k, v) == row' = [row EXCEPT ![k] = v] /\ cache' = [cache EXCEPT ![k] = v]
SameRows == UNCHANGED <<row, cache>>

Load == cache' = row /\ UNCHANGED row

\* ensureX: a missing key is created with its default.
Ensure(k) == IF cache[k] = Absent THEN Store(k, "a") ELSE SameRows

\* The master account is completed only when it has no name: the name first, then the hash.
EnsureMaster ==
  IF cache["user"] = Absent
  THEN Store("user", "a") /\ boot' = Tail(boot)
  ELSE SameRows /\ boot' = Tail(Tail(boot))

CleanupLegacy(k) == IF cache[k] = Absent THEN SameRows ELSE Store(k, Absent)

ApplyDbConfig == transport' = cache["smtp"]

BootStep ==
  /\ ~Up
  /\ CASE Head(boot) = "read" -> Load
       [] Head(boot) = "added" -> Ensure("added")
       [] Head(boot) = "user" -> EnsureMaster
       [] Head(boot) = "hash" -> Store("hash", "a")
       [] Head(boot) = "legacy" -> CleanupLegacy("legacy")
       [] Head(boot) = "apply" -> ApplyDbConfig /\ SameRows
  /\ Head(boot) # "apply" => UNCHANGED transport
  /\ Head(boot) # "user" => boot' = Tail(boot)
  /\ UNCHANGED patch

RestartServer ==
  /\ Restarts
  /\ boot' = BootSteps
  /\ cache' = [k \in Keys |-> Absent]
  /\ transport' = Absent
  /\ patch' = [p \in Patches |-> IF InFlight(p) THEN [NoPatch EXCEPT !.stage = "failed"]
                                 ELSE patch[p]]
  /\ UNCHANGED row

Valid(u) == u[1] = "limit" => u[2] # "bad"

Set(p, stage) == patch' = [patch EXCEPT ![p].stage = stage]

\* bulkUpdate checks every value before it writes the first.
Patch(p) ==
  /\ Up /\ patch[p].stage = "idle"
  /\ Overlap \/ \A q \in Patches : ~InFlight(q)
  /\ \E us \in Bodies :
       /\ \A i \in DOMAIN us : Valid(us[i])
       /\ patch' = [patch EXCEPT ![p] = [stage |-> "next", todo |-> us, secrets |-> FALSE]]
  /\ UNCHANGED <<row, cache, transport, boot>>

\* An unknown key ends the request where it stands; a masked secret is left as it is.
Update(p) ==
  LET u == Head(patch[p].todo) IN
  /\ patch[p].stage = "next" /\ patch[p].todo # << >>
  /\ CASE u[1] = "ghost" -> Set(p, "failed")
       [] u = <<"smtp", Mask>> ->
            patch' = [patch EXCEPT ![p] = [stage |-> "next", todo |-> Tail(@.todo),
                                             secrets |-> TRUE]]
       [] OTHER -> Set(p, "write")
  /\ UNCHANGED <<row, cache, transport, boot>>

\* mutant: the cache is set before the row is written
WriteCacheFirst(p) ==
  LET u == Head(patch[p].todo) IN
  /\ patch[p].stage = "write"
  /\ cache' = [cache EXCEPT ![u[1]] = u[2]]
  /\ \/ row' = [row EXCEPT ![u[1]] = u[2]] /\ Set(p, "written")
     \/ ConfigFaults /\ Set(p, "failed") /\ UNCHANGED row
  /\ UNCHANGED <<transport, boot>>

Write(p) ==
  LET u == Head(patch[p].todo) IN
  /\ patch[p].stage = "write"
  /\ \/ row' = [row EXCEPT ![u[1]] = u[2]] /\ Set(p, "written")
     \/ ConfigFaults /\ Set(p, "failed") /\ UNCHANGED row
  /\ UNCHANGED <<cache, transport, boot>>

Written(p) ==
  LET u == Head(patch[p].todo) IN
  /\ patch[p].stage = "written"
  /\ cache' = [cache EXCEPT ![u[1]] = u[2]]
  /\ patch' = [patch EXCEPT ![p] = [stage |-> "next", todo |-> Tail(@.todo),
                                    secrets |-> @.secrets \/ u[1] = "smtp"]]
  /\ UNCHANGED <<row, transport, boot>>

\* A request that came to its end reloads the mailer when it touched a secret.
Replied(p) ==
  /\ patch[p].stage = "next" /\ patch[p].todo = << >>
  /\ Set(p, "done")
  /\ IF patch[p].secrets THEN ApplyDbConfig ELSE UNCHANGED transport
  /\ UNCHANGED <<row, cache, boot>>

ConfigNext ==
  \/ BootStep
  \/ RestartServer
  \/ \E p \in Patches : Patch(p) \/ Update(p) \/ Write(p) \/ Written(p) \/ Replied(p)

ConfigSpec == ConfigInit /\ [][ConfigNext]_configVars

(***************************************************************************)
(* With requests one at a time: once the server is up and none is in       *)
(* flight, the cache every service reads is what the table holds, whatever *)
(* failed half-way and after any restart; and unless a request failed, the *)
(* mailer uses the cached setting.                                         *)
(***************************************************************************)
QuietConfigAgrees ==
  Up /\ (\A p \in Patches : ~InFlight(p)) =>
    /\ cache = row
    /\ transport = cache["smtp"] \/ \E p \in Patches : patch[p].stage = "failed"
=============================================================================
