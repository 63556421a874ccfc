----------------------------- MODULE SecretKeys -----------------------------
(***************************************************************************)
(* The passwords kept in the database and the keys they are sealed with:   *)
(* utils/crypto.ts, client-db2-password.ts, reencrypt-secrets-service.ts,  *)
(* the writers of Client.db2Password in routes/clients.ts, and the         *)
(* secrets.db2Password entry of config-service.ts.  A key is its number;   *)
(* rotating it follows the banner of Admin -> Config: start the server     *)
(* with a new key and the previous one, re-encrypt, see a pre-flight with  *)
(* nothing pending, and only then start it without the previous key.       *)
(***************************************************************************)
EXTENDS Naturals

CONSTANTS
  SecretClients,   \* clients with a DB2 password
  Tasks,           \* requests that take several steps
  MaxKey           \* keys ever in use

ASSUME SecretAssumption == MaxKey \in Nat \ {0}

VARIABLES
  keys,            \* CONFIG_ENCRYPTION_KEY and CONFIG_ENCRYPTION_KEY_PREVIOUS, 0: not set
  stored,          \* the value in the database
  cached,          \* what the cache of the configuration holds of the fallback
  task,            \* task[t]: the request, the rows it has still to see, what it has read
  clean            \* a pre-flight under these keys showed nothing pending

secretVars == <<keys, stored, cached, task, clean>>

Fallback == "secrets.db2Password"
Secrets == SecretClients \cup {Fallback}
Passwords == {"old", "new"}

\* A long password in plain text cannot be told from a sealed one.
Stored == [form : {"plain", "long"}, key : {0}, pw : Passwords]
            \cup [form : {"sealed"}, key : 1 .. MaxKey, pw : Passwords]
            \cup [form : {"empty"}, key : {0}, pw : {""}]
EmptySecret == [form |-> "empty", key |-> 0, pw |-> ""]

Nothing == [s \in Secrets |-> EmptySecret]
Work(kind, todo, seen, pw) == [kind |-> kind, todo |-> todo, seen |-> seen, pw |-> pw]
NoTask == Work("idle", {}, Nothing, "")
TaskRows == [kind : {"idle", "rows", "fallback", "bulk", "save", "scan"},
             todo : SUBSET SecretClients, seen : [Secrets -> Stored],
             pw : Passwords \cup {""}]

SecretTypeOK ==
  /\ keys \in [current : 1 .. MaxKey, previous : 0 .. MaxKey]
  /\ stored \in [Secrets -> Stored]
  /\ cached \in Passwords \cup {"", "cipher"}
  /\ task \in [Tasks -> TaskRows]
  /\ clean \in BOOLEAN

----------------------------------------------------------------------------
(* crypto.ts *)

Seal(pw) == [form |-> "sealed", key |-> keys.current, pw |-> pw]

Classify(v) ==
  CASE v.form = "empty" -> "empty"
    [] v.form = "plain" -> "plaintext"
    [] v.form = "sealed" /\ v.key = keys.current -> "encrypted_current"
    [] v.form = "sealed" /\ v.key = keys.previous -> "encrypted_previous"
    [] OTHER -> "unreadable"

NeedsReencrypt(v) == Classify(v) \in {"plaintext", "encrypted_previous"}

\* A value that does not decrypt is taken for the password itself.
Decrypt(v, ks) ==
  IF v.form = "sealed" /\ v.key \notin {ks.current, ks.previous} THEN "cipher" ELSE v.pw

----------------------------------------------------------------------------

SecretInit ==
  /\ keys = [current |-> 1, previous |-> 0]
  /\ stored \in [Secrets -> {EmptySecret, [form |-> "plain", key |-> 0, pw |-> "old"],
                             [form |-> "long", key |-> 0, pw |-> "old"],
                             [form |-> "sealed", key |-> 1, pw |-> "old"]}]
  /\ cached = stored[Fallback].pw
  /\ task = [t \in Tasks |-> NoTask]
  /\ clean = FALSE

Moves(t, to) == task' = [task EXCEPT ![t] = to]
TaskEnds(t) == Moves(t, NoTask)

\* reencryptSecrets reads every client at once.
Reencrypt(t) ==
  /\ task[t].kind = "idle"
  /\ Moves(t, Work("rows", SecretClients, stored, ""))
  /\ UNCHANGED <<keys, stored, cached, clean>>

\* Each row is written from what was read of it then; a write that fails ends the run.
ReencryptRow(t) ==
  \E c \in task[t].todo :
    LET v == task[t].seen[c] IN
    /\ task[t].kind = "rows"
    /\ \/ /\ stored' = [stored EXCEPT ![c] = IF NeedsReencrypt(v) THEN Seal(v.pw) ELSE @]
          /\ Moves(t, Work("rows", task[t].todo \ {c}, task[t].seen, ""))
       \/ NeedsReencrypt(v) /\ TaskEnds(t) /\ UNCHANGED stored
    /\ UNCHANGED <<keys, cached, clean>>

ReadFallback(t) ==
  /\ task[t].kind = "rows" /\ task[t].todo = {}
  /\ Moves(t, Work("fallback", {}, stored, ""))
  /\ UNCHANGED <<keys, stored, cached, clean>>

ReencryptFallback(t) ==
  LET v == task[t].seen[Fallback] IN
  /\ task[t].kind = "fallback"
  /\ \/ stored' = [stored EXCEPT ![Fallback] = IF NeedsReencrypt(v) THEN Seal(v.pw) ELSE @]
     \/ NeedsReencrypt(v) /\ UNCHANGED stored
  /\ TaskEnds(t)
  /\ UNCHANGED <<keys, cached, clean>>

\* getReencryptPreflight: the clients, then the fallback
Preflight(t) ==
  /\ task[t].kind = "idle"
  /\ Moves(t, Work("scan", {}, stored, ""))
  /\ UNCHANGED <<keys, stored, cached, clean>>

\* mutant: the clients alone decide
ReportClients(t) ==
  /\ task[t].kind = "scan"
  /\ clean' = (clean \/ ~ \E c \in SecretClients : NeedsReencrypt(task[t].seen[c]))
  /\ TaskEnds(t)
  /\ UNCHANGED <<keys, stored, cached>>

Report(t) ==
  /\ task[t].kind = "scan"
  /\ clean' = (clean \/ ~ \/ NeedsReencrypt(stored[Fallback])
                          \/ \E c \in SecretClients : NeedsReencrypt(task[t].seen[c]))
  /\ TaskEnds(t)
  /\ UNCHANGED <<keys, stored, cached>>

\* PATCH /clients/:id; an empty password is refused.
SetPassword(c) ==
  /\ stored' = [stored EXCEPT ![c] = Seal("new")]
  /\ UNCHANGED <<keys, cached, task, clean>>

\* POST /clients/bulk-update-passwords, over the active clients that have DB2 set up;
\* a row that cannot be written is counted and left.
BulkPasswords(t) ==
  /\ task[t].kind = "idle"
  /\ \E some \in SUBSET SecretClients :
       Moves(t, Work("bulk", some, Nothing, ""))
  /\ UNCHANGED <<keys, stored, cached, clean>>

BulkRow(t) ==
  /\ task[t].kind = "bulk"
  /\ \/ \E c \in task[t].todo :
          /\ Moves(t, Work("bulk", task[t].todo \ {c}, Nothing, ""))
          /\ stored' \in {stored, [stored EXCEPT ![c] = Seal("new")]}
     \/ task[t].todo = {} /\ TaskEnds(t) /\ UNCHANGED stored
  /\ UNCHANGED <<keys, cached, clean>>

\* configService.update for the fallback: the row, which may be emptied, then the cache
SaveFallback(t) ==
  /\ task[t].kind = "idle"
  /\ \E pw \in {"new", ""} :
       /\ stored' = [stored EXCEPT ![Fallback] = IF pw = "" THEN EmptySecret ELSE Seal(pw)]
       /\ Moves(t, Work("save", {}, Nothing, pw))
  /\ UNCHANGED <<keys, cached, clean>>

FallbackSaved(t) ==
  /\ task[t].kind = "save"
  /\ cached' = task[t].pw
  /\ TaskEnds(t)
  /\ UNCHANGED <<keys, stored, clean>>

\* The server starts with the keys of its environment and loads the configuration.
StartWith(ks) ==
  /\ keys' = ks
  /\ cached' = Decrypt(stored[Fallback], ks)
  /\ task' = [t \in Tasks |-> NoTask]
  /\ clean' = (clean /\ ks = keys)
  /\ UNCHANGED stored

PlainRestart == StartWith(keys)

RotateKey ==
  /\ keys.previous = 0 /\ keys.current < MaxKey
  /\ StartWith([current |-> keys.current + 1, previous |-> keys.current])

RetireKey ==
  /\ keys.previous # 0 /\ clean
  /\ StartWith([keys EXCEPT !.previous = 0])

SecretNext ==
  \/ PlainRestart \/ RotateKey \/ RetireKey
  \/ \E c \in SecretClients : SetPassword(c)
  \/ \E t \in Tasks : \/ Reencrypt(t) \/ ReencryptRow(t) \/ ReadFallback(t)
                      \/ ReencryptFallback(t) \/ Preflight(t) \/ Report(t)
                      \/ BulkPasswords(t) \/ BulkRow(t)
                      \/ SaveFallback(t) \/ FallbackSaved(t)

SecretSpec == SecretInit /\ [][SecretNext]_secretVars

----------------------------------------------------------------------------
(* Properties *)

\* A rotation that follows the banner loses nothing: whatever is sealed can be
\* opened with a key the server has, through failed and overlapping runs, saves,
\* and restarts at any step.
SealedIsReadable ==
  \A s \in Secrets : stored[s].form = "sealed" => stored[s].key \in {keys.current, keys.previous}
=============================================================================
