-------------------------- MODULE SessionLifecycle --------------------------
(***************************************************************************)
(* What a session token promises to whoever revokes it: it is issued once, *)
(* and once it is refused it stays refused.  Abstract specification;       *)
(* Access implements it.                                                   *)
(***************************************************************************)
EXTENDS FiniteSets

CONSTANT Tokens

VARIABLE standing      \* [Tokens -> {"unissued", "live", "dead"}]

LifeInit == standing = [t \in Tokens |-> "unissued"]

\* A token may be dead on arrival: its version was read before a revocation.
IssueToken ==
  \E t \in Tokens, s \in {"live", "dead"} :
    standing[t] = "unissued" /\ standing' = [standing EXCEPT ![t] = s]

\* Logout and refresh end one token, a new version ends all of an account's.
EndTokens ==
  \E S \in SUBSET {t \in Tokens : standing[t] = "live"} :
    standing' = [t \in Tokens |-> IF t \in S THEN "dead" ELSE standing[t]]

LifeNext == IssueToken \/ EndTokens

LifeSpec == LifeInit /\ [][LifeNext]_standing
=============================================================================
