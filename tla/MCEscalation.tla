---------------------------- MODULE MCEscalation ----------------------------
(* TLC instances of Escalation: clients, requests in flight and users are    *)
(* interchangeable, so the safety runs use their permutations as symmetry.   *)
EXTENDS Escalation, TLC

Symmetry == Permutations(Clients) \cup Permutations(Runs)
=============================================================================
