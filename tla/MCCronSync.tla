----------------------------- MODULE MCCronSync -----------------------------
(* Small instances of CronSync. *)
EXTENDS CronSync, TLC

CONSTANTS a, b

Line(c, n) == [cmd |-> c, sched |-> n]
OwnNames == a :> "A" @@ b :> "B"

\* Nothing, one command under two schedules, another command.
FewCrontabs == {<<>>, <<Line(a, 1), Line(a, 2)>>, <<Line(b, 1), Line(a, 1)>>}
TwoCrontabs == {<<Line(a, 1), Line(a, 2)>>, <<Line(b, 1)>>}

Symmetry == Permutations(Jobs) \cup Permutations(Rows) \cup Permutations(Syncs)
=============================================================================
