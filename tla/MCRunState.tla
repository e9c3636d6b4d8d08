----------------------------- MODULE MCRunState -----------------------------
(* Three runs on two slots, so that a run waits, is refused and is granted   *)
(* after a reap; two tasks, and one run whose limit is below their number.   *)
EXTENDS RunState

CONSTANTS r1, r2, r3, t1, t2

MCRuns == {r1, r2, r3}
MCTasks == {t1, t2}
MCMaxLinks == [r \in MCRuns |-> IF r = r1 THEN 1 ELSE 2]

=============================================================================
